-------------------------- MODULE AdministrationProofs --------------------------
(***************************************************************************)
(* Proofs about Administration, for any users, organizations, files,       *)
(* installations, threads and bounds.  Each part has an inductive          *)
(* invariant of its own; a step of another part leaves its variables.      *)
(***************************************************************************)
EXTENDS Administration, FiniteSetTheorems, WellFoundedInduction, TLAPS

-----------------------------------------------------------------------------
(* PeerRegistry: a thread past the answer has vouched for what it carries. *)

PeerRow == [org : PeerOrgs, enabled : BOOLEAN, address : Addresses]
Goals == {"update", "authorize", "test"}
Asking == [at : {"asks", "reads", "answered"}, instance : Instances,
           address : Addresses, org : PeerOrgs, goal : Goals, shown : BOOLEAN]
Saving == [at : {"saves", "answered"}, instance : Instances, address : Addresses,
           org : PeerOrgs, goal : Goals, shown : BOOLEAN, row : PeerRow]

PeersTypes ==
  /\ peers \in [Instances -> PeerRow \cup {NoPeer}]
  /\ dialog \in PeerOrgs \cup {NoOne}
  /\ heard \subseteq Announcements
  /\ checks \in [Checkers -> Asking \cup Saving \cup {NoCheck}]

\* A check that has had its answer carries an address that was vouched for.
ChecksVouched ==
  \A k \in Checkers :
    /\ checks[k].at \in {"reads", "saves", "answered"} =>
         <<checks[k].instance, checks[k].address>> \in vouched
    /\ checks[k].at = "saves" => checks[k].row.address = checks[k].address

PeersInv == PeersTypes /\ ChecksVouched /\ AddressesVouched

\* No installation is known and no check is under way when the program begins.
LEMMA PeersBegin == PeersInit => PeersInv
  BY DEF PeersInit, PeersInv, PeersTypes, ChecksVouched, AddressesVouched, NoCheck

\* A registration keeps the types, and its address was vouched for.
LEMMA RegisteredKeeps ==
  ASSUME PeersTypes, AddressesVouched,
         NEW i \in Instances, NEW o \in PeerOrgs, NEW a \in Addresses,
         NEW v, vouched \subseteq v, <<i, a>> \in v
  PROVE  /\ Registered(i, o, a) \in [Instances -> PeerRow \cup {NoPeer}]
         /\ \A j \in Instances : Registered(i, o, a)[j] # NoPeer =>
              <<j, Registered(i, o, a)[j].address>> \in v
  BY DEF PeersTypes, AddressesVouched, Registered, PeerRow

\* Every gesture, announcement and answer of a check keeps the vouched addresses.
LEMMA PeersStep == PeersInv /\ PeersNext => PeersInv'
<1> SUFFICES ASSUME PeersInv, PeersNext PROVE PeersInv'
  OBVIOUS
<1> USE DEF PeersInv
<1>1. ASSUME NEW o \in PeerOrgs, OpenNetworkDialog(o) PROVE PeersInv'
  BY <1>1 DEF OpenNetworkDialog, PeersTypes, ChecksVouched, AddressesVouched
<1>2. CASE CloseNetworkDialog
  <2>1. \A k \in Checkers :
          /\ checks'[k] \in Asking \cup Saving \cup {NoCheck}
          /\ checks'[k].at = checks[k].at
          /\ checks[k] # NoCheck =>
               /\ checks'[k].instance = checks[k].instance
               /\ checks'[k].address = checks[k].address
          /\ checks[k].at = "saves" => checks'[k].row = checks[k].row
    BY ZenonT(60), <1>2 DEF CloseNetworkDialog, PeersTypes, Asking, Saving, NoCheck
  <2> QED
    BY <1>2, <2>1 DEF CloseNetworkDialog, PeersTypes, ChecksVouched, AddressesVouched, NoCheck
<1>3. ASSUME NEW i \in Instances, NEW a \in Addresses, SaveManualPeer(i, a)
      PROVE PeersInv'
  <2>1. dialog \in PeerOrgs
    BY <1>3 DEF SaveManualPeer, PeersTypes
  <2>2. vouched \subseteq vouched' /\ <<i, a>> \in vouched'
    BY <1>3 DEF SaveManualPeer
  <2>3. /\ peers' \in [Instances -> PeerRow \cup {NoPeer}]
        /\ AddressesVouched'
    BY <1>3, <2>1, <2>2, RegisteredKeeps DEF SaveManualPeer, AddressesVouched
  <2> QED
    BY <1>3, <2>2, <2>3 DEF SaveManualPeer, PeersTypes, ChecksVouched
<1>4. ASSUME NEW i \in Instances, RemovePeer(i) PROVE PeersInv'
  <2>1. peers[i] \in PeerRow
    BY <1>4 DEF RemovePeer, Listed, PeersTypes, NoPeer
  <2>2. /\ [peers[i] EXCEPT !.enabled = FALSE] \in PeerRow
        /\ [peers[i] EXCEPT !.enabled = FALSE].address = peers[i].address
    BY <2>1 DEF PeerRow
  <2> QED
    BY <1>4, <2>1, <2>2, PeersAssumption
    DEF RemovePeer, PeersTypes, ChecksVouched, AddressesVouched, PeerRow, NoPeer
<1>5. ASSUME NEW k \in Checkers, NEW i \in Instances, NEW a \in Addresses,
             NEW goal \in Goals, dialog # NoOne, Check(k, i, a, goal),
             UNCHANGED <<peers, dialog, vouched>>, heard' \subseteq Announcements
      PROVE PeersInv'
  <2> DEFINE new == [at |-> "asks", instance |-> i, address |-> a, org |-> dialog,
                     goal |-> goal, shown |-> TRUE]
  <2>1. new \in Asking /\ new.at = "asks"
    BY <1>5 DEF PeersTypes, Asking
  <2>2. checks' = [checks EXCEPT ![k] = new]
    BY <1>5 DEF Check
  <2> HIDE DEF new
  <2> QED
    BY <1>5, <2>1, <2>2 DEF PeersTypes, ChecksVouched, AddressesVouched
<1>6. ASSUME NEW k \in Checkers, NEW i \in Instances, NEW a \in Addresses,
             Discovered(k, i, a) \/ AuthorizeDevice(k, i, a)
      PROVE PeersInv'
  <2>1. CASE Listed(i) /\ Discovered(k, i, a)
    BY <1>5, <2>1 DEF Discovered, Goals, Announcements
  <2>2. CASE ~Listed(i) /\ Discovered(k, i, a)
    BY <2>2 DEF Discovered, PeersTypes, ChecksVouched, AddressesVouched, Announcements
  <2>3. CASE AuthorizeDevice(k, i, a)
    BY <1>5, <2>3 DEF AuthorizeDevice, Goals, PeersTypes
  <2> QED
    BY <1>6, <2>1, <2>2, <2>3
<1>7. ASSUME NEW k \in Checkers, NEW i \in Instances, TestPeer(k, i) PROVE PeersInv'
  <2>1. peers[i].address \in Addresses
    BY <1>7, PeersAssumption DEF TestPeer, Listed, PeersTypes, PeerRow, NoPeer
  <2> QED
    BY <1>5, <1>7, <2>1 DEF TestPeer, Goals, PeersTypes
<1>8. ASSUME NEW k \in Checkers, AskPeer(k) PROVE PeersInv'
  <2>1. checks[k] \in Asking
    BY <1>8 DEF AskPeer, PeersTypes, Saving, NoCheck
  <2>2. vouched \subseteq vouched'
    BY <1>8 DEF AskPeer
  <2>3. CASE Believed(checks[k].instance, checks[k].address)
    <3> DEFINE new == [checks[k] EXCEPT !.at = "reads"]
    <3>1. /\ new \in Asking /\ new.at = "reads"
          /\ new.instance = checks[k].instance /\ new.address = checks[k].address
      BY <2>1 DEF Asking
    <3>2. /\ checks' = [checks EXCEPT ![k] = new]
          /\ <<checks[k].instance, checks[k].address>> \in vouched'
      BY <1>8, <2>3 DEF AskPeer, Believed
    <3> HIDE DEF new
    <3> QED
      BY <1>8, <2>2, <3>1, <3>2 DEF AskPeer, PeersTypes, ChecksVouched, AddressesVouched
  <2>4. CASE ~Believed(checks[k].instance, checks[k].address)
    BY <1>8, <2>4 DEF AskPeer, PeersTypes, ChecksVouched, AddressesVouched, NoCheck
  <2> QED
    BY <2>3, <2>4
<1>9. ASSUME NEW k \in Checkers, ReadPeer(k) PROVE PeersInv'
  <2>1. checks[k] \in Asking /\ checks[k].at = "reads"
    BY <1>9 DEF ReadPeer, PeersTypes, Saving, NoCheck
  <2> DEFINE row == peers[checks[k].instance]
             c == checks[k]
             saves == [at |-> "saves", instance |-> c.instance, address |-> c.address,
                       org |-> c.org, goal |-> c.goal, shown |-> c.shown,
                       row |-> [row EXCEPT !.address = c.address]]
             gives == [c EXCEPT !.at = "answered"]
  <2>2. <<c.instance, c.address>> \in vouched
    BY <2>1 DEF ChecksVouched
  <2>3. CASE row.org = c.org
    <3>1. row \in PeerRow
      BY <2>1, <2>3, PeersAssumption DEF PeersTypes, Asking, NoPeer
    <3>2. /\ saves.row \in PeerRow /\ saves.row.address = c.address
      BY <2>1, <3>1 DEF PeerRow, Asking
    <3>3. /\ saves \in Saving
          /\ saves.instance = c.instance /\ saves.address = c.address
      BY <2>1, <3>2 DEF Saving, Asking
    <3>4. checks' = [checks EXCEPT ![k] = saves]
      BY <1>9, <2>3 DEF ReadPeer, PeersTypes
    <3> HIDE DEF saves, row
    <3> QED
      BY <1>9, <2>2, <3>2, <3>3, <3>4
      DEF ReadPeer, PeersTypes, ChecksVouched, AddressesVouched
  <2>4. CASE row.org # c.org
    <3>1. /\ gives \in Asking /\ gives.at = "answered"
          /\ gives.instance = c.instance /\ gives.address = c.address
      BY <2>1 DEF Asking
    <3>2. checks' = [checks EXCEPT ![k] = gives]
      BY <1>9, <2>4 DEF ReadPeer, PeersTypes
    <3> HIDE DEF gives, row
    <3> QED
      BY <1>9, <2>2, <3>1, <3>2
      DEF ReadPeer, PeersTypes, ChecksVouched, AddressesVouched
  <2> QED
    BY <2>3, <2>4
<1>10. ASSUME NEW k \in Checkers, SavePeer(k) PROVE PeersInv'
  <2> DEFINE c == checks[k]
             gives == [c EXCEPT !.at = "answered"]
  <2>1. c \in Saving /\ c.at = "saves"
    BY <1>10 DEF SavePeer, PeersTypes, Asking, NoCheck
  <2>2. /\ c.row \in PeerRow /\ c.row.address = c.address
        /\ <<c.instance, c.address>> \in vouched
    BY <2>1 DEF Saving, ChecksVouched
  <2>3. /\ gives \in Saving /\ gives.at = "answered"
        /\ gives.instance = c.instance /\ gives.address = c.address
    BY <2>1 DEF Saving
  <2>4. /\ peers' = [peers EXCEPT ![c.instance] = c.row]
        /\ checks' = [checks EXCEPT ![k] = gives]
    BY <1>10 DEF SavePeer
  <2> HIDE DEF gives
  <2> QED
    BY <1>10, <2>2, <2>3, <2>4
    DEF SavePeer, PeersTypes, ChecksVouched, AddressesVouched
<1>11. ASSUME NEW k \in Checkers, ConnectionSucceeded(k) PROVE PeersInv'
  <2> DEFINE c == checks[k]
  <2>1. /\ c.instance \in Instances /\ c.address \in Addresses /\ c.org \in PeerOrgs
        /\ <<c.instance, c.address>> \in vouched
    BY <1>11 DEF ConnectionSucceeded, PeersTypes, ChecksVouched, Asking, Saving, NoCheck
  <2>2. /\ peers' \in [Instances -> PeerRow \cup {NoPeer}]
        /\ AddressesVouched'
    BY <1>11, <2>1, RegisteredKeeps DEF ConnectionSucceeded, PeersTypes, AddressesVouched
  <2> QED
    BY <1>11, <2>2 DEF ConnectionSucceeded, PeersTypes, ChecksVouched, NoCheck
<1>12. ASSUME NEW a \in Addresses, NEW i \in Instances \cup {NoOne}, NetworkChanges(a, i)
       PROVE PeersInv'
  BY <1>12 DEF NetworkChanges, PeersTypes, ChecksVouched, AddressesVouched
<1> QED
  BY <1>1, <1>2, <1>3, <1>4, <1>6, <1>7, <1>8, <1>9, <1>10, <1>11, <1>12 DEF PeersNext
-----------------------------------------------------------------------------
(* PasswordRecovery: the failures counted are those since the account was   *)
(* free of them, a code stored is of the last batch and of no use so far,   *)
(* and no session that is open began before the last recovery.              *)

RecoveryTypes ==
  /\ password \in Nat /\ batch \in 0 .. MaxBatches /\ expired \in Nat
  /\ codes \subseteq Codes
  /\ failures \in 0 .. MaxFailures - 1 /\ tries \in Nat
  /\ session \in Nat /\ open \subseteq Nat /\ begun \in Nat /\ recovered \in Nat
  /\ redeemed \in [Codes -> Nat]

\* A batch to come has given no password.
BatchesToCome == \A c \in Codes : c[1] > batch => redeemed[c] = 0

CounterTrue ==
  \/ locked = TRUE /\ tries = MaxFailures /\ failures = 0
  \/ locked = FALSE /\ tries = failures

SessionsBegun ==
  /\ session <= begun /\ recovered <= begun
  /\ \A s \in open : s <= begun

RecoveryInv ==
  /\ RecoveryTypes
  /\ CodesWorkOnce /\ BatchesToCome
  /\ CounterTrue
  /\ OldSessionsEnd /\ SessionsBegun

\* The counter of failures: it grows by one, or starts again at its bound.
LEMMA ModuloSuccessor ==
  ASSUME NEW n \in Nat \ {0}, NEW k \in 0 .. n - 1
  PROVE  (k + 1) % n = IF k + 1 = n THEN 0 ELSE k + 1
  OBVIOUS

\* The bounds of an instance, as numbers.
LEMMA RecoveryBounds ==
  /\ CodeCount \in Nat \ {0} /\ MaxFailures \in Nat \ {0} /\ MaxBatches \in Nat \ {0}
  /\ MaxPasswords \in Nat \ {0} /\ MaxSessions \in Nat \ {0}
  BY RecoveryAssumption

\* The counter of failures bounds the guesses.
LEMMA GuessesCounted == RecoveryInv => GuessesAreFew
  BY RecoveryBounds DEF RecoveryInv, RecoveryTypes, CounterTrue, GuessesAreFew

\* No code has been made and no session begun on a new account.
LEMMA RecoveryBegins == RecoveryInit => RecoveryInv
  BY RecoveryBounds
  DEF RecoveryInit, RecoveryInv, RecoveryTypes, CodesWorkOnce, BatchesToCome,
      CounterTrue, OldSessionsEnd, SessionsBegun, Codes

\* A failure, of the password or of a code.
LEMMA FailureCounted ==
  ASSUME RecoveryInv, ~locked, Fail
  PROVE  /\ failures' \in 0 .. MaxFailures - 1 /\ tries' \in Nat
         /\ CounterTrue'
<1>1. failures' = IF failures + 1 = MaxFailures THEN 0 ELSE failures + 1
  BY ModuloSuccessor, RecoveryBounds DEF RecoveryInv, RecoveryTypes, Fail
<1>2. failures \in 0 .. MaxFailures - 1 /\ tries = failures
  BY DEF RecoveryInv, RecoveryTypes, CounterTrue
<1>3. CASE failures + 1 = MaxFailures
  <2>1. failures' = 0 /\ locked' = TRUE /\ tries' = MaxFailures
    BY <1>1, <1>2, <1>3 DEF Fail
  <2> QED
    BY <2>1, RecoveryBounds DEF CounterTrue
<1>4. CASE failures + 1 # MaxFailures
  <2>1. failures' = failures + 1 /\ locked' = FALSE /\ tries' = failures'
    BY <1>1, <1>2, <1>4 DEF Fail
  <2> QED
    BY <2>1, <1>2, <1>4, RecoveryBounds DEF CounterTrue
<1> QED
  BY <1>3, <1>4

\* The codes a batch leaves, cut short or not.
LEMMA BatchStored ==
  ASSUME RecoveryInv, NEW in \in Nat, GenerateCodes(in), UNCHANGED redeemed
  PROVE  /\ batch' \in 0 .. MaxBatches /\ codes' \subseteq Codes
         /\ session' \in {in, 0}
         /\ CodesWorkOnce' /\ BatchesToCome'
<1>1. PICK printed \in 0 .. CodeCount :
        /\ codes' = {batch'} \X (1 .. printed)
        /\ session' \in IF printed = CodeCount THEN {in} ELSE {in, 0}
  BY DEF GenerateCodes
<1>2. /\ batch' \in 1 .. MaxBatches /\ batch' = batch + 1
  BY RecoveryBounds DEF GenerateCodes, RecoveryInv, RecoveryTypes
<1>3. codes' \subseteq Codes
  BY <1>1, <1>2, RecoveryBounds DEF Codes
<1>4. \A c \in codes' : c[1] = batch' /\ redeemed'[c] = 0
  BY <1>1, <1>2, <1>3 DEF RecoveryInv, RecoveryTypes, BatchesToCome, Codes
<1>5. \A c \in Codes : c[1] \in Nat
  BY DEF Codes
<1> QED
  BY <1>1, <1>2, <1>3, <1>4, <1>5
  DEF RecoveryInv, RecoveryTypes, CodesWorkOnce, BatchesToCome

\* Every way in, every batch of codes and every recovery keeps the invariant.
LEMMA RecoveryStep == RecoveryInv /\ RecoveryNext => RecoveryInv'
<1> SUFFICES ASSUME RecoveryInv, RecoveryNext PROVE RecoveryInv'
  OBVIOUS
<1> USE RecoveryBounds
<1>1. ASSUME NEW p \in 0 .. MaxPasswords, SignIn(p) PROVE RecoveryInv'
  <2>1. CASE p # password
    <3>1. Fail /\ ~locked /\ UNCHANGED <<session, open, begun, batch, codes>>
      BY <1>1, <2>1 DEF SignIn
    <3> QED
      BY <1>1, <3>1, FailureCounted
      DEF SignIn, RecoveryInv, RecoveryTypes, CodesWorkOnce, BatchesToCome,
          OldSessionsEnd, SessionsBegun
  <2>2. CASE p = password
    <3>1. /\ begun' = begun + 1 /\ open' = open \cup {begun'} /\ Forgive
          /\ UNCHANGED <<password, expired, redeemed, recovered>>
      BY <1>1, <2>2 DEF SignIn
    <3>2. /\ batch' \in 0 .. MaxBatches /\ codes' \subseteq Codes
          /\ session' \in {begun', 0}
          /\ CodesWorkOnce' /\ BatchesToCome'
      <4>1. CASE Active # {}
        BY <1>1, <2>2, <4>1
        DEF SignIn, RecoveryInv, RecoveryTypes, CodesWorkOnce, BatchesToCome
      <4>2. CASE Active = {}
        <5>1. GenerateCodes(begun') /\ begun' \in Nat
          BY <1>1, <2>2, <3>1, <4>2 DEF SignIn, RecoveryInv, RecoveryTypes
        <5> QED
          BY <3>1, <5>1, BatchStored
      <4> QED
        BY <4>1, <4>2
    <3>3. CounterTrue' /\ failures' \in 0 .. MaxFailures - 1 /\ tries' \in Nat
      BY <3>1, RecoveryBounds DEF Forgive, CounterTrue
    <3>4. OldSessionsEnd' /\ SessionsBegun'
      BY <3>1, <3>2 DEF RecoveryInv, RecoveryTypes, OldSessionsEnd, SessionsBegun
    <3> QED
      BY <3>1, <3>2, <3>3, <3>4 DEF RecoveryInv, RecoveryTypes
  <2> QED
    BY <2>1, <2>2
<1>2. ASSUME NEW c \in Codes \cup {<<0, 0>>}, ResetPassword(c) PROVE RecoveryInv'
  <2>1. CASE c \notin Active
    <3>1. Fail /\ ~locked /\ UNCHANGED <<password, codes, open, redeemed, recovered>>
      BY <1>2, <2>1 DEF ResetPassword
    <3> QED
      BY <1>2, <3>1, FailureCounted
      DEF ResetPassword, RecoveryInv, RecoveryTypes, CodesWorkOnce, BatchesToCome,
          OldSessionsEnd, SessionsBegun
  <2>2. CASE c \in Active
    <3>1. /\ codes' = codes \ {c} /\ Forgive /\ open' = {}
          /\ redeemed' = [redeemed EXCEPT ![c] = @ + 1] /\ recovered' = begun
          /\ password' = password + 1 /\ session = 0
          /\ UNCHANGED <<batch, expired, session, begun>>
      BY <1>2, <2>2 DEF ResetPassword, Out
    <3>2. c \in Codes /\ redeemed[c] = 0 /\ c[1] = batch
      BY <2>2 DEF Active, RecoveryInv, RecoveryTypes, CodesWorkOnce
    <3>3. CodesWorkOnce' /\ BatchesToCome' /\ redeemed' \in [Codes -> Nat]
      BY <3>1, <3>2 DEF RecoveryInv, RecoveryTypes, CodesWorkOnce, BatchesToCome
    <3>4. CounterTrue' /\ failures' \in 0 .. MaxFailures - 1 /\ tries' \in Nat
      BY <3>1, RecoveryBounds DEF Forgive, CounterTrue
    <3> QED
      BY <3>1, <3>3, <3>4
      DEF RecoveryInv, RecoveryTypes, OldSessionsEnd, SessionsBegun
  <2> QED
    BY <2>1, <2>2
<1>3. CASE SignOut \/ EndProgram
  <2>1. /\ session' = 0 /\ open' \subseteq open /\ ~Out
        /\ UNCHANGED <<password, batch, codes, expired, failures, locked, begun,
                       tries, redeemed, recovered>>
    BY <1>3 DEF SignOut, EndProgram
  <2>2. RecoveryTypes' /\ OldSessionsEnd' /\ SessionsBegun'
    BY <2>1 DEF RecoveryInv, RecoveryTypes, OldSessionsEnd, SessionsBegun
  <2>3. CodesWorkOnce' /\ BatchesToCome' /\ CounterTrue'
    BY <2>1 DEF RecoveryInv, CodesWorkOnce, BatchesToCome, CounterTrue
  <2> QED
    BY <2>2, <2>3 DEF RecoveryInv
<1>6. CASE ChangePassword
  <2>1. /\ password' = password + 1
        /\ UNCHANGED <<batch, codes, expired, failures, locked, session, open, begun,
                       tries, redeemed, recovered>>
    BY <1>6 DEF ChangePassword
  <2>2. RecoveryTypes' /\ OldSessionsEnd' /\ SessionsBegun'
    BY <2>1 DEF RecoveryInv, RecoveryTypes, OldSessionsEnd, SessionsBegun
  <2>3. CodesWorkOnce' /\ BatchesToCome' /\ CounterTrue'
    BY <2>1 DEF RecoveryInv, CodesWorkOnce, BatchesToCome, CounterTrue
  <2> QED
    BY <2>2, <2>3 DEF RecoveryInv
<1>4. CASE RegenerateCodes
  <2>1. GenerateCodes(session) /\ session \in Nat /\ UNCHANGED redeemed
    BY <1>4 DEF RegenerateCodes, RecoveryInv, RecoveryTypes
  <2>2. /\ batch' \in 0 .. MaxBatches /\ codes' \subseteq Codes
        /\ session' \in {session, 0} /\ CodesWorkOnce' /\ BatchesToCome'
    BY <2>1, BatchStored
  <2> QED
    BY <1>4, <2>2
    DEF RegenerateCodes, RecoveryInv, RecoveryTypes, CounterTrue, OldSessionsEnd,
        SessionsBegun
<1>5. CASE Unlock
  <2>1. /\ locked = TRUE /\ locked' = FALSE /\ tries' = 0
        /\ UNCHANGED <<password, batch, codes, expired, failures, session, open,
                       begun, redeemed, recovered>>
    BY <1>5 DEF Unlock, RecoveryInv, CounterTrue
  <2>2. RecoveryTypes' /\ OldSessionsEnd' /\ SessionsBegun'
    BY <2>1 DEF RecoveryInv, RecoveryTypes, OldSessionsEnd, SessionsBegun
  <2>3. CodesWorkOnce' /\ BatchesToCome' /\ CounterTrue'
    BY <2>1 DEF RecoveryInv, CodesWorkOnce, BatchesToCome, CounterTrue
  <2> QED
    BY <2>2, <2>3 DEF RecoveryInv
<1>7. CASE Expire
  <2>1. /\ expired' = expired + 1
        /\ UNCHANGED <<password, batch, codes, failures, locked, session, open,
                       begun, tries, redeemed, recovered>>
    BY <1>7 DEF Expire
  <2>2. RecoveryTypes' /\ OldSessionsEnd' /\ SessionsBegun'
    BY <2>1 DEF RecoveryInv, RecoveryTypes, OldSessionsEnd, SessionsBegun
  <2>3. CodesWorkOnce' /\ BatchesToCome' /\ CounterTrue'
    BY <2>1 DEF RecoveryInv, CodesWorkOnce, BatchesToCome, CounterTrue
  <2> QED
    BY <2>2, <2>3 DEF RecoveryInv
<1> QED
  BY <1>1, <1>2, <1>3, <1>4, <1>5, <1>6, <1>7 DEF RecoveryNext
-----------------------------------------------------------------------------
(* TransportTargets: a save knows the secret it replaces, a new secret is    *)
(* nobody's before the transaction, and a secret about to be dropped is      *)
(* needed by no job but late ones.                                           *)

Wants == [mode : Modes, endpoint : Endpoints \cup {"none"}, enabled : BOOLEAN]
TargetRow == [mode : Modes, endpoint : Endpoints \cup {"none"}, ref : Nat,
              status : {"ACTIVE", "RETIRED"}]
SettingsRow == [mode : Modes, endpoint : Endpoints \cup {"none"}, ref : Nat,
                target : Nat, enabled : BOOLEAN]
SaveRow == [at : {"writes", "actives", "jobs", "drops"}, want : Wants, old : Nat,
            new : Nat, ref : Nat]
JobRow == [status : {"none", "queued", "COMPLETED", "FAILED", "CANCELLED"},
           target : Nat, late : BOOLEAN]

TargetsTypes ==
  /\ settings \in SettingsRow
  /\ targets \in Seq(TargetRow)
  /\ issued \in Nat /\ vault \subseteq 1 .. issued /\ spilled \subseteq 1 .. issued
  /\ jobs \in [Files -> [upload : JobRow, delete : JobRow]]
  /\ reads \in [Files -> {None} \cup DOMAIN targets]
  /\ saving \in SaveRow \cup {Idle}

\* A job is a job of some destination.
JobsPlaced ==
  \A f \in Files, job \in {"upload", "delete"} :
    jobs[f][job].status # "none" => jobs[f][job].target \in DOMAIN targets

\* What a save carries, before its transaction and after it.
SaveSound ==
  saving # Idle =>
    /\ saving.at = "writes" =>
         /\ saving.old = settings.ref
         /\ saving.want.mode = "LOCAL" => saving.ref = None /\ saving.new = None
         /\ \/ saving.ref = None /\ saving.new = None
            \/ saving.ref = settings.ref /\ saving.new = None
            \/ /\ saving.ref = saving.new /\ saving.new = issued
               /\ saving.new \in vault /\ settings.ref < saving.new
               /\ \A i \in DOMAIN targets : targets[i].ref < saving.new
    /\ saving.at # "writes" =>
         /\ saving.old \notin {None, settings.ref}
         /\ saving.new # None => \E i \in DOMAIN targets : targets[i].ref = saving.new
    /\ saving.at \in {"jobs", "drops"} => ~ActiveTargetUses(saving.old)
    /\ saving.at = "drops" =>
         \A f \in Files, job \in {"upload", "delete"} :
           JobNeeds(f, job) /\ ~jobs[f][job].late =>
             targets[jobs[f][job].target].ref # saving.old

\* No number of a save to come is in use.
RefsIssued ==
  /\ settings.ref <= issued
  /\ \A i \in DOMAIN targets : targets[i].ref <= issued

TargetsInv ==
  TargetsTypes /\ JobsPlaced /\ SaveSound /\ RefsIssued /\ SecretsSound

\* At the beginning there is nothing to account for.
LEMMA TargetsBegin == TargetsInit => TargetsInv
  BY DEF TargetsInit, TargetsInv, TargetsTypes, JobsPlaced, SaveSound, RefsIssued,
         SecretsSound, OneDestination, SecretsKept, SecretsAccounted, SettingsRow, JobRow,
         JobNeeds, NoJob, Modes, Idle, None

\* Retiring a destination leaves its secret's name, and the others, alone.
LEMMA RetiredKeeps ==
  ASSUME TargetsTypes, NEW i \in {None} \cup DOMAIN targets
  PROVE  /\ Retired(i) \in Seq(TargetRow)
         /\ DOMAIN Retired(i) = DOMAIN targets /\ Len(Retired(i)) = Len(targets)
         /\ \A j \in DOMAIN targets :
              /\ Retired(i)[j].ref = targets[j].ref
              /\ Retired(i)[j].status = "ACTIVE" <=> (targets[j].status = "ACTIVE" /\ j # i)
<1>1. CASE i = None
  BY <1>1 DEF TargetsTypes, Retired, None
<1>2. CASE i # None
  <2> DEFINE row == [targets[i] EXCEPT !.status = "RETIRED"]
  <2>1. i \in DOMAIN targets /\ targets[i] \in TargetRow
    BY <1>2 DEF TargetsTypes
  <2>2. row \in TargetRow /\ row.ref = targets[i].ref /\ row.status = "RETIRED"
    BY <2>1 DEF TargetRow
  <2>3. Retired(i) = [targets EXCEPT ![i] = row]
    BY <1>2 DEF Retired
  <2> HIDE DEF row
  <2> QED
    BY <2>1, <2>2, <2>3 DEF TargetsTypes
<1> QED
  BY <1>1, <1>2

\* The secrets' names are numbers.
LEMMA RefsAreNumbers ==
  TargetsTypes => settings.ref \in Nat /\ \A i \in DOMAIN targets : targets[i].ref \in Nat
<1> SUFFICES ASSUME TargetsTypes
             PROVE  settings.ref \in Nat /\ \A i \in DOMAIN targets : targets[i].ref \in Nat
  OBVIOUS
<1>1. \A i \in DOMAIN targets : targets[i] \in TargetRow
  BY DEF TargetsTypes
<1> QED
  BY <1>1 DEF TargetsTypes, TargetRow, SettingsRow

\* The destination in use is one of the table's.
LEMMA CurrentTarget ==
  OneDestination /\ TargetsTypes => settings.target \in {None} \cup DOMAIN targets
  BY DEF OneDestination, TargetsTypes

\* The secrets' names among the jobs stay as they are while the table grows.
LEMMA JobsKeepTargets ==
  ASSUME TargetsInv, NEW T, DOMAIN targets \subseteq DOMAIN T,
         \A i \in DOMAIN targets : T[i].ref = targets[i].ref
  PROVE  \A f \in Files, job \in {"upload", "delete"} :
           JobNeeds(f, job) => T[jobs[f][job].target].ref = targets[jobs[f][job].target].ref
  BY DEF TargetsInv, JobsPlaced, JobNeeds

\* What the user may ask for.
LEMMA ChoicesAreWants == Choices \subseteq Wants
<1> SUFFICES ASSUME NEW want \in Choices PROVE want \in Wants
  OBVIOUS
<1>1. CASE want = [mode |-> "LOCAL", endpoint |-> "none", enabled |-> FALSE]
  BY <1>1 DEF Wants, Modes
<1>2. CASE want \in {[mode |-> m, endpoint |-> e, enabled |-> on] :
                       m \in Modes \ {"LOCAL"}, e \in Endpoints, on \in BOOLEAN}
  <2>1. PICK m \in Modes \ {"LOCAL"}, e \in Endpoints, on \in BOOLEAN :
          want = [mode |-> m, endpoint |-> e, enabled |-> on]
    BY <1>2
  <2> QED
    BY <2>1 DEF Wants
<1> QED
  BY <1>1, <1>2 DEF Choices

\* The secret of a save is stored before the settings are.
LEMMA StartSaveKeeps == TargetsInv /\ StartSave => TargetsInv'
<1> SUFFICES ASSUME TargetsInv, StartSave PROVE TargetsInv'
  OBVIOUS
<1> USE DEF TargetsInv
<1>1. PICK want \in Choices, secret \in {"keep", "replace", "remove"} :
        /\ want.mode = "LOCAL" => secret # "replace"
        /\ issued' = issued + 1
        /\ vault' = IF secret = "replace" THEN vault \cup {issued'} ELSE vault
        /\ saving' =
             [at |-> "writes", want |-> want, old |-> settings.ref,
              new |-> IF secret = "replace" THEN issued' ELSE None,
              ref |-> CASE secret = "replace" -> issued'
                        [] secret = "keep" /\ want.mode # "LOCAL" -> settings.ref
                        [] OTHER -> None]
  BY DEF StartSave
<1>2. /\ saving = Idle
      /\ UNCHANGED <<settings, targets, jobs, reads, spilled>>
  BY DEF StartSave
<1>3. want \in Wants
  BY <1>1, ChoicesAreWants
<1>4. /\ saving'.at = "writes" /\ saving'.want = want /\ saving'.old = settings.ref
      /\ saving'.new = IF secret = "replace" THEN issued' ELSE None
      /\ saving'.ref = CASE secret = "replace" -> issued'
                         [] secret = "keep" /\ want.mode # "LOCAL" -> settings.ref
                         [] OTHER -> None
  BY <1>1
<1>5. settings.ref \in Nat /\ saving'.new \in Nat /\ saving'.ref \in Nat /\ issued' \in Nat
  BY <1>1, <1>4 DEF TargetsTypes, SettingsRow, None
<1>6. saving' \in SaveRow
  BY <1>1, <1>3, <1>5 DEF SaveRow
<1>7. vault \subseteq vault' /\ vault' \subseteq 1 .. issued' /\ spilled' \subseteq 1 .. issued'
  BY <1>1, <1>2 DEF TargetsTypes
<1>8. TargetsTypes' /\ JobsPlaced'
  BY <1>1, <1>2, <1>5, <1>6, <1>7 DEF TargetsTypes, JobsPlaced
<1>9. SaveSound'
  <2>1. CASE secret = "replace"
    <3>1. settings'.ref < issued' /\ \A i \in DOMAIN targets' : targets'[i].ref < issued'
      BY <1>1, <1>2, RefsAreNumbers DEF RefsIssued, TargetsTypes
    <3> QED
      BY <1>1, <1>2, <1>4, <2>1, <3>1 DEF SaveSound
  <2>2. CASE secret # "replace"
    BY <1>1, <1>2, <1>4, <2>2 DEF SaveSound
  <2> QED
    BY <2>1, <2>2
<1>10. RefsIssued'
  BY <1>1, <1>2, RefsAreNumbers DEF RefsIssued, TargetsTypes
<1>11. OneDestination' /\ SecretsKept'
  BY <1>2, <1>7 DEF SecretsSound, OneDestination, SecretsKept, SameTarget, JobNeeds
<1>12. SecretsAccounted'
  <2>1. ASSUME NEW ref \in vault' \ spilled' PROVE ref \in vault \ spilled \/ saving'.new = ref
    BY <1>1, <1>2, <1>4, <2>1
  <2>2. saving' # Idle
    BY <1>4 DEF Idle
  <2> QED
    BY <1>2, <2>1, <2>2 DEF SecretsSound, SecretsAccounted, Idle
<1> QED
  BY <1>8, <1>9, <1>10, <1>11, <1>12 DEF SecretsSound

\* The transaction: the destination stays, or is retired, and perhaps another follows.
LEMMA WriteSettingsKeeps == TargetsInv /\ WriteSettings => TargetsInv'
<1> SUFFICES ASSUME TargetsInv, WriteSettings PROVE TargetsInv'
  OBVIOUS
<1> USE DEF TargetsInv
<1> DEFINE want == saving.want
           kept == SameTarget(settings.target, want, saving.ref)
           row == [mode |-> want.mode, endpoint |-> want.endpoint,
                   ref |-> saving.ref, status |-> "ACTIVE"]
           old == settings.target
<1>1. /\ saving.at = "writes" /\ saving \in SaveRow
      /\ UNCHANGED <<vault, issued, jobs, reads, spilled>>
  BY DEF WriteSettings, TargetsTypes, Idle
<1>2. /\ want \in Wants /\ saving.ref \in Nat /\ saving.old \in Nat /\ saving.new \in Nat
  BY <1>1 DEF SaveRow
<1>3. row \in TargetRow
  BY <1>2 DEF TargetRow, Wants
<1>4. old \in {None} \cup DOMAIN targets /\ old \in Nat
  BY CurrentTarget DEF SecretsSound, TargetsTypes, SettingsRow
<1>5. /\ targets' \in Seq(TargetRow) /\ DOMAIN targets \subseteq DOMAIN targets'
      /\ \A i \in DOMAIN targets : targets'[i].ref = targets[i].ref
      /\ \A i \in DOMAIN targets' \ DOMAIN targets : targets'[i].ref = saving.ref
      /\ settings' \in SettingsRow /\ settings'.ref = saving.ref
      /\ OneDestination'
  <2>1. CASE want.mode = "LOCAL"
    <3>1. /\ targets' = Retired(old)
          /\ settings' = [mode |-> want.mode, endpoint |-> want.endpoint,
                          ref |-> saving.ref, enabled |-> want.enabled, target |-> None]
      BY <2>1 DEF WriteSettings
    <3>2. /\ settings' \in SettingsRow /\ settings'.target = None
          /\ settings'.mode = "LOCAL" /\ settings'.ref = saving.ref
      BY <1>2, <2>1, <3>1 DEF SettingsRow, Wants, None
    <3>3. \A j \in DOMAIN targets' : targets'[j].status # "ACTIVE"
      BY <1>4, <3>1, RetiredKeeps DEF SecretsSound, OneDestination
    <3>4. OneDestination'
      BY <3>2, <3>3 DEF OneDestination
    <3> QED
      BY <1>4, <3>1, <3>2, <3>4, RetiredKeeps
  <2>2. CASE want.mode # "LOCAL" /\ kept
    <3>1. /\ targets' = targets
          /\ settings' = [mode |-> want.mode, endpoint |-> want.endpoint,
                          ref |-> saving.ref, enabled |-> want.enabled, target |-> old]
      BY <2>2 DEF WriteSettings
    <3>2. /\ settings' \in SettingsRow /\ settings'.target = old
          /\ settings'.mode = want.mode /\ settings'.ref = saving.ref
          /\ settings'.endpoint = want.endpoint
      BY <1>2, <1>4, <3>1 DEF SettingsRow, Wants
    <3>3. OneDestination'
      BY <2>2, <3>1, <3>2 DEF SecretsSound, OneDestination, SameTarget
    <3> QED
      BY <3>1, <3>2, <3>3 DEF TargetsTypes
  <2>3. CASE want.mode # "LOCAL" /\ ~kept
    <3> DEFINE before == Retired(old)
    <3>1. /\ targets' = Append(before, row)
          /\ settings' = [mode |-> want.mode, endpoint |-> want.endpoint,
                          ref |-> saving.ref, enabled |-> want.enabled,
                          target |-> Len(targets')]
      BY <2>3 DEF WriteSettings
    <3>2. /\ before \in Seq(TargetRow) /\ DOMAIN before = DOMAIN targets
          /\ \A j \in DOMAIN before : before[j].ref = targets[j].ref
          /\ \A j \in DOMAIN before : before[j].status # "ACTIVE"
      BY <1>4, RetiredKeeps DEF SecretsSound, OneDestination
    <3> HIDE DEF before, row
    <3>3. /\ targets' \in Seq(TargetRow) /\ Len(targets') = Len(before) + 1
          /\ DOMAIN targets' = DOMAIN before \cup {Len(targets')}
          /\ Len(targets') \notin DOMAIN before
          /\ \A j \in DOMAIN before : targets'[j] = before[j]
          /\ targets'[Len(targets')] = row
      BY <1>3, <3>1, <3>2
    <3>4. /\ row.mode = want.mode /\ row.endpoint = want.endpoint
          /\ row.ref = saving.ref /\ row.status = "ACTIVE"
      BY DEF row
    <3>5. /\ settings' \in SettingsRow /\ settings'.target = Len(targets')
          /\ settings'.mode = want.mode /\ settings'.ref = saving.ref
          /\ settings'.endpoint = want.endpoint
      BY <1>2, <3>1, <3>2, <3>3 DEF SettingsRow, Wants
    <3>6. Len(targets') # None
      BY <3>2, <3>3 DEF None
    <3>7. OneDestination'
      BY <2>3, <3>2, <3>3, <3>4, <3>5, <3>6 DEF OneDestination, SameTarget
    <3> QED
      BY <3>2, <3>3, <3>4, <3>5, <3>7
  <2> QED
    BY <2>1, <2>2, <2>3
<1>6. saving' = IF saving.old \in {None, saving.ref} THEN Idle
                ELSE [saving EXCEPT !.at = "actives"]
  BY DEF WriteSettings
<1>7. /\ saving' \in SaveRow \cup {Idle}
      /\ saving' # Idle => /\ saving'.at = "actives" /\ saving'.old = saving.old
                           /\ saving'.new = saving.new
                           /\ saving.old \notin {None, saving.ref}
  BY <1>1, <1>6 DEF SaveRow, Idle
<1>8. /\ saving # Idle
      /\ saving.want.mode = "LOCAL" => saving.ref = None /\ saving.new = None
      /\ \/ saving.ref = None /\ saving.new = None
         \/ saving.ref = settings.ref /\ saving.new = None
         \/ /\ saving.ref = saving.new /\ saving.new = issued
            /\ saving.new \in vault /\ settings.ref < saving.new
            /\ \A i \in DOMAIN targets : targets[i].ref < saving.new
  BY <1>1 DEF SaveSound, Idle
<1>9. saving.new # None => \E i \in DOMAIN targets' : targets'[i].ref = saving.new
  <2>1. saving.new # None => saving.ref = saving.new /\ saving.want.mode # "LOCAL"
    BY <1>8
  <2>2. settings'.mode = saving.want.mode
    BY DEF WriteSettings
  <2>3. settings'.mode # "LOCAL" =>
          /\ settings'.target \in DOMAIN targets'
          /\ targets'[settings'.target].ref = settings'.ref
    BY <1>5 DEF OneDestination, SameTarget
  <2> QED
    BY <1>5, <2>1, <2>2, <2>3
<1>10. TargetsTypes' /\ JobsPlaced'
  BY <1>1, <1>5, <1>7 DEF TargetsTypes, JobsPlaced, SecretsSound
<1>11. SaveSound'
  BY <1>5, <1>7, <1>9 DEF SaveSound
<1>12. RefsIssued'
  <2>1. saving.ref <= issued
    BY <1>8, <1>2 DEF RefsIssued, TargetsTypes, None
  <2> QED
    BY <1>1, <1>5, <2>1 DEF RefsIssued
<1>13. SecretsKept'
  <2>1. settings'.ref # None => settings'.ref \in vault'
    BY <1>1, <1>5, <1>8 DEF SecretsSound, SecretsKept
  <2>2. \A f \in Files, job \in {"upload", "delete"} :
          JobNeeds(f, job) =>
            targets'[jobs[f][job].target].ref = targets[jobs[f][job].target].ref
    BY <1>5, JobsKeepTargets
  <2>3. \A f \in Files, job \in {"upload", "delete"} : JobNeeds(f, job)' <=> JobNeeds(f, job)
    BY <1>1 DEF JobNeeds
  <2> QED
    BY <1>1, <2>1, <2>2, <2>3 DEF SecretsSound, SecretsKept
<1>14. SecretsAccounted'
  <2>1. \A ref \in vault' \ spilled' : \E i \in DOMAIN targets' : targets'[i].ref = ref
    <3>1. ASSUME NEW ref \in vault \ spilled
          PROVE  ref = saving.new \/ \E i \in DOMAIN targets : targets[i].ref = ref
      BY DEF SecretsSound, SecretsAccounted
    <3>2. ASSUME NEW ref \in vault PROVE ref # None
      BY DEF TargetsTypes, None
    <3> QED
      BY <1>1, <1>5, <1>9, <3>1, <3>2
  <2> QED
    BY <2>1 DEF SecretsAccounted
<1> QED
  BY <1>5, <1>10, <1>11, <1>12, <1>13, <1>14 DEF SecretsSound

\* Nothing but the step of the save changes, or a secret nobody uses goes.
LEMMA SaveEnds ==
  ASSUME TargetsInv, saving' = Idle, vault' \subseteq vault,
         spilled' \subseteq 1 .. issued, spilled \subseteq spilled',
         UNCHANGED <<settings, targets, issued, jobs>>,
         reads' \in [Files -> {None} \cup DOMAIN targets],
         settings.ref # None => settings.ref \in vault',
         \A f \in Files, job \in {"upload", "delete"} :
           JobNeeds(f, job) /\ ~jobs[f][job].late =>
             targets[jobs[f][job].target].ref \in vault' \cup {None},
         saving.at = "writes" => saving.new \notin (vault' \ spilled') \ {None}
  PROVE  TargetsInv'
<1> USE DEF TargetsInv
<1>1. TargetsTypes' /\ JobsPlaced' /\ SaveSound' /\ RefsIssued'
  BY DEF TargetsTypes, JobsPlaced, SaveSound, RefsIssued
<1>2. OneDestination' /\ SecretsKept'
  BY DEF SecretsSound, OneDestination, SecretsKept, SameTarget, JobNeeds
<1>3. ASSUME NEW ref \in vault' \ spilled'
      PROVE  \E i \in DOMAIN targets : targets[i].ref = ref
  <2>1. ref \in vault \ spilled /\ ref # None
    BY <1>3 DEF TargetsTypes, None
  <2>2. CASE saving # Idle /\ saving.new = ref
    BY <1>3, <2>1, <2>2 DEF SaveSound, SecretsSound
  <2> QED
    BY <2>1, <2>2 DEF SecretsSound, SecretsAccounted
<1> QED
  BY <1>1, <1>2, <1>3 DEF SecretsSound, SecretsAccounted

\* What follows the transaction, and its failures.
LEMMA SaveGoesOn ==
  TargetsInv /\ (FailSave \/ LookAtTargets \/ LookAtJobs \/ DropSecret \/ Die) => TargetsInv'
<1> SUFFICES ASSUME TargetsInv, FailSave \/ LookAtTargets \/ LookAtJobs \/ DropSecret \/ Die
             PROVE  TargetsInv'
  OBVIOUS
<1> USE DEF TargetsInv
<1>1. CASE FailSave
  <2>1. /\ saving.at = "writes" /\ saving \in SaveRow /\ saving # Idle
        /\ UNCHANGED <<settings, targets, issued, jobs, reads>>
    BY <1>1 DEF FailSave, TargetsTypes, Idle
  <2>2. /\ saving.new # None => saving.new = issued /\ saving.new \in 1 .. issued
        /\ saving.new # None =>
             settings.ref # saving.new /\ \A i \in DOMAIN targets : targets[i].ref # saving.new
    BY <2>1, RefsAreNumbers DEF SaveSound, TargetsTypes
  <2>3. CASE vault' = vault \ {saving.new} /\ spilled' = spilled
    <3>1. \A f \in Files, job \in {"upload", "delete"} :
            JobNeeds(f, job) => jobs[f][job].target \in DOMAIN targets
      BY DEF JobsPlaced, JobNeeds
    <3> QED
      BY <1>1, <2>1, <2>2, <2>3, <3>1, SaveEnds
      DEF FailSave, SecretsSound, SecretsKept, TargetsTypes, None
  <2>4. CASE vault' = vault /\ spilled' = spilled \cup ({saving.new} \ {None})
    BY <1>1, <2>1, <2>2, <2>4, SaveEnds
    DEF FailSave, SecretsSound, SecretsKept, TargetsTypes
  <2> QED
    BY <1>1, <2>3, <2>4 DEF FailSave
<1>2. CASE Die
  <2>1. /\ UNCHANGED <<settings, targets, vault, issued, jobs>> /\ saving' = Idle
        /\ reads' = [f \in Files |-> None]
        /\ spilled' = IF saving.at = "writes"
                      THEN spilled \cup ({saving.new} \ {None}) ELSE spilled
    BY <1>2 DEF Die
  <2>2. saving.at = "writes" => saving.new \in {None} \cup 1 .. issued
    BY DEF SaveSound, TargetsTypes, Idle, None
  <2> QED
    BY <2>1, <2>2, SaveEnds DEF SecretsSound, SecretsKept, TargetsTypes
<1>3. CASE LookAtTargets
  <2>1. CASE ActiveTargetUses(saving.old)
    BY <1>3, <2>1, SaveEnds DEF LookAtTargets, SecretsSound, SecretsKept, TargetsTypes
  <2>2. CASE ~ActiveTargetUses(saving.old)
    <3> DEFINE new == [saving EXCEPT !.at = "jobs"]
    <3>1. saving \in SaveRow /\ saving.at = "actives" /\ saving # Idle
      BY <1>3 DEF LookAtTargets, TargetsTypes, Idle
    <3>2. /\ new \in SaveRow /\ new.at = "jobs" /\ new.old = saving.old
          /\ new.new = saving.new
      BY <3>1 DEF SaveRow
    <3>3. /\ saving' = new
          /\ UNCHANGED <<settings, targets, vault, issued, jobs, reads, spilled>>
      BY <1>3, <2>2 DEF LookAtTargets
    <3> HIDE DEF new
    <3> QED
      BY <2>2, <3>1, <3>2, <3>3
      DEF TargetsTypes, JobsPlaced, SaveSound, RefsIssued, SecretsSound, OneDestination,
          SecretsKept, SecretsAccounted, SameTarget, JobNeeds, ActiveTargetUses, Idle
  <2> QED
    BY <2>1, <2>2
<1>4. CASE LookAtJobs
  <2>1. CASE JobUses(saving.old)
    BY <1>4, <2>1, SaveEnds DEF LookAtJobs, SecretsSound, SecretsKept, TargetsTypes
  <2>2. CASE ~JobUses(saving.old)
    <3> DEFINE new == [saving EXCEPT !.at = "drops"]
    <3>1. saving \in SaveRow /\ saving.at = "jobs" /\ saving # Idle
      BY <1>4 DEF LookAtJobs, TargetsTypes, Idle
    <3>2. /\ new \in SaveRow /\ new.at = "drops" /\ new.old = saving.old
          /\ new.new = saving.new
      BY <3>1 DEF SaveRow
    <3>3. /\ saving' = new
          /\ UNCHANGED <<settings, targets, vault, issued, jobs, reads, spilled>>
      BY <1>4, <2>2 DEF LookAtJobs
    <3>4. \A f \in Files, job \in {"upload", "delete"} :
            JobNeeds(f, job) => targets[jobs[f][job].target].ref # saving.old
      BY <2>2 DEF JobUses, JobsPlaced, JobNeeds, TargetsTypes, None
    <3> HIDE DEF new
    <3> QED
      BY <3>1, <3>2, <3>3, <3>4
      DEF TargetsTypes, JobsPlaced, SaveSound, RefsIssued, SecretsSound, OneDestination,
          SecretsKept, SecretsAccounted, SameTarget, JobNeeds, ActiveTargetUses, Idle
  <2> QED
    BY <2>1, <2>2
<1>5. CASE DropSecret
  <2>1. /\ saving.at = "drops" /\ saving # Idle /\ saving' = Idle
        /\ vault' \in {vault, vault \ {saving.old}}
        /\ UNCHANGED <<settings, targets, issued, jobs, reads, spilled>>
    BY <1>5 DEF DropSecret, Idle
  <2>2. /\ saving.old # settings.ref
        /\ \A f \in Files, job \in {"upload", "delete"} :
             JobNeeds(f, job) /\ ~jobs[f][job].late =>
               targets[jobs[f][job].target].ref # saving.old
    BY <2>1 DEF SaveSound
  <2> QED
    BY <2>1, <2>2, SaveEnds DEF SecretsSound, SecretsKept, TargetsTypes
<1> QED
  BY <1>1, <1>2, <1>3, <1>4, <1>5

\* A job in need of a secret needed it already, or begins at the destination in use.
LEMMA JobsMove ==
  ASSUME TargetsInv, UNCHANGED <<settings, targets, vault, issued, saving, spilled>>,
         jobs' \in [Files -> [upload : JobRow, delete : JobRow]],
         reads' \in [Files -> {None} \cup DOMAIN targets], JobsPlaced',
         \A f \in Files, job \in {"upload", "delete"} :
           JobNeeds(f, job)' /\ ~jobs'[f][job].late =>
             \/ \E before \in {"upload", "delete"} :
                  /\ JobNeeds(f, before) /\ ~jobs[f][before].late
                  /\ jobs[f][before].target = jobs'[f][job].target
             \/ /\ jobs'[f][job].target \in DOMAIN targets
                /\ targets[jobs'[f][job].target].status = "ACTIVE"
  PROVE  TargetsInv'
<1> USE DEF TargetsInv
<1>1. TargetsTypes' /\ RefsIssued' /\ OneDestination' /\ SecretsAccounted'
  BY DEF TargetsTypes, RefsIssued, SecretsSound, OneDestination, SecretsAccounted, SameTarget
<1>2. \A i \in DOMAIN targets : targets[i].status = "ACTIVE" => targets[i].ref = settings.ref
  BY DEF SecretsSound, OneDestination, SameTarget
<1>3. SecretsKept'
  BY <1>2 DEF SecretsSound, SecretsKept
<1>4. SaveSound'
  <2>1. saving.at = "drops" /\ saving # Idle =>
          \A f \in Files, job \in {"upload", "delete"} :
            JobNeeds(f, job)' /\ ~jobs'[f][job].late =>
              targets[jobs'[f][job].target].ref # saving.old
    BY <1>2 DEF SaveSound
  <2> QED
    BY <2>1 DEF SaveSound, ActiveTargetUses
<1> QED
  BY <1>1, <1>3, <1>4 DEF SecretsSound

\* What the queue does with the targets and their secrets keeps the invariant.
LEMMA JobsKeep ==
  ASSUME TargetsInv, NEW f \in Files,
         ReadTarget(f) \/ StoreUpload(f) \/ DeleteFile(f)
           \/ \E job \in {"upload", "delete"} : RunJob(f, job)
  PROVE  TargetsInv'
<1> USE DEF TargetsInv
<1>0. jobs[f].upload \in JobRow /\ jobs[f].delete \in JobRow
  BY DEF TargetsTypes
<1>1. CASE ReadTarget(f)
  <2>1. /\ UNCHANGED <<settings, targets, vault, issued, saving, spilled, jobs>>
        /\ reads' = [reads EXCEPT ![f] = settings.target]
    BY <1>1 DEF ReadTarget
  <2>2. settings.target \in {None} \cup DOMAIN targets
    BY CurrentTarget DEF SecretsSound
  <2> QED
    BY <2>1, <2>2, JobsMove DEF TargetsTypes, JobsPlaced, JobNeeds
<1>2. CASE StoreUpload(f)
  <2> DEFINE new == [status |-> "queued", target |-> reads[f],
                     late |-> targets[reads[f]].status = "RETIRED"]
  <2>1. /\ UNCHANGED <<settings, targets, vault, issued, saving, spilled>>
        /\ reads' = [reads EXCEPT ![f] = None]
        /\ jobs' = [jobs EXCEPT ![f].upload = new]
        /\ reads[f] \in DOMAIN targets
    BY <1>2 DEF StoreUpload, TargetsTypes
  <2>2. targets[reads[f]] \in TargetRow /\ reads[f] \in Nat
    BY <2>1 DEF TargetsTypes
  <2>3. /\ new \in JobRow /\ new.status = "queued" /\ new.target = reads[f]
        /\ ~new.late => targets[reads[f]].status = "ACTIVE"
    BY <2>2 DEF JobRow, TargetRow
  <2> HIDE DEF new
  <2>4. /\ jobs'[f].upload = new /\ jobs'[f].delete = jobs[f].delete
        /\ \A g \in Files \ {f} : jobs'[g] = jobs[g]
        /\ jobs' \in [Files -> [upload : JobRow, delete : JobRow]]
        /\ reads' \in [Files -> {None} \cup DOMAIN targets]
    BY <2>1, <2>3 DEF TargetsTypes
  <2>5. JobsPlaced'
    BY <2>1, <2>3, <2>4 DEF JobsPlaced
  <2>6. \A g \in Files, job \in {"upload", "delete"} :
          JobNeeds(g, job)' /\ ~jobs'[g][job].late =>
            \/ JobNeeds(g, job) /\ jobs'[g][job] = jobs[g][job]
            \/ g = f /\ job = "upload"
    BY <2>3, <2>4 DEF JobNeeds
  <2> QED
    BY <2>1, <2>3, <2>4, <2>5, <2>6, JobsMove
<1>3. CASE DeleteFile(f)
  <2> DEFINE up == jobs[f].upload
  <2>1. /\ UNCHANGED <<settings, targets, vault, issued, saving, spilled, reads>>
        /\ up.status \in {"queued", "COMPLETED"} /\ jobs[f].delete = NoJob
        /\ jobs' = IF up.status = "COMPLETED"
                   THEN [jobs EXCEPT ![f].delete = [up EXCEPT !.status = "queued"]]
                   ELSE [jobs EXCEPT ![f].upload.status = "CANCELLED"]
    BY <1>3 DEF DeleteFile
  <2>2. CASE up.status = "COMPLETED"
    <3> DEFINE new == [up EXCEPT !.status = "queued"]
    <3>1. /\ new \in JobRow /\ new.status = "queued" /\ new.target = up.target
          /\ new.late = up.late
      BY <1>0 DEF JobRow
    <3>2. jobs' = [jobs EXCEPT ![f].delete = new]
      BY <2>1, <2>2
    <3> HIDE DEF new
    <3>3. /\ jobs'[f].delete = new /\ jobs'[f].upload = up
          /\ \A g \in Files \ {f} : jobs'[g] = jobs[g]
          /\ jobs' \in [Files -> [upload : JobRow, delete : JobRow]]
      BY <3>1, <3>2 DEF TargetsTypes
    <3>4. JobNeeds(f, "upload") /\ up.target \in DOMAIN targets
      BY <2>1, <2>2 DEF JobNeeds, NoJob, JobsPlaced
    <3>5. JobsPlaced'
      BY <2>1, <3>1, <3>3, <3>4 DEF JobsPlaced
    <3>6. \A g \in Files, job \in {"upload", "delete"} :
            JobNeeds(g, job)' => \/ JobNeeds(g, job) /\ jobs'[g][job] = jobs[g][job]
                                \/ g = f
      BY <3>3 DEF JobNeeds
    <3>7. \A job \in {"upload", "delete"} :
            jobs'[f][job].target = up.target /\ jobs'[f][job].late = up.late
      BY <3>1, <3>3
    <3> QED
      BY ZenonT(60), <2>1, <3>3, <3>4, <3>5, <3>6, <3>7, JobsMove DEF TargetsTypes
  <2>3. CASE up.status # "COMPLETED"
    <3> DEFINE new == [up EXCEPT !.status = "CANCELLED"]
    <3>1. /\ new \in JobRow /\ new.status = "CANCELLED" /\ new.target = up.target
      BY <1>0 DEF JobRow
    <3>2. jobs' = [jobs EXCEPT ![f].upload = new]
      BY <2>1, <2>3, <1>0 DEF TargetsTypes
    <3> HIDE DEF new
    <3>3. /\ jobs'[f].delete = NoJob /\ jobs'[f].upload = new
          /\ \A g \in Files \ {f} : jobs'[g] = jobs[g]
          /\ jobs' \in [Files -> [upload : JobRow, delete : JobRow]]
      BY ZenonT(60), <2>1, <3>1, <3>2 DEF TargetsTypes
    <3>4. JobsPlaced'
      BY <2>1, <3>1, <3>3 DEF JobsPlaced, NoJob
    <3>5. \A g \in Files, job \in {"upload", "delete"} :
            JobNeeds(g, job)' => JobNeeds(g, job) /\ jobs'[g][job] = jobs[g][job]
      BY <3>1, <3>3 DEF JobNeeds, NoJob
    <3> QED
      BY ZenonT(60), <2>1, <3>3, <3>4, <3>5, JobsMove DEF TargetsTypes
  <2> QED
    BY <2>2, <2>3
<1>4. ASSUME NEW job \in {"upload", "delete"}, RunJob(f, job) PROVE TargetsInv'
  <2>1. /\ UNCHANGED <<settings, targets, vault, issued, saving, spilled, reads>>
        /\ jobs[f][job].status \in {"queued", "FAILED"}
        /\ \E end \in {"queued", "COMPLETED", "FAILED"} :
             jobs' = [jobs EXCEPT ![f][job].status = end]
    BY <1>4 DEF RunJob
  <2>2. PICK end \in {"queued", "COMPLETED", "FAILED"} :
          jobs' = [jobs EXCEPT ![f][job].status = end]
    BY <2>1
  <2> DEFINE new == [jobs[f][job] EXCEPT !.status = end]
  <2>3. /\ new \in JobRow /\ new.status = end /\ new.target = jobs[f][job].target
        /\ new.late = jobs[f][job].late
    BY <1>0 DEF JobRow
  <2>4. jobs' = [jobs EXCEPT ![f][job] = new]
    BY <2>2, <1>0 DEF TargetsTypes
  <2> HIDE DEF new
  <2>5. /\ jobs'[f][job] = new
        /\ \A other \in {"upload", "delete"} \ {job} : jobs'[f][other] = jobs[f][other]
        /\ \A g \in Files \ {f} : jobs'[g] = jobs[g]
        /\ jobs' \in [Files -> [upload : JobRow, delete : JobRow]]
    BY <2>3, <2>4 DEF TargetsTypes
  <2>6. JobNeeds(f, job)
    BY <2>1 DEF JobNeeds
  <2>7. JobsPlaced'
    BY <2>1, <2>3, <2>5 DEF JobsPlaced
  <2>8. ASSUME NEW other \in {"upload", "delete"} \ {job}, JobNeeds(f, other)'
        PROVE  JobNeeds(f, other)
    BY <2>1, <2>3, <2>5, <2>8 DEF JobNeeds
  <2>9. \A g \in Files \ {f}, any \in {"upload", "delete"} :
          JobNeeds(g, any)' => JobNeeds(g, any) /\ jobs'[g][any] = jobs[g][any]
    BY <2>5 DEF JobNeeds
  <2> QED
    BY <2>1, <2>3, <2>5, <2>6, <2>7, <2>8, <2>9, JobsMove DEF TargetsTypes
<1> QED
  BY <1>1, <1>2, <1>3, <1>4

\* Every step of a save, of its compensation and of the jobs keeps the invariant.
LEMMA TargetsStep == TargetsInv /\ TargetsNext => TargetsInv'
  BY StartSaveKeeps, WriteSettingsKeeps, SaveGoesOn, JobsKeep DEF TargetsNext
-----------------------------------------------------------------------------
(* OrganizationIdentity: whatever is on its way to an installation, in a     *)
(* thread or in an open dialog, was written by another one.                  *)

Identities == [org : Sites, authority : Sites \cup {NoSite}, revision : Nat, content : Nat]
SourceRow == [site : Sites, org : Sites]
CopyRow == [at : {"compares", "writes"}, package : Identities]
ProposalRow == [site : Sites, package : Identities]

IdentityTypes ==
  /\ identity \in [Sites -> Identities] /\ edits \in Nat /\ authored \subseteq Identities
  /\ source \in [Sites -> SourceRow \cup {NoSource}]
  /\ copying \in [Sites -> CopyRow \cup {Quiet}]
  /\ proposed \in [Sites -> ProposalRow \cup {NoPackage}]

ArrivingWasAuthored ==
  \A i \in Sites :
    /\ copying[i] # Quiet =>
         /\ copying[i].package \in authored
         /\ copying[i].package.authority \notin {i, NoSite}
    /\ proposed[i] # NoPackage =>
         /\ proposed[i].package \in authored
         /\ proposed[i].package.authority = proposed[i].site /\ proposed[i].site # i
    /\ source[i].site # i

IdentityInv == IdentityTypes /\ ArrivingWasAuthored /\ IdentitySound

\* Nobody has written an identity and nothing is on its way.
LEMMA IdentityBegin == IdentityInit => IdentityInv
  BY IdentityAssumption
  DEF IdentityInit, IdentityInv, IdentityTypes, ArrivingWasAuthored, IdentitySound,
      ShownWasAuthored, NoRelay, Identities, Blank, NoSource, NoPackage, Quiet, Bound

\* What an authority hands on is its own, and written by its administrator.
LEMMA HandedOn ==
  ASSUME IdentityInv, NEW s \in Sites, ValidPackage(s, identity[s])
  PROVE  identity[s] \in authored /\ identity[s].authority = s
  BY IdentityAssumption
  DEF IdentityInv, IdentitySound, ShownWasAuthored, ValidPackage, Blank

\* Editing, binding, publishing and following keep the identities authored.
LEMMA IdentityStep == IdentityInv /\ IdentityNext => IdentityInv'
<1> SUFFICES ASSUME IdentityInv, NEW i \in Sites,
                    \/ SaveIdentity(i) \/ AnswerProposal(i)
                    \/ \E s \in Sites : ProposeSource(i, s)
                    \/ AskSource(i) \/ CompareRevisions(i) \/ WriteIdentity(i)
                    \/ AbandonCopy(i)
             PROVE  IdentityInv'
  BY DEF IdentityNext
<1> USE IdentityAssumption DEF IdentityInv, IdentitySound
<1>1. CASE SaveIdentity(i)
  <2> DEFINE new == [org |-> identity[i].org, authority |-> i,
                     revision |-> identity[i].revision + 1, content |-> edits']
  <2>1. /\ identity' = [identity EXCEPT ![i] = new] /\ authored' = authored \cup {new}
        /\ source' = [source EXCEPT ![i] = NoSource] /\ edits' = edits + 1
        /\ UNCHANGED <<copying, proposed, binds>>
    BY <1>1 DEF SaveIdentity
  <2>2. new \in Identities
    BY <2>1 DEF IdentityTypes, Identities
  <2> HIDE DEF new
  <2>3. IdentityTypes'
    BY <2>1, <2>2 DEF IdentityTypes
  <2>4. ArrivingWasAuthored'
    BY <2>1 DEF ArrivingWasAuthored, IdentityTypes, NoSource
  <2>5. ShownWasAuthored'
    BY <2>1 DEF ShownWasAuthored, IdentityTypes, Bound, Blank
  <2>6. NoRelay'
    BY <2>1 DEF NoRelay, IdentityTypes, NoSource
  <2> QED
    BY <2>3, <2>4, <2>5, <2>6
<1>2. CASE AnswerProposal(i)
  <2> DEFINE p == proposed[i].package
             row == [site |-> proposed[i].site, org |-> p.org]
  <2>1. /\ proposed[i] # NoPackage /\ proposed' = [proposed EXCEPT ![i] = NoPackage]
        /\ UNCHANGED <<copying, edits, binds, authored>>
    BY <1>2 DEF AnswerProposal
  <2>2. /\ p \in authored /\ p \in Identities /\ p.authority = proposed[i].site
        /\ proposed[i].site \in Sites \ {i}
    BY <2>1 DEF ArrivingWasAuthored, IdentityTypes, ProposalRow
  <2>3. CASE /\ identity' = [identity EXCEPT ![i] = p]
             /\ source' = [source EXCEPT ![i] = row]
    <3>1. row \in SourceRow /\ row.site = p.authority /\ row.org = p.org
      BY <2>2 DEF SourceRow, Identities
    <3> HIDE DEF row, p
    <3>2. IdentityTypes' /\ ArrivingWasAuthored'
      BY <2>1, <2>2, <2>3, <3>1 DEF IdentityTypes, ArrivingWasAuthored
    <3>3. ShownWasAuthored'
      BY <2>1, <2>2, <2>3 DEF ShownWasAuthored, IdentityTypes, Bound, Blank
    <3>4. NoRelay'
      BY <2>1, <2>2, <2>3, <3>1 DEF NoRelay, IdentityTypes
    <3> QED
      BY <3>2, <3>3, <3>4
  <2>4. CASE UNCHANGED <<identity, source>>
    BY <2>1, <2>4
    DEF IdentityTypes, ArrivingWasAuthored, ShownWasAuthored, NoRelay, Bound, Blank
  <2> QED
    BY <1>2, <2>3, <2>4 DEF AnswerProposal
<1>3. ASSUME NEW s \in Sites, ProposeSource(i, s) PROVE IdentityInv'
  <2> DEFINE new == [site |-> s, package |-> identity[s]]
  <2>1. /\ s # i /\ ValidPackage(s, identity[s])
        /\ proposed' = [proposed EXCEPT ![i] = new]
        /\ UNCHANGED <<identity, source, copying, edits, authored>>
    BY <1>3 DEF ProposeSource
  <2>2. new \in ProposalRow /\ new.site = s /\ new.package = identity[s]
    BY DEF ProposalRow, IdentityTypes
  <2> HIDE DEF new
  <2> QED
    BY <2>1, <2>2, HandedOn
    DEF IdentityTypes, ArrivingWasAuthored, ShownWasAuthored, NoRelay, Bound, Blank
<1>4. CASE AskSource(i)
  <2> DEFINE s == source[i].site
             new == [at |-> "compares", package |-> identity[s]]
  <2>1. /\ Bound(i) /\ UNCHANGED <<identity, source, proposed, edits, binds, authored>>
        /\ copying' = [copying EXCEPT ![i] =
             IF ValidPackage(s, identity[s]) /\ identity[s].org = source[i].org
             THEN new ELSE Quiet]
    BY <1>4 DEF AskSource
  <2>2. s \in Sites \ {i}
    BY <2>1 DEF Bound, IdentityTypes, SourceRow, ArrivingWasAuthored
  <2>3. new \in CopyRow /\ new.package = identity[s]
    BY <2>2 DEF CopyRow, IdentityTypes
  <2>4. ValidPackage(s, identity[s]) =>
          identity[s] \in authored /\ identity[s].authority = s
    BY <2>2, HandedOn
  <2> HIDE DEF new, s
  <2> QED
    BY <2>1, <2>2, <2>3, <2>4
    DEF IdentityTypes, ArrivingWasAuthored, ShownWasAuthored, NoRelay, Bound, Blank
<1>5. CASE CompareRevisions(i)
  <2> DEFINE new == [copying[i] EXCEPT !.at = "writes"]
  <2>1. /\ copying[i] # Quiet /\ copying[i] \in CopyRow
        /\ UNCHANGED <<identity, source, proposed, edits, binds, authored>>
        /\ copying' = [copying EXCEPT ![i] =
             IF copying[i].package.revision > identity[i].revision THEN new ELSE Quiet]
    BY <1>5 DEF CompareRevisions, IdentityTypes, Quiet
  <2>2. new \in CopyRow /\ new.package = copying[i].package
    BY <2>1 DEF CopyRow
  <2> HIDE DEF new
  <2> QED
    BY <2>1, <2>2
    DEF IdentityTypes, ArrivingWasAuthored, ShownWasAuthored, NoRelay, Bound, Blank
<1>6. CASE WriteIdentity(i)
  <2>1. /\ copying[i] # Quiet /\ copying[i] \in CopyRow
        /\ identity' = [identity EXCEPT ![i] = copying[i].package]
        /\ copying' = [copying EXCEPT ![i] = Quiet]
        /\ UNCHANGED <<source, proposed, edits, binds, authored>>
    BY <1>6 DEF WriteIdentity, IdentityTypes, Quiet
  <2>2. /\ copying[i].package \in Identities /\ copying[i].package \in authored
        /\ copying[i].package.authority \notin {i, NoSite}
    BY <2>1 DEF ArrivingWasAuthored, CopyRow
  <2> QED
    BY <2>1, <2>2
    DEF IdentityTypes, ArrivingWasAuthored, ShownWasAuthored, NoRelay, Bound, Blank
<1>7. CASE AbandonCopy(i)
  BY <1>7
  DEF AbandonCopy, IdentityTypes, ArrivingWasAuthored, ShownWasAuthored, NoRelay, Bound,
      Blank
<1> QED
  BY <1>1, <1>2, <1>3, <1>4, <1>5, <1>6, <1>7
-----------------------------------------------------------------------------
(* CloudAccounts: a login and a renewal know whose account they write, and   *)
(* the cache of a library is a OneDrive account's.                           *)

Kinds == {"ACTIVE", "REAUTH_REQUIRED"}
AccountRow == [org : CloudOrgs, provider : Providers, status : Kinds, who : People,
               expired : BOOLEAN, renewable : BOOLEAN]
LoginRow == [at : {"row", "settings"}, account : Numbers, record : AccountRow]
RemovalRow == [at : {"tokens", "cache"}, account : Numbers, org : CloudOrgs,
               provider : Providers]
RenewalRow == [at : {"asks", "row"}, account : Numbers, record : AccountRow,
               cached : People \cup {Nobody}]
SelectionRow == [mode : Providers \cup {"LOCAL"}, account : Numbers \cup {NoAccount}]

CloudTypes ==
  /\ accounts \in [Numbers -> AccountRow \cup {NoRecord}]
  /\ selected \in [CloudOrgs -> SelectionRow]
  /\ tokens \in [Numbers -> People \cup {Nobody}]
  /\ cache \in [CloudOrgs -> People \cup {Nobody}]
  /\ made \in Nat /\ \A n \in Numbers : n > made => ~Exists(n)
  /\ login \in LoginRow \cup {Resting}
  /\ removal \in RemovalRow \cup {Resting}
  /\ renewal \in RenewalRow \cup {Resting}

SameAccount(r, s) == r.org = s.org /\ r.provider = s.provider /\ r.who = s.who

SelectedExists ==
  \A o \in CloudOrgs : LET n == selected[o].account IN
    n # NoAccount => n \in Numbers /\ Exists(n) /\ n <= made

\* What a login, a removal or a renewal writes later is true by then.
WritersKnow ==
  /\ login # Resting =>
       /\ removal = Resting /\ login.account <= made
       /\ Exists(login.account) => SameAccount(accounts[login.account], login.record)
       /\ login.at = "row" => tokens[login.account] = login.record.who
       /\ login.at = "settings" => Exists(login.account)
  /\ removal # Resting => ~Exists(removal.account) /\ removal.account <= made
  /\ renewal # Resting =>
       /\ renewal.account <= made
       /\ Exists(renewal.account) => SameAccount(accounts[renewal.account], renewal.record)
       /\ (login # Resting /\ login.account = renewal.account)
            => SameAccount(login.record, renewal.record)

CachesKnown ==
  \A o \in CloudOrgs : cache[o] # Nobody =>
    \/ \E n \in Numbers :
         /\ Exists(n) /\ accounts[n].org = o /\ accounts[n].who = cache[o]
         /\ accounts[n].provider = "ONEDRIVE"
    \/ <<"cache", o>> \in strays
    \/ /\ login # Resting /\ login.at = "row" /\ login.record.org = o
       /\ login.record.who = cache[o] /\ login.record.provider = "ONEDRIVE"
    \/ removal # Resting /\ removal.org = o /\ removal.provider = "ONEDRIVE"

CloudInv ==
  /\ CloudTypes /\ SelectedExists /\ WritersKnow /\ CachesKnown
  /\ SelectedIsOwn /\ TokensAccounted

\* No account, token or cache exists on a new installation.
LEMMA CloudBegins == CloudAccountsInit => CloudInv
  BY CloudAccountsAssumption
  DEF CloudAccountsInit, CloudInv, CloudTypes, SelectedExists, WritersKnow, CachesKnown,
      SelectedIsOwn, TokensAccounted, Exists, NoRecord, LocalMode, NoAccount, Resting,
      SelectionRow, Providers, Numbers

\* The invariant holds the three claims about the cloud accounts.
LEMMA CloudImplies == CloudInv => CloudAccountsSound
  BY DEF CloudInv, CloudAccountsSound, CachesKnown, CachesAccounted

\* A row is a row.
LEMMA RowsAreRows ==
  /\ \A r \in AccountRow : r # NoRecord
  /\ \A r \in LoginRow \cup RemovalRow \cup RenewalRow : r # Resting
  /\ \A n \in Numbers : n \in Nat /\ n # NoAccount
  BY CloudAccountsAssumption
  DEF AccountRow, NoRecord, LoginRow, RemovalRow, RenewalRow, Resting, Numbers, NoAccount

\* Rows change in ways that leave whose they are and where.
LEMMA RowsTouched ==
  ASSUME CloudInv, accounts' \in [Numbers -> AccountRow \cup {NoRecord}],
         \A n \in Numbers : Exists(n)' <=> Exists(n),
         \A n \in Numbers : Exists(n) => SameAccount(accounts'[n], accounts[n]),
         UNCHANGED <<selected, tokens, cache, made, login, removal, strays>>,
         renewal' \in {renewal, Resting}
  PROVE  CloudInv'
<1> USE DEF CloudInv
<1>1. CloudTypes' /\ SelectedExists'
  BY DEF CloudTypes, SelectedExists
<1>2. WritersKnow'
  <2>1. login # Resting => login.account \in Numbers
    BY DEF CloudTypes, LoginRow
  <2>2. removal # Resting => removal.account \in Numbers
    BY DEF CloudTypes, RemovalRow
  <2>3. renewal # Resting => renewal.account \in Numbers
    BY DEF CloudTypes, RenewalRow
  <2> QED
    BY <2>1, <2>2, <2>3 DEF WritersKnow, SameAccount
<1>3. CachesKnown'
  BY DEF CachesKnown, SameAccount
<1>4. SelectedIsOwn' /\ TokensAccounted'
  BY DEF SelectedExists, SelectedIsOwn, TokensAccounted, SameAccount
<1> QED
  BY <1>1, <1>2, <1>3, <1>4

\* The steps of a login, to the store of tokens and the row, keep the invariant.
LEMMA LoginKeeps ==
  ASSUME CloudInv, NEW o \in CloudOrgs, NEW provider \in Providers, NEW who \in People,
         Authenticate(o, provider, who)
  PROVE  CloudInv'
<1> USE RowsAreRows DEF CloudInv
<1> DEFINE again == KeepsAccount(o, provider, who)
           n == IF again THEN selected[o].account ELSE made + 1
<1>1. PICK renewable \in BOOLEAN :
        login' = [at |-> "row", account |-> n,
                  record |-> [org |-> o, provider |-> provider, status |-> "ACTIVE",
                              who |-> IF again THEN accounts[n].who ELSE who,
                              expired |-> FALSE, renewable |-> renewable]]
  BY DEF Authenticate
<1>2. /\ login = Resting /\ removal = Resting
      /\ cache' = IF provider = "ONEDRIVE" THEN [cache EXCEPT ![o] = who] ELSE cache
      /\ n \in Numbers
      /\ made' = IF again THEN made ELSE n
      /\ tokens' = [tokens EXCEPT ![n] = who]
      /\ UNCHANGED <<accounts, selected, removal, renewal, expiries, strays>>
  BY DEF Authenticate, Free
<1>3. again => /\ Exists(n) /\ accounts[n].who = who /\ accounts[n].provider = provider
               /\ accounts[n].org = o /\ n <= made
  BY DEF KeepsAccount, SelectedExists, SelectedIsOwn
<1>4. ~again => n = made + 1 /\ ~Exists(n)
  BY <1>2 DEF CloudTypes
<1> DEFINE new == [org |-> o, provider |-> provider, status |-> "ACTIVE", who |-> who,
                   expired |-> FALSE, renewable |-> renewable]
<1>5. login' = [at |-> "row", account |-> n, record |-> new]
  BY <1>1, <1>3
<1>6. /\ new \in AccountRow /\ new.org = o /\ new.provider = provider /\ new.who = who
  BY DEF AccountRow, Kinds
<1> HIDE DEF n, again, new
<1>7. login' \in LoginRow /\ login'.at = "row" /\ login'.account = n /\ login'.record = new
  BY <1>2, <1>5, <1>6 DEF LoginRow
<1>8. made' \in Nat /\ made <= made' /\ n <= made'
  BY <1>2, <1>3, <1>4 DEF CloudTypes
<1>9. CloudTypes' /\ SelectedExists' /\ SelectedIsOwn'
  BY <1>2, <1>7, <1>8 DEF CloudTypes, SelectedExists, SelectedIsOwn, Exists
<1>10. WritersKnow'
  <2>1. renewal # Resting /\ renewal.account = n => again
    <3>1. renewal # Resting => renewal.account <= made
      BY DEF WritersKnow
    <3> QED
      BY <1>2, <1>4, <3>1 DEF CloudTypes
  <2>2. renewal # Resting => renewal.account \in Nat /\ renewal.account <= made'
    BY <1>8 DEF WritersKnow, CloudTypes, RenewalRow
  <2> QED
    BY <1>2, <1>3, <1>4, <1>6, <1>7, <1>8, <2>1, <2>2
    DEF WritersKnow, CloudTypes, SameAccount, Exists
<1>11. TokensAccounted'
  <2>1. login' # Resting /\ login'.at = "row" /\ login'.account = n
    BY <1>7
  <2>2. /\ tokens'[n] = who /\ \A m \in Numbers \ {n} : tokens'[m] = tokens[m]
        /\ UNCHANGED <<accounts, removal, strays>>
    BY <1>2 DEF CloudTypes
  <2>3. Exists(n) => accounts[n].who = who
    BY <1>3, <1>4
  <2> QED
    BY <1>2, <2>1, <2>2, <2>3 DEF TokensAccounted, Exists, Resting
<1>12. CachesKnown'
  BY <1>2, <1>6, <1>7 DEF CachesKnown, CloudTypes, Exists
<1> QED
  BY <1>9, <1>10, <1>11, <1>12

\* Every step of the threads of login, removal and renewal keeps the invariant.
LEMMA CloudStep == CloudInv /\ CloudAccountsNext => CloudInv'
<1> SUFFICES ASSUME CloudInv, CloudAccountsNext PROVE CloudInv'
  OBVIOUS
<1> USE RowsAreRows DEF CloudInv
<1>1. ASSUME NEW o \in CloudOrgs, WorkLocally(o) PROVE CloudInv'
  <2>1. LocalMode \in SelectionRow /\ LocalMode.account = NoAccount
    BY DEF LocalMode, SelectionRow
  <2>2. /\ selected' = [selected EXCEPT ![o] = LocalMode]
        /\ UNCHANGED <<accounts, tokens, cache, made, login, removal, renewal, strays>>
    BY <1>1 DEF WorkLocally
  <2> QED
    BY <2>1, <2>2
    DEF CloudTypes, SelectedExists, WritersKnow, CachesKnown, SelectedIsOwn,
        TokensAccounted, Exists
<1>2. CASE SaveAccount
  <2> DEFINE n == login.account
             new == [login EXCEPT !.at = "settings"]
  <2>1. /\ login.at = "row" /\ login \in LoginRow
        /\ accounts' = [accounts EXCEPT ![n] = login.record]
        /\ login' = new
        /\ UNCHANGED <<selected, tokens, cache, made, removal, renewal, strays>>
    BY <1>2 DEF SaveAccount, CloudTypes, Resting
  <2>2. /\ n \in Numbers /\ login.record \in AccountRow /\ n <= made
        /\ Exists(n) => SameAccount(accounts[n], login.record)
        /\ tokens[n] = login.record.who
    BY <2>1 DEF LoginRow, WritersKnow
  <2>3. /\ new \in LoginRow /\ new.at = "settings" /\ new.account = n
        /\ new.record = login.record
    BY <2>1 DEF LoginRow
  <2> HIDE DEF n, new
  <2>4. /\ accounts' \in [Numbers -> AccountRow \cup {NoRecord}]
        /\ accounts'[n] = login.record /\ accounts'[n] # NoRecord
        /\ \A m \in Numbers \ {n} : accounts'[m] = accounts[m]
    BY <2>1, <2>2 DEF CloudTypes, Exists
  <2>5. CloudTypes' /\ SelectedExists' /\ SelectedIsOwn'
    BY <2>1, <2>2, <2>3, <2>4
    DEF CloudTypes, SelectedExists, SelectedIsOwn, SameAccount, Exists
  <2>6. WritersKnow'
    BY <2>1, <2>2, <2>3, <2>4
    DEF CloudTypes, WritersKnow, SameAccount, RenewalRow, Exists, n
  <2>7. TokensAccounted'
    BY <2>1, <2>2, <2>3, <2>4 DEF TokensAccounted, Exists, n
  <2>8. CachesKnown'
    BY <2>1, <2>2, <2>3, <2>4 DEF CachesKnown, SameAccount, Exists
  <2> QED
    BY <2>5, <2>6, <2>7, <2>8
<1>3. CASE UseAccount
  <2> DEFINE new == [mode |-> login.record.provider, account |-> login.account]
             o == login.record.org
  <2>1. /\ login.at = "settings" /\ login \in LoginRow /\ login' = Resting
        /\ selected' = [selected EXCEPT ![o] = new]
        /\ UNCHANGED <<accounts, tokens, cache, made, removal, renewal, strays>>
    BY <1>3 DEF UseAccount, CloudTypes, Resting
  <2>2. /\ login.account \in Numbers /\ login.record \in AccountRow
        /\ o \in CloudOrgs /\ Exists(login.account) /\ login.account <= made
        /\ SameAccount(accounts[login.account], login.record)
    BY <2>1 DEF LoginRow, AccountRow, WritersKnow
  <2>3. /\ new \in SelectionRow /\ new.account = login.account
        /\ new.mode = login.record.provider
    BY <2>2 DEF SelectionRow, AccountRow
  <2> HIDE DEF new
  <2>4. CloudTypes' /\ SelectedExists' /\ SelectedIsOwn'
    BY <2>1, <2>2, <2>3
    DEF CloudTypes, SelectedExists, SelectedIsOwn, SameAccount, Exists
  <2>5. WritersKnow' /\ TokensAccounted' /\ CachesKnown'
    BY <2>1 DEF WritersKnow, TokensAccounted, CachesKnown, Exists
  <2> QED
    BY <2>4, <2>5
<1>4. ASSUME NEW o \in CloudOrgs, DropAccount(o) PROVE CloudInv'
  <2> DEFINE n == selected[o].account
             new == [at |-> "tokens", account |-> n, org |-> o,
                     provider |-> accounts[n].provider]
  <2>1. /\ login = Resting /\ removal = Resting /\ n # NoAccount
        /\ removal' = new /\ accounts' = [accounts EXCEPT ![n] = NoRecord]
        /\ selected' = [selected EXCEPT ![o] = LocalMode]
        /\ UNCHANGED <<tokens, cache, made, login, renewal, strays>>
    BY <1>4 DEF DropAccount, Free
  <2>2. /\ n \in Numbers /\ Exists(n) /\ n <= made /\ accounts[n] \in AccountRow
        /\ accounts[n].org = o
    BY <2>1 DEF SelectedExists, SelectedIsOwn, CloudTypes, Exists
  <2>3. /\ new \in RemovalRow /\ new.at = "tokens" /\ new.account = n /\ new.org = o
        /\ new.provider = accounts[n].provider
    BY <2>2 DEF RemovalRow, AccountRow
  <2> HIDE DEF n, new
  <2>4. /\ accounts' \in [Numbers -> AccountRow \cup {NoRecord}] /\ accounts'[n] = NoRecord
        /\ \A m \in Numbers \ {n} : accounts'[m] = accounts[m]
    BY <2>1, <2>2 DEF CloudTypes, Exists
  <2>5. LocalMode \in SelectionRow /\ LocalMode.account = NoAccount
    BY DEF LocalMode, SelectionRow
  <2>6. \A p \in CloudOrgs \ {o} : selected'[p] = selected[p] /\ selected[p].account # n
    BY <2>1, <2>2 DEF SelectedIsOwn, CloudTypes
  <2>7. CloudTypes' /\ SelectedExists' /\ SelectedIsOwn'
    BY <2>1, <2>2, <2>3, <2>4, <2>5, <2>6
    DEF CloudTypes, SelectedExists, SelectedIsOwn, Exists
  <2>8. WritersKnow' /\ TokensAccounted'
    BY <2>1, <2>2, <2>3, <2>4
    DEF WritersKnow, TokensAccounted, CloudTypes, RenewalRow, SameAccount, Exists,
        Resting
  <2>9. CachesKnown'
    BY <2>1, <2>2, <2>3, <2>4 DEF CachesKnown, Exists
  <2> QED
    BY <2>7, <2>8, <2>9
<1>5. CASE DropTokens
  <2> DEFINE new == [removal EXCEPT !.at = "cache"]
  <2>1. /\ removal.at = "tokens" /\ removal \in RemovalRow /\ removal' = new
        /\ tokens' = [tokens EXCEPT ![removal.account] = Nobody]
        /\ UNCHANGED <<accounts, selected, cache, made, login, renewal, strays>>
    BY <1>5 DEF DropTokens, CloudTypes, Resting
  <2>2. /\ new \in RemovalRow /\ new.at = "cache" /\ new.account = removal.account
        /\ new.org = removal.org /\ new.provider = removal.provider
        /\ removal.account \in Numbers
    BY <2>1 DEF RemovalRow
  <2> HIDE DEF new
  <2>3. removal # Resting /\ ~Exists(removal.account) /\ login = Resting
    BY <2>1 DEF WritersKnow
  <2> QED
    BY <2>1, <2>2, <2>3
    DEF CloudTypes, SelectedExists, WritersKnow, CachesKnown, SelectedIsOwn,
        TokensAccounted, Exists
<1>6. CASE DropCache
  <2>1. /\ removal.at = "cache" /\ removal \in RemovalRow /\ removal' = Resting
        /\ cache' = IF removal.provider = "ONEDRIVE"
                    THEN [cache EXCEPT ![removal.org] = Nobody] ELSE cache
        /\ strays' = IF removal.provider = "ONEDRIVE"
                     THEN strays \ {<<"cache", removal.org>>} ELSE strays
        /\ UNCHANGED <<accounts, selected, tokens, made, login, renewal>>
    BY <1>6 DEF DropCache, CloudTypes, Resting
  <2>2. \A n : <<"tokens", n>> \in strays => <<"tokens", n>> \in strays'
    BY <2>1
  <2>3. \A o \in CloudOrgs \ {removal.org} :
          <<"cache", o>> \in strays => <<"cache", o>> \in strays'
    BY <2>1
  <2>4. CachesKnown'
    BY <2>1, <2>3 DEF CachesKnown, CloudTypes, Exists, RemovalRow
  <2> QED
    BY <2>1, <2>2, <2>4
    DEF CloudTypes, SelectedExists, WritersKnow, SelectedIsOwn, TokensAccounted, Exists,
        RemovalRow
<1>7. ASSUME NEW n \in Numbers, ExpireTokens(n) PROVE CloudInv'
  <2> DEFINE new == [accounts[n] EXCEPT !.expired = TRUE]
  <2>1. /\ Exists(n) /\ accounts[n] \in AccountRow
        /\ UNCHANGED <<selected, tokens, cache, made, login, removal, renewal, strays>>
        /\ accounts' = [accounts EXCEPT ![n] = new]
    BY <1>7 DEF ExpireTokens, CloudTypes, Exists
  <2>2. new \in AccountRow /\ SameAccount(new, accounts[n])
    BY <2>1 DEF AccountRow, SameAccount
  <2> HIDE DEF new
  <2> QED
    BY <2>1, <2>2, RowsTouched DEF CloudTypes, Exists, SameAccount
<1>8. ASSUME NEW n \in Numbers, AskRenewal(n) PROVE CloudInv'
  <2> DEFINE new == [at |-> "asks", account |-> n, record |-> accounts[n],
                     cached |-> cache[accounts[n].org]]
  <2>1. /\ Exists(n) /\ accounts[n] \in AccountRow /\ renewal' = new
        /\ UNCHANGED <<accounts, selected, tokens, cache, made, login, removal, strays>>
    BY <1>8 DEF AskRenewal, CloudTypes, Exists
  <2>2. new \in RenewalRow /\ new.account = n /\ new.record = accounts[n]
    BY <2>1 DEF RenewalRow, AccountRow, CloudTypes
  <2>3. n <= made
    BY <2>1 DEF CloudTypes, Exists
  <2> HIDE DEF new
  <2> QED
    BY <2>1, <2>2, <2>3
    DEF CloudTypes, SelectedExists, WritersKnow, CachesKnown, SelectedIsOwn,
        TokensAccounted, Exists, SameAccount
<1>9. CASE RenewTokens
  <2> DEFINE n == renewal.account
             o == renewal.record.org
             silent == ~renewal.record.renewable
             new == [renewal EXCEPT !.at = "row"]
  <2>1. /\ renewal.at = "asks" /\ renewal \in RenewalRow /\ renewal' = new
        /\ tokens' = [tokens EXCEPT ![n] = renewal.record.who]
        /\ cache' = IF silent THEN [cache EXCEPT ![o] = renewal.cached] ELSE cache
        /\ strays' = strays
              \cup (IF Exists(n) THEN {} ELSE {<<"tokens", n>>})
              \cup (IF silent /\ cache[o] # renewal.cached THEN {<<"cache", o>>} ELSE {})
        /\ UNCHANGED <<accounts, selected, made, login, removal>>
    BY <1>9 DEF RenewTokens, CloudTypes, Resting
  <2>2. /\ n \in Numbers /\ o \in CloudOrgs /\ renewal.record.who \in People
        /\ renewal.cached \in People \cup {Nobody} /\ renewal # Resting
    BY <2>1 DEF RenewalRow, AccountRow
  <2>3. /\ new \in RenewalRow /\ new.account = n /\ new.record = renewal.record
    BY <2>1 DEF RenewalRow
  <2> HIDE DEF new
  <2>4. /\ strays \subseteq strays' /\ ~Exists(n) => <<"tokens", n>> \in strays'
        /\ \A p \in CloudOrgs : cache'[p] = cache[p] \/ <<"cache", p>> \in strays'
    BY <2>1, <2>2 DEF CloudTypes
  <2>5. CloudTypes' /\ SelectedExists' /\ SelectedIsOwn'
    BY <2>1, <2>2, <2>3 DEF CloudTypes, SelectedExists, SelectedIsOwn, Exists
  <2>6. WritersKnow'
    BY <2>1, <2>2, <2>3 DEF CloudTypes, WritersKnow, SameAccount, Exists, LoginRow
  <2>7. TokensAccounted'
    BY <2>1, <2>2, <2>4 DEF TokensAccounted, WritersKnow, SameAccount, CloudTypes, Exists
  <2>8. CachesKnown'
    BY <2>1, <2>4 DEF CachesKnown, Exists
  <2> QED
    BY <2>5, <2>6, <2>7, <2>8
<1>10. CASE SaveRenewal
  <2> DEFINE n == renewal.account
             new == [accounts[n] EXCEPT !.expired = FALSE, !.status = "ACTIVE"]
  <2>1. /\ renewal.at = "row" /\ renewal \in RenewalRow /\ renewal' = Resting
        /\ accounts' = IF Exists(n) THEN [accounts EXCEPT ![n] = new] ELSE accounts
        /\ UNCHANGED <<selected, tokens, cache, made, login, removal, strays>>
    <3>1. /\ renewal.at = "row" /\ renewal \in RenewalRow /\ renewal' = Resting
          /\ UNCHANGED <<selected, tokens, cache, made, login, removal, strays>>
      BY <1>10 DEF SaveRenewal, CloudTypes, Resting
    <3>2. accounts' = IF Exists(n) THEN [accounts EXCEPT ![n] = new] ELSE accounts
      BY <1>10 DEF SaveRenewal, CloudTypes
    <3> QED
      BY <3>1, <3>2
  <2>2. n \in Numbers /\ (Exists(n) => accounts[n] \in AccountRow)
    BY <2>1 DEF RenewalRow, CloudTypes, Exists
  <2>3. Exists(n) => new \in AccountRow /\ SameAccount(new, accounts[n])
    BY <2>2 DEF AccountRow, SameAccount, Kinds
  <2> HIDE DEF new, n
  <2> QED
    BY <2>1, <2>2, <2>3, RowsTouched DEF CloudTypes, Exists, SameAccount
<1>11. CASE RefuseRenewal
  <2> DEFINE n == renewal.account
             new == [accounts[n] EXCEPT !.status = "REAUTH_REQUIRED"]
  <2>1. /\ renewal.at = "asks" /\ renewal \in RenewalRow /\ renewal' = Resting
        /\ accounts' \in
             {accounts, IF Exists(n) THEN [accounts EXCEPT ![n] = new] ELSE accounts}
        /\ UNCHANGED <<selected, tokens, cache, made, login, removal, strays>>
    BY <1>11 DEF RefuseRenewal, CloudTypes, Resting
  <2>2. n \in Numbers /\ (Exists(n) => accounts[n] \in AccountRow)
    BY <2>1 DEF RenewalRow, CloudTypes, Exists
  <2>3. Exists(n) => new \in AccountRow /\ SameAccount(new, accounts[n])
    BY <2>2 DEF AccountRow, SameAccount, Kinds
  <2> HIDE DEF new, n
  <2> QED
    BY <2>1, <2>2, <2>3, RowsTouched DEF CloudTypes, Exists, SameAccount
<1>12. CASE DieInAccounts
  <2>1. /\ login' = Resting /\ removal' = Resting /\ renewal' = Resting
        /\ strays' = strays
             \cup (IF login.at = "row" /\ ~Exists(login.account)
                   THEN {<<"tokens", login.account>>, <<"cache", login.record.org>>} ELSE {})
             \cup (IF removal.at = "tokens" THEN {<<"tokens", removal.account>>} ELSE {})
             \cup (IF removal # Resting THEN {<<"cache", removal.org>>} ELSE {})
        /\ UNCHANGED <<accounts, selected, tokens, cache, made>>
    BY <1>12 DEF DieInAccounts
  <2>2. login.at = "row" => login # Resting /\ login.account \in Numbers
    BY DEF CloudTypes, LoginRow, Resting
  <2>3. CachesKnown'
    BY <2>1, <2>2 DEF CachesKnown, WritersKnow, SameAccount, Exists
  <2> QED
    BY <2>1, <2>2, <2>3
    DEF CloudTypes, SelectedExists, WritersKnow, SelectedIsOwn, TokensAccounted, Exists
<1> QED
  BY <1>1, <1>2, <1>3, <1>4, <1>5, <1>6, <1>7, <1>8, <1>9, <1>10, <1>11, <1>12,
     LoginKeeps
  DEF CloudAccountsNext
-----------------------------------------------------------------------------
(* Accounts: an organization in use has one owner, and the session's copy of *)
(* the memberships differs from the table in nothing that grants a right.    *)

ContextRow ==
  [user : Users \cup {NoUser}, org : Orgs \cup {NoOrg},
   seen : [Orgs -> Roles \cup {"none"}], perms : SUBSET Permissions]
MemberRow == [role : Roles, status : Statuses] \cup {NoRow}

TablesTyped ==
  /\ users \in [Users -> {"none", "active", "deleted"}] /\ super \subseteq Users
  /\ orgs \in [Orgs -> {"none", "ACTIVE", "DELETED"}]
  /\ rows \in [Orgs -> [Users -> MemberRow]] /\ order \in [Users -> Seq(Orgs)]
  /\ ctx \in ContextRow /\ screen \in {"login", "main"}

\* Each row of a user has its place, once, in the order of his rows.
RowsOrdered ==
  \A u \in Users :
    /\ {order[u][i] : i \in DOMAIN order[u]} = Linked(u)
    /\ Len(order[u]) = Cardinality(Linked(u))

\* Nobody is a member who is not, or of what is not.
MembersExist ==
  /\ \A o \in Orgs, u \in Users :
       /\ IsMember(o, u) => users[u] = "active"
       /\ users[u] = "none" \/ orgs[o] = "none" => rows[o][u] = NoRow
  /\ \A u \in super : users[u] = "active"

OwnerAlone ==
  \A o \in Orgs : ActiveMembers(o) # {} => \E u \in Users : ActiveOwners(o) = {u}

\* What the session remembers of its user and of the organization it opened.
SessionTrue ==
  /\ screen = "main" => ctx.user # NoUser
  /\ ctx.user # NoUser =>
       /\ users[ctx.user] = "active"
       /\ ctx.org \in Orgs /\ ActiveMembers(ctx.org) # {}
       /\ \A o \in Orgs : ctx.seen[o] \in {"none", RolesIn(rows, ctx.user)[o]}
       /\ ctx.user \notin super => ctx.seen = RolesIn(rows, ctx.user)
       /\ ctx.perms = PermissionsOf(ctx.user, ctx.org, ctx.seen, super)

AccountsInv ==
  TablesTyped /\ RowsOrdered /\ MembersExist /\ OwnerAlone /\ SessionTrue

\* Of numbers there is a smallest.
LEMMA SmallestIsOne ==
  ASSUME NEW S \in SUBSET Nat, S # {}
  PROVE  SmallestOf(S) \in S
<1> DEFINE Less == OpToRel(<, Nat)
<1>1. \A x, y \in Nat : x < y => <<x, y>> \in Less
  BY DEF OpToRel
<1>2. IsWellFoundedOn(Less, Nat)
  BY NatLessThanWellFounded
<1> HIDE DEF Less
<1>4. \E x \in S : \A y \in S : ~(<<y, x>> \in Less)
  BY <1>2, WFMin
<1>3. \E x \in S : \A y \in S : x <= y
  <2>1. PICK x \in S : \A y \in S : ~(<<y, x>> \in Less)
    BY <1>4
  <2>2. \A y \in S : ~(y < x)
    BY <1>1, <2>1
  <2>3. \A y \in S : x <= y
    BY <2>2
  <2> QED
    BY <2>3
<1> QED
  BY <1>3 DEF SmallestOf

\* What a role grants, and which roles govern.
LEMMA RolesGrant ==
  /\ \A r \in Roles \cup {"none"} : Grants(r) \subseteq Permissions
  /\ Grants("none") = {} /\ Grants("OWNER") = Permissions
  /\ \A r \in Roles \cup {"none"} :
       (Grants(r) \cap {"member.add", "member.create_user", "member.change_role",
                        "member.deactivate", "member.remove"}) # {}
         => r \in {"OWNER", "ADMIN"}
  BY AccountsAssumption DEF Grants, Permissions, AdminGrants

\* The roles of a user, read from the table of members.
LEMMA RolesRead ==
  ASSUME TablesTyped, NEW u \in Users
  PROVE  /\ RolesIn(rows, u) \in [Orgs -> Roles \cup {"none"}]
         /\ \A o \in Orgs :
              /\ IsMember(o, u) => RolesIn(rows, u)[o] = rows[o][u].role
              /\ ~IsMember(o, u) => RolesIn(rows, u)[o] = "none"
              /\ RolesIn(rows, u)[o] # "none" => IsMember(o, u)
<1>1. \A o \in Orgs : rows[o][u] \in MemberRow
  BY DEF TablesTyped
<1>2. \A o \in Orgs : IsMember(o, u) => rows[o][u].role \in Roles
  BY <1>1 DEF IsMember, MemberRow, NoRow
<1>3. "none" \notin Roles
  BY AccountsAssumption
<1> QED
  BY <1>2, <1>3 DEF RolesIn, IsMember

\* Whatever role is held, the rights are permissions.
LEMMA RightsTyped ==
  ASSUME NEW u, NEW o \in Orgs \cup {NoOrg}, NEW seen \in [Orgs -> Roles \cup {"none"}], NEW S
  PROVE  PermissionsOf(u, o, seen, S) \in SUBSET Permissions
  BY RolesGrant DEF PermissionsOf

\* The one active owner is the last one.
LEMMA OwnerIsLast ==
  ASSUME OwnerAlone, NEW o \in Orgs, NEW u \in Users, IsMember(o, u),
         rows[o][u].role = "OWNER"
  PROVE  ActiveOwners(o) = {u} /\ IsLastOwner(o, u)
<1>1. u \in ActiveOwners(o)
  BY DEF ActiveOwners, ActiveMembers
<1>2. ActiveOwners(o) = {u}
  BY <1>1 DEF OwnerAlone, ActiveOwners
<1>3. Cardinality(ActiveOwners(o)) = 1
  BY <1>2, FS_Singleton
<1> QED
  BY <1>2, <1>3 DEF IsLastOwner

\* The user inside, and the rights the session has.
LEMMA UserInside ==
  ASSUME AccountsInv, Inside
  PROVE  /\ me \in Users /\ users[me] = "active"
         /\ ctx.org \in Orgs /\ ctx.seen \in [Orgs -> Roles \cup {"none"}]
         /\ \A o \in Orgs : ctx.seen[o] # "none" => IsMember(o, me) /\ ctx.seen[o] = rows[o][me].role
         /\ me \notin super => \A o \in Orgs : IsMember(o, me) => ctx.seen[o] = rows[o][me].role
         /\ me \notin super => ctx.perms = Grants(ctx.seen[ctx.org])
<1>1. me \in Users
  BY DEF AccountsInv, TablesTyped, SessionTrue, ContextRow, me, Inside
<1>2. /\ users[me] = "active" /\ ctx.org \in Orgs
      /\ \A o \in Orgs : ctx.seen[o] \in {"none", RolesIn(rows, me)[o]}
      /\ me \notin super => ctx.seen = RolesIn(rows, me)
      /\ ctx.perms = PermissionsOf(me, ctx.org, ctx.seen, super)
      /\ ctx.seen \in [Orgs -> Roles \cup {"none"}]
  BY DEF AccountsInv, TablesTyped, SessionTrue, ContextRow, me, Inside
<1>3. /\ \A o \in Orgs :
           /\ IsMember(o, me) => RolesIn(rows, me)[o] = rows[o][me].role
           /\ RolesIn(rows, me)[o] # "none" => IsMember(o, me)
  BY <1>1, RolesRead DEF AccountsInv
<1>4. me \notin super => ctx.perms = Grants(ctx.seen[ctx.org])
  BY <1>2 DEF PermissionsOf, NoOrg, Orgs
<1> QED
  BY <1>1, <1>2, <1>3, <1>4

\* The rows in order, when one comes and when none does.
LEMMA OrderGrows ==
  ASSUME TablesTyped, RowsOrdered, NEW o \in Orgs, NEW u \in Users, rows[o][u] = NoRow,
         NEW row, row # NoRow, SetRow(o, u, row), order' = [order EXCEPT ![u] = Append(@, o)]
  PROVE  RowsOrdered'
<1>1. Linked(u) \in SUBSET Orgs /\ o \notin Linked(u)
  BY DEF Linked
<1>2. IsFiniteSet(Linked(u))
  <2>1. IsFiniteSet(Orgs)
    <3>1. 1 \in Int /\ OrgCount \in Int
      BY AccountsAssumption
    <3>2. IsFiniteSet(1 .. OrgCount)
      BY <3>1, FS_Interval, Zenon
    <3> QED
      BY <3>2 DEF Orgs
  <2> QED
    BY <1>1, <2>1, FS_Subset
<1>3. \A v \in Users : Linked(v)' = IF v = u THEN Linked(u) \cup {o} ELSE Linked(v)
  BY DEF Linked, TablesTyped, SetRow
<1>4. Cardinality(Linked(u) \cup {o}) = Cardinality(Linked(u)) + 1
  BY <1>1, <1>2, FS_AddElement
<1>5. \A v \in Users \ {u} : order'[v] = order[v]
  BY DEF TablesTyped
<1>6. order'[u] = Append(order[u], o) /\ order[u] \in Seq(Orgs)
  BY DEF TablesTyped
<1>7. /\ Len(order'[u]) = Len(order[u]) + 1
      /\ {order'[u][i] : i \in DOMAIN order'[u]} = {order[u][i] : i \in DOMAIN order[u]} \cup {o}
  BY <1>6
<1> QED
  <2> SUFFICES ASSUME NEW v \in Users
               PROVE  /\ {order'[v][i] : i \in DOMAIN order'[v]} = Linked(v)'
                      /\ Len(order'[v]) = Cardinality(Linked(v)')
    BY DEF RowsOrdered
  <2>1. /\ {order[v][i] : i \in DOMAIN order[v]} = Linked(v)
        /\ Len(order[v]) = Cardinality(Linked(v))
    BY DEF RowsOrdered
  <2>2. CASE v = u
    <3>1. Linked(v)' = Linked(v) \cup {o}
      BY <1>3, <2>2
    <3>2. {order'[v][i] : i \in DOMAIN order'[v]} = {order[v][i] : i \in DOMAIN order[v]} \cup {o}
      BY <1>7, <2>2
    <3>3. Len(order'[v]) = Len(order[v]) + 1
      BY <1>7, <2>2
    <3> QED
      BY <1>4, <2>1, <2>2, <3>1, <3>2, <3>3
  <2>3. CASE v # u
    BY <1>3, <1>5, <2>1, <2>3
  <2> QED
    BY <2>2, <2>3

\* No row comes or goes: the order of the rows stays.
LEMMA OrderStays ==
  ASSUME TablesTyped, RowsOrdered, UNCHANGED order,
         \A o \in Orgs, u \in Users : rows'[o][u] = NoRow <=> rows[o][u] = NoRow
  PROVE  RowsOrdered'
<1>1. \A u \in Users : Linked(u)' = Linked(u)
  BY DEF Linked
<1> QED
  BY <1>1 DEF RowsOrdered

\* Changes of members that add none, and after which the session reads again.
LEMMA MembersChange ==
  ASSUME AccountsInv, Inside, Refresh, UNCHANGED <<users, super, orgs, order, screen>>,
         rows' \in [Orgs -> [Users -> MemberRow]],
         \A o \in Orgs, u \in Users : rows'[o][u] = NoRow <=> rows[o][u] = NoRow,
         \A o \in Orgs, u \in Users : IsMember(o, u)' => IsMember(o, u),
         \A o \in Orgs : ActiveMembers(o) # {} => \E u \in Users : ActiveOwners(o)' = {u}
  PROVE  AccountsInv'
<1> USE DEF AccountsInv
<1>1. me \in Users /\ users[me] = "active" /\ ctx.org \in Orgs
  BY UserInside
<1>2. ctx' = Context(me, ctx.org, RolesIn(rows', me), super)
  BY DEF Refresh, me
<1>3. /\ RolesIn(rows', me) \in [Orgs -> Roles \cup {"none"}]
  <2>1. \A o \in Orgs : rows'[o][me].status = "ACTIVE" => rows'[o][me].role \in Roles
    BY <1>1 DEF MemberRow, NoRow
  <2> QED
    BY <2>1 DEF RolesIn
<1>4. /\ ctx'.user = me /\ ctx'.org = ctx.org /\ ctx'.seen = RolesIn(rows', me)
      /\ ctx'.perms = PermissionsOf(me, ctx.org, RolesIn(rows', me), super)
  BY <1>2 DEF Context
<1>5. PermissionsOf(me, ctx.org, RolesIn(rows', me), super) \in SUBSET Permissions
  BY <1>1, <1>3, RightsTyped
<1>6. ctx' \in ContextRow
  BY <1>1, <1>2, <1>3, <1>5 DEF Context, ContextRow
<1>7. TablesTyped' /\ RowsOrdered'
  <2>1. TablesTyped'
    BY <1>6 DEF TablesTyped
  <2> QED
    BY <2>1, OrderStays
<1>8. MembersExist'
  BY DEF MembersExist
<1>9. OwnerAlone'
  BY DEF OwnerAlone, ActiveMembers
<1>10. ActiveMembers(ctx.org)' # {}
  <2>1. ActiveMembers(ctx.org) # {}
    BY <1>1 DEF SessionTrue, me, Inside
  <2>2. \E u \in Users : u \in ActiveMembers(ctx.org)'
    BY <1>1, <1>4, <2>1 DEF ActiveOwners
  <2> QED
    BY <2>2
<1>11. SessionTrue'
  <2>1. \A o \in Orgs : ctx'.seen[o] \in {"none", RolesIn(rows, ctx.user)[o]'}
    BY <1>4
  <2> QED
    BY <1>1, <1>4, <1>10, <2>1, AccountsAssumption DEF SessionTrue
<1> QED
  BY <1>7, <1>8, <1>9, <1>11

\* One row changes, of a member who stays whatever owner he is.
LEMMA RowChanges ==
  ASSUME AccountsInv, Inside, Refresh, UNCHANGED <<users, super, orgs, order, screen>>,
         NEW o \in Orgs, NEW u \in Users, IsMember(o, u),
         NEW row \in [role : Roles, status : Statuses], SetRow(o, u, row),
         row.role = "OWNER" /\ row.status = "ACTIVE" <=> rows[o][u].role = "OWNER"
  PROVE  AccountsInv'
<1> USE DEF AccountsInv
<1>1. row # NoRow /\ row \in MemberRow
  BY DEF NoRow, Statuses, MemberRow
<1>2. /\ rows' \in [Orgs -> [Users -> MemberRow]]
      /\ rows'[o][u] = row
      /\ \A p \in Orgs, v \in Users : p # o \/ v # u => rows'[p][v] = rows[p][v]
  BY <1>1 DEF SetRow, TablesTyped
<1>3. \A p \in Orgs : ActiveOwners(p)' = ActiveOwners(p)
  BY <1>2 DEF ActiveOwners, ActiveMembers, IsMember
<1>4. rows[o][u] # NoRow
  BY DEF IsMember, NoRow
<1>5. /\ \A p \in Orgs, v \in Users : rows'[p][v] = NoRow <=> rows[p][v] = NoRow
      /\ \A p \in Orgs, v \in Users : IsMember(p, v)' => IsMember(p, v)
  BY <1>1, <1>2, <1>4 DEF IsMember
<1> QED
  BY <1>2, <1>3, <1>5, MembersChange DEF OwnerAlone

\* Changing, ending and transferring a membership keeps the invariant.
LEMMA MembersKeep ==
  ASSUME AccountsInv, NEW o \in Orgs, NEW u \in Users,
         \/ \E role \in Roles : ChangeRole(o, u, role)
         \/ Deactivate(o, u) \/ Remove(o, u) \/ TransferOwnership(o, u)
  PROVE  AccountsInv'
<1> USE DEF AccountsInv
<1>1. ASSUME NEW role \in Roles, ChangeRole(o, u, role) PROVE AccountsInv'
  <2>1. /\ Inside /\ Refresh /\ IsMember(o, u) /\ SetRow(o, u, Row(role))
        /\ UNCHANGED <<users, super, orgs, order, screen>>
        /\ role = "OWNER" => rows[o][u].role = "OWNER"
        /\ role # "OWNER" => ~IsLastOwner(o, u)
    BY <1>1 DEF ChangeRole, Require, MayChange
  <2>2. /\ Row(role) \in [role : Roles, status : Statuses]
        /\ Row(role).role = role /\ Row(role).status = "ACTIVE"
    BY DEF Row, Statuses
  <2>3. rows[o][u].role = "OWNER" => role = "OWNER"
    BY <2>1, OwnerIsLast
  <2> QED
    BY <2>1, <2>2, <2>3, RowChanges
<1>2. ASSUME Deactivate(o, u) \/ Remove(o, u) PROVE AccountsInv'
  <2> DEFINE row == [rows[o][u] EXCEPT !.status = "ENDED"]
  <2>1. /\ Inside /\ Refresh /\ IsMember(o, u) /\ SetRow(o, u, row)
        /\ UNCHANGED <<users, super, orgs, order, screen>> /\ ~IsLastOwner(o, u)
    BY <1>2 DEF Deactivate, Remove, Require, MayRemove
  <2>2. rows[o][u] \in [role : Roles, status : Statuses]
    BY <2>1 DEF IsMember, TablesTyped, MemberRow, NoRow
  <2>3. row \in [role : Roles, status : Statuses] /\ row.status = "ENDED"
    BY <2>2 DEF Statuses
  <2>4. rows[o][u].role # "OWNER"
    BY <2>1, OwnerIsLast
  <2> HIDE DEF row
  <2> QED
    BY <2>1, <2>3, <2>4, RowChanges
<1>3. ASSUME TransferOwnership(o, u) PROVE AccountsInv'
  <2>1. /\ Inside /\ Refresh /\ IsMember(o, u) /\ IsMember(o, me) /\ u # me
        /\ rows[o][me].role = "OWNER"
        /\ rows' = [rows EXCEPT ![o][u].role = "OWNER", ![o][me].role = "ADMIN"]
        /\ UNCHANGED <<users, super, orgs, order, screen>>
    BY <1>3 DEF TransferOwnership, Require
  <2>2. me \in Users
    BY <2>1, UserInside
  <2>3. /\ rows[o][u] \in [role : Roles, status : Statuses]
        /\ rows[o][me] \in [role : Roles, status : Statuses]
        /\ rows[o][u].status = "ACTIVE" /\ rows[o][me].status = "ACTIVE"
    BY <2>1, <2>2 DEF IsMember, TablesTyped, MemberRow, NoRow
  <2> DEFINE his == [rows[o][u] EXCEPT !.role = "OWNER"]
             mine == [rows[o][me] EXCEPT !.role = "ADMIN"]
  <2>4. /\ his \in MemberRow /\ mine \in MemberRow /\ his # NoRow /\ mine # NoRow
        /\ his.role = "OWNER" /\ mine.role = "ADMIN"
        /\ his.status = "ACTIVE" /\ mine.status = "ACTIVE"
    BY <2>3, AccountsAssumption DEF MemberRow, NoRow
  <2>5. rows' = [rows EXCEPT ![o] = [rows[o] EXCEPT ![u] = his, ![me] = mine]]
    BY <2>1, <2>2 DEF TablesTyped
  <2> HIDE DEF his, mine
  <2>6. /\ rows' \in [Orgs -> [Users -> MemberRow]]
        /\ rows'[o][u] = his /\ rows'[o][me] = mine
        /\ \A p \in Orgs, v \in Users :
             p # o \/ v \notin {u, me} => rows'[p][v] = rows[p][v]
    BY <2>1, <2>2, <2>4, <2>5 DEF TablesTyped
  <2>7. ActiveOwners(o) = {me}
    BY <2>1, <2>2, OwnerIsLast
  <2>8. /\ \A p \in Orgs, v \in Users : IsMember(p, v)' <=> IsMember(p, v)
        /\ \A p \in Orgs, v \in Users : rows'[p][v] = NoRow <=> rows[p][v] = NoRow
    BY <2>2, <2>3, <2>4, <2>6 DEF IsMember, NoRow
  <2>9. ActiveOwners(o)' = {u}
    BY <2>1, <2>2, <2>4, <2>6, <2>7, <2>8 DEF ActiveOwners, ActiveMembers
  <2>10. \A p \in Orgs \ {o} : ActiveOwners(p)' = ActiveOwners(p)
    BY <2>6, <2>8 DEF ActiveOwners, ActiveMembers
  <2>11. \A p \in Orgs : ActiveMembers(p) # {} => \E v \in Users : ActiveOwners(p)' = {v}
    BY <2>9, <2>10 DEF OwnerAlone
  <2> QED
    BY <2>1, <2>6, <2>8, <2>11, MembersChange
<1> QED
  BY <1>1, <1>2, <1>3

\* A new row: of a user who was no member, and as an owner where nobody was.
LEMMA RowArrives ==
  ASSUME AccountsInv, NEW o \in Orgs, NEW u \in Users, ~IsMember(o, u),
         NEW role \in Roles, SetRow(o, u, Row(role)),
         order' = IF rows[o][u] = NoRow THEN [order EXCEPT ![u] = Append(@, o)] ELSE order,
         role # "OWNER" <=> ActiveMembers(o) # {},
         users' \in [Users -> {"none", "active", "deleted"}], users'[u] = "active",
         \A v \in Users \ {u} : users'[v] = users[v],
         super' \in {super, super \cup {u}},
         orgs' \in [Orgs -> {"none", "ACTIVE", "DELETED"}], orgs'[o] # "none",
         \A p \in Orgs \ {o} : orgs'[p] = orgs[p],
         ctx' \in ContextRow, screen' \in {"login", "main"}, SessionTrue'
  PROVE  AccountsInv'
<1> USE DEF AccountsInv
<1>1. /\ Row(role) \in MemberRow /\ Row(role) # NoRow
      /\ Row(role).role = role /\ Row(role).status = "ACTIVE"
  BY DEF Row, NoRow, Statuses, MemberRow
<1>2. /\ rows' \in [Orgs -> [Users -> MemberRow]]
      /\ rows'[o][u] = Row(role)
      /\ \A p \in Orgs, v \in Users : p # o \/ v # u => rows'[p][v] = rows[p][v]
  BY <1>1 DEF SetRow, TablesTyped
<1>3. order' \in [Users -> Seq(Orgs)]
  <2>1. order[u] \in Seq(Orgs)
    BY DEF TablesTyped
  <2>2. Append(order[u], o) \in Seq(Orgs)
    BY <2>1
  <2> QED
    BY <2>2 DEF TablesTyped
<1>4. TablesTyped'
  BY <1>2, <1>3 DEF TablesTyped
<1>5. RowsOrdered'
  <2>1. CASE rows[o][u] = NoRow
    BY <1>1, <2>1, OrderGrows
  <2>2. CASE rows[o][u] # NoRow
    BY <1>1, <1>2, <2>2, OrderStays
  <2> QED
    BY <2>1, <2>2
<1>6. MembersExist'
  <2>1. \A p \in Orgs, v \in Users : IsMember(p, v)' => users'[v] = "active"
    BY <1>1, <1>2 DEF MembersExist, IsMember
  <2>2. \A p \in Orgs, v \in Users :
          users'[v] = "none" \/ orgs'[p] = "none" => rows'[p][v] = NoRow
    BY <1>1, <1>2 DEF MembersExist
  <2>3. \A v \in super' : users'[v] = "active"
    BY DEF MembersExist, TablesTyped
  <2> QED
    BY <2>1, <2>2, <2>3 DEF MembersExist
<1>7. OwnerAlone'
  <2>1. \A p \in Orgs \ {o} :
          ActiveMembers(p)' = ActiveMembers(p) /\ ActiveOwners(p)' = ActiveOwners(p)
    BY <1>2 DEF ActiveMembers, ActiveOwners, IsMember
  <2>2. ActiveOwners(o)' = IF role = "OWNER" THEN {u} ELSE ActiveOwners(o)
    BY <1>1, <1>2 DEF ActiveMembers, ActiveOwners, IsMember
  <2> QED
    BY <2>1, <2>2 DEF OwnerAlone
<1> QED
  BY <1>4, <1>5, <1>6, <1>7

\* The session's view of one user whose row in o is written.
LEMMA ViewOfRow ==
  ASSUME TablesTyped, NEW o \in Orgs, NEW u \in Users, NEW role, SetRow(o, u, Row(role))
  PROVE  \A v \in Users :
           RolesIn(rows', v) = IF v = u THEN [RolesIn(rows, v) EXCEPT ![o] = role]
                                        ELSE RolesIn(rows, v)
  BY DEF TablesTyped, SetRow, RolesIn, Row

\* A registration, the first or a later one, keeps the invariant.
LEMMA RegisterKeeps ==
  ASSUME AccountsInv, NEW u \in Users, Register(u)
  PROVE  AccountsInv'
<1> USE DEF AccountsInv
<1> DEFINE first == ActiveUsers = {}
           taken == IF first THEN OpenOrgs ELSE {}
           S == IF first THEN super \cup {u} ELSE super
           o == IF taken # {} THEN SmallestOf(taken) ELSE SmallestOf(FreeOrgs)
<1>1. /\ users[u] = "none" /\ taken \cup FreeOrgs # {}
      /\ orgs' = [orgs EXCEPT ![o] = "ACTIVE"]
      /\ SetRow(o, u, Row("OWNER"))
      /\ order' = [order EXCEPT ![u] = Append(@, o)]
      /\ ctx' = Context(u, o, RolesIn(rows', u), S)
      /\ users' = [users EXCEPT ![u] = "active"]
      /\ super' = S /\ screen' = "main"
  BY DEF Register
<1>2. o \in taken \/ o \in FreeOrgs
  <2>1. taken \in SUBSET Nat /\ FreeOrgs \in SUBSET Nat
    BY DEF OpenOrgs, FreeOrgs, Orgs
  <2> HIDE DEF taken
  <2>2. CASE taken # {}
    BY <2>1, <2>2, SmallestIsOne
  <2>3. CASE taken = {}
    BY <1>1, <2>1, <2>3, SmallestIsOne
  <2> QED
    BY <2>2, <2>3
<1>14. PICK p \in taken \cup FreeOrgs :
         /\ orgs' = [orgs EXCEPT ![p] = "ACTIVE"]
         /\ SetRow(p, u, Row("OWNER"))
         /\ order' = [order EXCEPT ![u] = Append(@, p)]
         /\ ctx' = Context(u, p, RolesIn(rows', u), S)
  BY <1>1, <1>2
<1> HIDE DEF o
<1>3. p \in Orgs /\ ActiveMembers(p) = {}
  <2>1. CASE p \in FreeOrgs
    BY <2>1 DEF FreeOrgs, MembersExist, ActiveMembers, IsMember, NoRow
  <2>2. CASE p \in taken
    BY <2>2 DEF OpenOrgs, MembersExist, ActiveMembers, ActiveUsers
  <2> QED
    BY <2>1, <2>2
<1> HIDE DEF taken, first
<1>4. rows[p][u] = NoRow /\ ~IsMember(p, u)
  BY <1>1, <1>3 DEF MembersExist, ActiveMembers
<1>5. /\ RolesIn(rows', u) \in [Orgs -> Roles \cup {"none"}]
      /\ RolesIn(rows', u)[p] = "OWNER"
  <2>1. RolesIn(rows, u) \in [Orgs -> Roles \cup {"none"}]
    BY RolesRead
  <2> QED
    BY <1>14, <1>3, <2>1, ViewOfRow, AccountsAssumption
<1>6. /\ ctx'.user = u /\ ctx'.org = p /\ ctx'.seen = RolesIn(rows', u)
      /\ ctx'.perms = PermissionsOf(u, p, RolesIn(rows', u), S)
  BY <1>14 DEF Context
<1>7. ctx' \in ContextRow
  BY <1>14, <1>3, <1>5, RightsTyped DEF Context, ContextRow
<1>8. u \in ActiveMembers(p)'
  <2>1. rows'[p][u] = Row("OWNER")
    BY <1>14, <1>3 DEF SetRow, TablesTyped
  <2> QED
    BY <2>1 DEF ActiveMembers, IsMember, Row
<1>9. users' \in [Users -> {"none", "active", "deleted"}] /\ users'[u] = "active"
  BY <1>1 DEF TablesTyped
<1>10. SessionTrue'
  <2>1. ctx'.user # NoUser
    BY <1>6, AccountsAssumption
  <2>2. \A q \in Orgs : ctx'.seen[q] \in {"none", RolesIn(rows, ctx.user)[q]'}
    BY <1>6
  <2>3. ctx'.perms = PermissionsOf(ctx.user, ctx.org, ctx.seen, super)'
    BY <1>1, <1>6
  <2>4. ctx'.seen = RolesIn(rows, ctx.user)' /\ users'[ctx'.user] = "active"
    BY <1>6, <1>9
  <2>5. ctx'.org \in Orgs /\ ActiveMembers(ctx.org)' # {}
    BY <1>3, <1>6, <1>8
  <2> QED
    BY <2>1, <2>2, <2>3, <2>4, <2>5 DEF SessionTrue
<1>11. super' \in {super, super \cup {u}}
  BY <1>1
<1>12. /\ orgs' \in [Orgs -> {"none", "ACTIVE", "DELETED"}] /\ orgs'[p] = "ACTIVE"
       /\ \A q \in Orgs \ {p} : orgs'[q] = orgs[q]
  BY <1>14, <1>3 DEF TablesTyped
<1>13. \A v \in Users \ {u} : users'[v] = users[v]
  BY <1>1 DEF TablesTyped
<1> QED
  BY <1>1, <1>14, <1>3, <1>4, <1>7, <1>9, <1>10, <1>11, <1>12, <1>13, RowArrives,
     AccountsAssumption

\* A member added or created keeps the invariant.
LEMMA NewMemberKeeps ==
  ASSUME AccountsInv, NEW o \in Orgs, NEW u \in Users, NEW role \in Roles \ {"OWNER"},
         AddExisting(o, u, role) \/ CreateUser(o, u, role)
  PROVE  AccountsInv'
<1> USE DEF AccountsInv
<1>1. /\ Inside /\ o = ctx.org
      /\ "member.add" \in ctx.perms \/ "member.create_user" \in ctx.perms
      /\ SetRow(o, u, Row(role)) /\ UNCHANGED <<super, orgs, ctx, screen>>
  BY DEF AddExisting, CreateUser, Require
<1>2. /\ ~IsMember(o, u)
      /\ order' = IF rows[o][u] = NoRow THEN [order EXCEPT ![u] = Append(@, o)] ELSE order
      /\ users' \in [Users -> {"none", "active", "deleted"}] /\ users'[u] = "active"
      /\ \A v \in Users \ {u} : users'[v] = users[v]
  <2>1. CASE AddExisting(o, u, role)
    BY <2>1 DEF AddExisting, TablesTyped
  <2>2. CASE CreateUser(o, u, role)
    <3>1. rows[o][u] = NoRow
      BY <2>2 DEF CreateUser, MembersExist
    <3>2. ~IsMember(o, u)
      BY <3>1 DEF IsMember, NoRow
    <3> QED
      BY <2>2, <3>1, <3>2 DEF CreateUser, TablesTyped
  <2> QED
    BY <2>1, <2>2
<1>3. me \in Users /\ users[me] = "active" /\ ctx.seen \in [Orgs -> Roles \cup {"none"}]
  BY <1>1, UserInside
<1>4. ActiveMembers(o) # {} /\ orgs[o] # "none"
  BY <1>1 DEF SessionTrue, MembersExist, ActiveMembers, IsMember, NoRow, me, Inside
<1>5. u = me => me \in super /\ ctx.seen[o] = "none"
  <2>1. ~IsMember(o, me) => ctx.seen[o] = "none"
    BY <1>1, UserInside
  <2>2. me \notin super /\ ctx.seen[o] = "none" => ctx.perms = {}
    BY <1>1, UserInside, RolesGrant
  <2> QED
    BY <1>1, <1>2, <2>1, <2>2
<1>6. ActiveMembers(o) \subseteq ActiveMembers(o)'
  BY <1>1, <1>2 DEF ActiveMembers, IsMember, SetRow, TablesTyped
<1>7. \A p \in Orgs : ctx.seen[p] \in {"none", RolesIn(rows', me)[p]}
  <2>1. \A p \in Orgs : ctx.seen[p] \in {"none", RolesIn(rows, me)[p]}
    BY <1>1, <1>3 DEF SessionTrue, me, Inside
  <2>2. RolesIn(rows, me) \in [Orgs -> Roles \cup {"none"}]
    BY <1>3, RolesRead
  <2>3. RolesIn(rows', me) = IF me = u THEN [RolesIn(rows, me) EXCEPT ![o] = role]
                                       ELSE RolesIn(rows, me)
    BY <1>1, <1>3, ViewOfRow
  <2> QED
    BY <1>5, <2>1, <2>2, <2>3
<1>8. me \notin super => ctx.seen = RolesIn(rows', me)
  <2>1. me \notin super => ctx.seen = RolesIn(rows, me)
    BY <1>1, <1>3 DEF SessionTrue, me, Inside
  <2> QED
    BY <1>1, <1>3, <1>5, <2>1, ViewOfRow
<1>9. SessionTrue'
  <2>1. users'[me] = "active"
    BY <1>2, <1>3
  <2>2. ctx.perms = PermissionsOf(ctx.user, ctx.org, ctx.seen, super) /\ ctx.user # NoUser
        /\ ctx.org \in Orgs
    BY <1>1 DEF SessionTrue, Inside
  <2> QED
    BY <1>1, <1>4, <1>6, <1>7, <1>8, <2>1, <2>2 DEF SessionTrue, me
<1> QED
  BY <1>1, <1>2, <1>4, <1>9, RowArrives DEF TablesTyped

\* The session moves over tables that stay.
LEMMA SessionMoves ==
  ASSUME AccountsInv, UNCHANGED <<users, super, rows, order>>,
         orgs' \in [Orgs -> {"none", "ACTIVE", "DELETED"}],
         \A o \in Orgs : orgs'[o] = "none" => orgs[o] = "none",
         ctx' \in ContextRow, screen' \in {"login", "main"}, SessionTrue'
  PROVE  AccountsInv'
<1> USE DEF AccountsInv
<1>1. TablesTyped'
  BY DEF TablesTyped
<1>2. RowsOrdered'
  BY OrderStays
<1>3. MembersExist'
  BY DEF MembersExist, IsMember
<1>4. OwnerAlone'
  BY DEF OwnerAlone, ActiveMembers, ActiveOwners, IsMember
<1> QED
  BY <1>1, <1>2, <1>3, <1>4

\* The context of nobody.
LEMMA NoContextTyped == NoContext \in ContextRow /\ NoContext.user = NoUser
  BY DEF NoContext, ContextRow

\* A login keeps the invariant, also over an archived organization.
LEMMA LoginKeepsAccounts ==
  ASSUME AccountsInv, NEW u \in Users, Login(u)
  PROVE  AccountsInv'
<1> USE DEF AccountsInv
<1>1. PICK o : /\ o = Oldest(u)
               /\ ctx' = Context(u, o, RolesIn(rows, u), super)
               /\ screen' = IF orgs[o] = "ACTIVE" THEN "main" ELSE "login"
  BY DEF Login
<1>2. /\ users[u] = "active" /\ Memberships(u) # {}
      /\ UNCHANGED <<users, super, orgs, rows, order>>
  BY DEF Login
<1>3. o \in Orgs /\ IsMember(o, u)
  <2> DEFINE places == {i \in DOMAIN order[u] : order[u][i] \in Memberships(u)}
  <2>1. order[u] \in Seq(Orgs) /\ {order[u][i] : i \in DOMAIN order[u]} = Linked(u)
    BY DEF TablesTyped, RowsOrdered
  <2>2. Memberships(u) \subseteq Linked(u)
    BY DEF Memberships, Linked, IsMember, NoRow
  <2>3. places # {} /\ places \in SUBSET Nat
    BY <1>2, <2>1, <2>2
  <2>4. SmallestOf(places) \in places
    BY <2>3, SmallestIsOne
  <2>5. o = order[u][SmallestOf(places)]
    BY <1>1 DEF Oldest
  <2> QED
    BY <2>4, <2>5 DEF Memberships
<1>4. RolesIn(rows, u) \in [Orgs -> Roles \cup {"none"}]
  BY RolesRead
<1>5. /\ ctx' \in ContextRow /\ ctx'.user = u /\ ctx'.org = o
      /\ ctx'.seen = RolesIn(rows, u)
      /\ ctx'.perms = PermissionsOf(u, o, RolesIn(rows, u), super)
  BY <1>1, <1>3, <1>4, RightsTyped DEF Context, ContextRow
<1>6. ActiveMembers(o)' # {}
  BY <1>2, <1>3 DEF ActiveMembers, IsMember
<1>7. SessionTrue'
  BY <1>2, <1>3, <1>5, <1>6, AccountsAssumption DEF SessionTrue
<1> QED
  BY <1>1, <1>2, <1>5, <1>7, SessionMoves DEF TablesTyped

\* The end of a session and of the program keep the invariant.
LEMMA LeaveKeeps == AccountsInv /\ (Logout \/ Restart) => AccountsInv'
<1> SUFFICES ASSUME AccountsInv, Logout \/ Restart PROVE AccountsInv'
  OBVIOUS
<1>1. /\ ctx' = NoContext /\ screen' = "login"
      /\ UNCHANGED <<users, super, orgs, rows, order>>
  BY DEF Logout, Restart
<1>2. ctx'.user = NoUser /\ ctx' \in ContextRow
  BY <1>1, NoContextTyped
<1>3. SessionTrue'
  BY <1>1, <1>2 DEF SessionTrue
<1> QED
  BY <1>1, <1>2, <1>3, SessionMoves DEF AccountsInv, TablesTyped

\* An account that goes leaves no organization without its owner.
LEMMA DeleteAccountKeeps == AccountsInv /\ DeleteAccount => AccountsInv'
<1> SUFFICES ASSUME AccountsInv, DeleteAccount PROVE AccountsInv'
  OBVIOUS
<1> USE DEF AccountsInv
<1>1. PICK u : /\ u = me /\ rows' = Removed(rows, u)
               /\ users' = [users EXCEPT ![u] = "deleted"] /\ super' = super \ {u}
               /\ \A o \in Orgs : IsMember(o, u) => ~HoldsOthers(o)
  BY DEF DeleteAccount
<1>2. Inside /\ ctx' = NoContext /\ screen' = "login" /\ UNCHANGED <<orgs, order>>
  BY DEF DeleteAccount
<1>3. u \in Users
  BY <1>1, <1>2, UserInside
<1>4. /\ rows' \in [Orgs -> [Users -> MemberRow]]
      /\ \A o \in Orgs, v \in Users :
           /\ v # u => rows'[o][v] = rows[o][v]
           /\ rows'[o][v] = NoRow <=> rows[o][v] = NoRow
      /\ \A o \in Orgs : rows'[o][u].status # "ACTIVE"
  <2>1. ASSUME NEW o \in Orgs
        PROVE  /\ rows'[o] \in [Users -> MemberRow]
               /\ \A v \in Users : v # u => rows'[o][v] = rows[o][v]
               /\ rows'[o][u] = NoRow <=> rows[o][u] = NoRow
               /\ rows'[o][u].status # "ACTIVE"
    <3>1. CASE rows[o][u].status = "ACTIVE"
      <4> DEFINE row == [rows[o][u] EXCEPT !.status = "ENDED"]
      <4>1. rows[o][u] \in [role : Roles, status : Statuses] /\ rows[o][u] # NoRow
        BY <1>3, <3>1 DEF TablesTyped, MemberRow, NoRow
      <4>2. row \in MemberRow /\ row.status = "ENDED" /\ row # NoRow
        BY <4>1 DEF MemberRow, Statuses, NoRow
      <4>3. rows'[o] = [rows[o] EXCEPT ![u] = row]
        BY <1>1, <3>1 DEF Removed
      <4>4. rows[o] \in [Users -> MemberRow]
        BY DEF TablesTyped
      <4> HIDE DEF row
      <4> QED
        BY <1>3, <4>1, <4>2, <4>3, <4>4
    <3>2. CASE rows[o][u].status # "ACTIVE"
      BY <1>1, <3>2 DEF Removed, TablesTyped
    <3> QED
      BY <3>1, <3>2
  <2>2. DOMAIN rows' = Orgs /\ rows' = [o \in Orgs |-> rows'[o]]
    BY <1>1 DEF Removed
  <2> QED
    BY <2>1, <2>2
<1>5. users' \in [Users -> {"none", "active", "deleted"}] /\ super' \subseteq Users
  BY <1>1 DEF TablesTyped
<1>6. TablesTyped'
  BY <1>2, <1>4, <1>5, NoContextTyped DEF TablesTyped
<1>7. RowsOrdered'
  BY <1>2, <1>4, OrderStays
<1>8. MembersExist'
  BY <1>1, <1>2, <1>3, <1>4 DEF MembersExist, IsMember, TablesTyped
<1>9. OwnerAlone'
  <2> SUFFICES ASSUME NEW o \in Orgs, NEW v \in ActiveMembers(o)'
               PROVE  \E w \in Users : ActiveOwners(o)' = {w}
    BY DEF OwnerAlone
  <2>1. v # u /\ v \in ActiveMembers(o) /\ v \in Users
    BY <1>4 DEF ActiveMembers, IsMember
  <2>2. PICK w \in Users : ActiveOwners(o) = {w}
    BY <2>1 DEF OwnerAlone
  <2>3. w # u
    <3>1. SUFFICES ASSUME w = u PROVE FALSE
      OBVIOUS
    <3>2. u \in ActiveMembers(o) /\ rows[o][u].role = "OWNER" /\ IsMember(o, u)
      BY <2>2, <3>1 DEF ActiveOwners, ActiveMembers
    <3>3. Cardinality(ActiveOwners(o)) = 1
      BY <2>2, FS_Singleton
    <3>4. ~(Cardinality(ActiveMembers(o)) > 1)
      BY <1>1, <3>2, <3>3 DEF HoldsOthers
    <3>5. IsFiniteSet(ActiveMembers(o)) /\ {u, v} \in SUBSET ActiveMembers(o)
      <4>1. ActiveMembers(o) \in SUBSET Users
        BY DEF ActiveMembers
      <4> QED
        BY <2>1, <3>2, <4>1, AccountsAssumption, FS_Subset
    <3>6. Cardinality({u, v}) = 2
      <4>1. IsFiniteSet({u}) /\ Cardinality({u}) = 1
        BY FS_Singleton
      <4>2. Cardinality({u} \cup {v}) = 2
        <5>1. v \notin {u}
          BY <2>1
        <5>2. Cardinality({u} \cup {v}) = Cardinality({u}) + 1
          BY <4>1, <5>1, FS_AddElement, Zenon
        <5> QED
          BY <4>1, <5>2
      <4>3. {u} \cup {v} = {u, v}
        OBVIOUS
      <4> QED
        BY <4>2, <4>3
    <3>7. Cardinality({u, v}) <= Cardinality(ActiveMembers(o))
      BY <3>5, FS_Subset
    <3>8. Cardinality(ActiveMembers(o)) \in Nat
      BY <3>5, FS_CardinalityType
    <3> QED
      BY <3>4, <3>6, <3>7, <3>8
  <2>4. ActiveOwners(o)' = {w}
    BY <1>4, <2>2, <2>3 DEF ActiveOwners, ActiveMembers, IsMember
  <2> QED
    BY <2>4
<1>10. SessionTrue'
  BY <1>2, NoContextTyped DEF SessionTrue
<1> QED
  BY <1>6, <1>7, <1>8, <1>9, <1>10

\* A new organization keeps the invariant: its maker owns it and may open it.
LEMMA NewOrganizationKeeps ==
  ASSUME AccountsInv, Inside, NEW entered \in BOOLEAN, NewOrganization(entered)
  PROVE  AccountsInv'
<1> USE DEF AccountsInv
<1>1. PICK o : /\ o = SmallestOf(FreeOrgs)
               /\ orgs' = [orgs EXCEPT ![o] = "ACTIVE"]
               /\ SetRow(o, me, Row("OWNER"))
               /\ order' = [order EXCEPT ![me] = Append(@, o)]
               /\ ctx' = IF entered THEN Opened([ctx EXCEPT !.seen[o] = "OWNER"], o)
                                 ELSE [ctx EXCEPT !.seen[o] = "OWNER"]
  BY DEF NewOrganization
<1>2. /\ FreeOrgs # {} /\ UNCHANGED <<users, super, screen>>
  BY DEF NewOrganization
<1>3. o \in Orgs /\ orgs[o] = "none"
  <2>1. FreeOrgs \in SUBSET Nat
    BY DEF FreeOrgs, Orgs
  <2>2. o \in FreeOrgs
    BY <1>1, <1>2, <2>1, SmallestIsOne
  <2> QED
    BY <2>2 DEF FreeOrgs
<1>4. PICK u \in Users : u = me /\ users[u] = "active"
  BY UserInside
<1>5. rows[o][u] = NoRow /\ ~IsMember(o, u) /\ ActiveMembers(o) = {}
  BY <1>3 DEF MembersExist, IsMember, NoRow, ActiveMembers
<1>6. /\ ctx \in ContextRow /\ ctx.user = u /\ ctx.org \in Orgs /\ ActiveMembers(ctx.org) # {}
      /\ u # NoUser
      /\ \A p \in Orgs : ctx.seen[p] \in {"none", RolesIn(rows, u)[p]}
      /\ u \notin super => ctx.seen = RolesIn(rows, u)
      /\ ctx.perms = PermissionsOf(u, ctx.org, ctx.seen, super)
  BY <1>4, AccountsAssumption DEF SessionTrue, TablesTyped, me
<1>7. ctx.org # o
  BY <1>5, <1>6
<1> DEFINE seen == [ctx.seen EXCEPT ![o] = "OWNER"]
<1>8. /\ seen \in [Orgs -> Roles \cup {"none"}] /\ seen[o] = "OWNER"
      /\ seen[ctx.org] = ctx.seen[ctx.org]
      /\ \A p \in Orgs \ {o} : seen[p] = ctx.seen[p]
  BY <1>3, <1>6, <1>7, AccountsAssumption DEF ContextRow
<1>9. PICK s : s = seen
  OBVIOUS
<1>10. /\ ctx'.user = u /\ ctx'.seen = s
       /\ \/ ctx'.org = o \/ ctx'.org = ctx.org
       /\ ctx'.perms = PermissionsOf(u, ctx'.org, s, super)
       /\ ctx' \in ContextRow
  <2> DEFINE c == [ctx EXCEPT !.seen[o] = "OWNER"]
  <2>1. /\ c \in ContextRow /\ c.user = u /\ c.org = ctx.org /\ c.seen = s
        /\ c.perms = ctx.perms
    BY <1>6, <1>8, <1>9 DEF ContextRow
  <2>2. PermissionsOf(u, ctx.org, s, super) = PermissionsOf(u, ctx.org, ctx.seen, super)
    BY <1>8, <1>9 DEF PermissionsOf
  <2>3. CASE ~entered
    BY <1>1, <1>6, <2>1, <2>2, <2>3
  <2>4. CASE entered
    <3>1. c.seen[o] # "none"
      BY <1>8, <1>9, <2>1
    <3>2. ctx' = Context(c.user, o, c.seen, super)
      BY <1>1, <2>4, <3>1 DEF Opened
    <3>3. ctx' = [user |-> u, org |-> o, seen |-> s, perms |-> PermissionsOf(u, o, s, super)]
      BY <2>1, <3>2 DEF Context
    <3>4. PermissionsOf(u, o, s, super) \in SUBSET Permissions
      BY <1>3, <1>8, <1>9, RightsTyped
    <3> QED
      BY <1>3, <1>8, <1>9, <3>3, <3>4 DEF ContextRow
  <2> QED
    BY <2>3, <2>4
<1> HIDE DEF seen
<1>11. RolesIn(rows', u) = [RolesIn(rows, u) EXCEPT ![o] = "OWNER"]
       /\ RolesIn(rows, u) \in [Orgs -> Roles \cup {"none"}]
  BY <1>1, <1>3, <1>4, ViewOfRow, RolesRead
<1>12. /\ \A p \in Orgs : s[p] \in {"none", RolesIn(rows', u)[p]}
       /\ u \notin super => s = RolesIn(rows', u)
  BY <1>3, <1>6, <1>8, <1>9, <1>11 DEF seen
<1>13. /\ rows'[o][u] = Row("OWNER")
       /\ \A p \in Orgs, v \in Users : p # o => rows'[p][v] = rows[p][v]
  BY <1>1, <1>3, <1>4 DEF SetRow, TablesTyped
<1>14. \A p \in {o, ctx.org} : {v \in Users : rows'[p][v].status = "ACTIVE"} # {}
  <2>1. u \in {v \in Users : rows'[o][v].status = "ACTIVE"}
    BY <1>13 DEF Row
  <2>2. {v \in Users : rows'[ctx.org][v].status = "ACTIVE"} = ActiveMembers(ctx.org)
    BY <1>6, <1>7, <1>13 DEF ActiveMembers, IsMember
  <2> QED
    BY <1>6, <2>1, <2>2
<1>15. ActiveMembers(ctx.org)' # {} /\ ctx'.org \in Orgs
  <2>1. ActiveMembers(ctx.org)' = {v \in Users : rows'[ctx'.org][v].status = "ACTIVE"}
    BY DEF ActiveMembers, IsMember
  <2> QED
    BY <1>3, <1>6, <1>10, <1>14, <2>1
<1>16. SessionTrue'
  <2>1. \A p \in Orgs : ctx'.seen[p] \in {"none", RolesIn(rows, ctx.user)[p]'}
    BY <1>10, <1>12
  <2>2. ctx'.user \notin super' => ctx'.seen = RolesIn(rows, ctx.user)'
    BY <1>2, <1>10, <1>12
  <2>3. ctx'.perms = PermissionsOf(ctx.user, ctx.org, ctx.seen, super)'
    BY <1>2, <1>10
  <2>4. users'[ctx'.user] = "active" /\ ctx'.user # NoUser
    BY <1>2, <1>4, <1>6, <1>10
  <2> QED
    BY <1>15, <2>1, <2>2, <2>3, <2>4 DEF SessionTrue
<1>17. /\ orgs' \in [Orgs -> {"none", "ACTIVE", "DELETED"}] /\ orgs'[o] = "ACTIVE"
       /\ \A q \in Orgs \ {o} : orgs'[q] = orgs[q]
  BY <1>1, <1>3 DEF TablesTyped
<1>18. /\ SetRow(o, u, Row("OWNER")) /\ "OWNER" \in Roles
       /\ order' = IF rows[o][u] = NoRow THEN [order EXCEPT ![u] = Append(@, o)] ELSE order
  BY <1>1, <1>4, <1>5, AccountsAssumption
<1>19. /\ users' \in [Users -> {"none", "active", "deleted"}] /\ users'[u] = "active"
       /\ \A v \in Users \ {u} : users'[v] = users[v]
       /\ super' = super /\ screen' \in {"login", "main"}
  BY <1>2, <1>4 DEF TablesTyped
<1> QED
  BY <1>3, <1>5, <1>10, <1>16, <1>17, <1>18, <1>19, RowArrives

\* An organization of the copy is opened, over tables that stay.
LEMMA OpenedKeeps ==
  ASSUME AccountsInv, Inside, NEW o \in Orgs, ctx' = Opened(ctx, o),
         UNCHANGED <<users, super, rows, order, screen>>,
         orgs' \in [Orgs -> {"none", "ACTIVE", "DELETED"}],
         \A p \in Orgs : orgs'[p] = "none" => orgs[p] = "none"
  PROVE  AccountsInv'
<1> USE DEF AccountsInv
<1>1. CASE ctx.seen[o] = "none"
  <2>1. ctx' = ctx
    BY <1>1 DEF Opened
  <2>2. SessionTrue'
    BY <2>1 DEF SessionTrue, ActiveMembers, IsMember
  <2> QED
    BY <2>1, <2>2, SessionMoves DEF TablesTyped
<1>2. CASE ctx.seen[o] # "none"
  <2>1. /\ me \in Users /\ users[me] = "active" /\ ctx.seen \in [Orgs -> Roles \cup {"none"}]
        /\ IsMember(o, me)
    BY <1>2, UserInside
  <2>2. ctx' = [user |-> me, org |-> o, seen |-> ctx.seen,
                perms |-> PermissionsOf(me, o, ctx.seen, super)]
    BY <1>2 DEF Opened, Context, me
  <2>3. PermissionsOf(me, o, ctx.seen, super) \in SUBSET Permissions
    BY <2>1, RightsTyped
  <2>4. ctx' \in ContextRow
    BY <2>1, <2>2, <2>3 DEF ContextRow
  <2>5. ActiveMembers(o)' # {}
    BY <2>1 DEF ActiveMembers, IsMember
  <2>6. SessionTrue'
    BY <2>1, <2>2, <2>5, AccountsAssumption DEF SessionTrue, me
  <2> QED
    BY <2>4, <2>6, SessionMoves DEF TablesTyped
<1> QED
  BY <1>1, <1>2

\* An archived organization keeps its members and the session one of its own.
LEMMA ArchiveKeeps ==
  ASSUME AccountsInv, NEW o \in Orgs, Archive(o)
  PROVE  AccountsInv'
<1>1. /\ Inside /\ orgs' = [orgs EXCEPT ![o] = "DELETED"]
      /\ UNCHANGED <<users, super, rows, order, screen>>
      /\ ctx' = ctx \/ \E p \in Linked(me) : ctx' = Opened(ctx, p)
  BY DEF Archive, RequireFor
<1>2. /\ orgs' \in [Orgs -> {"none", "ACTIVE", "DELETED"}]
      /\ \A p \in Orgs : orgs'[p] = "none" => orgs[p] = "none"
  BY <1>1 DEF AccountsInv, TablesTyped
<1>3. CASE ctx' = ctx
  <2>1. SessionTrue'
    BY <1>1, <1>3 DEF AccountsInv, SessionTrue, ActiveMembers, IsMember
  <2> QED
    BY <1>1, <1>2, <1>3, <2>1, SessionMoves DEF AccountsInv, TablesTyped
<1>4. CASE \E p \in Linked(me) : ctx' = Opened(ctx, p)
  BY <1>1, <1>2, <1>4, OpenedKeeps DEF Linked
<1> QED
  BY <1>1, <1>3, <1>4

\* Every operation on accounts, organizations and members keeps the invariant.
LEMMA AccountsStep == AccountsInv /\ AccountsNext => AccountsInv'
<1> SUFFICES ASSUME AccountsInv, AccountsNext PROVE AccountsInv'
  OBVIOUS
<1>1. ASSUME NEW entered \in BOOLEAN, Create(entered) PROVE AccountsInv'
  BY <1>1, NewOrganizationKeeps DEF Create
<1>2. ASSUME NEW o \in Orgs, Duplicate(o) PROVE AccountsInv'
  BY <1>2, NewOrganizationKeeps DEF Duplicate, RequireFor
<1>3. ASSUME NEW o \in Orgs, Activate(o) PROVE AccountsInv'
  BY <1>3, OpenedKeeps DEF Activate, AccountsInv, TablesTyped
<1> QED
  BY <1>1, <1>2, <1>3, RegisterKeeps, LoginKeepsAccounts, LeaveKeeps, DeleteAccountKeeps,
     NewMemberKeeps, MembersKeep, ArchiveKeeps
  DEF AccountsNext
\* No account exists on a new installation, so nothing is owned and nobody is in.
LEMMA AccountsBegins == AccountsInit => AccountsInv
<1> SUFFICES ASSUME AccountsInit PROVE AccountsInv
  OBVIOUS
<1>1. /\ users = [u \in Users |-> "none"] /\ super = {} /\ screen = "login"
      /\ orgs = [o \in Orgs |-> IF o = 1 THEN "ACTIVE" ELSE "none"]
      /\ rows = [o \in Orgs |-> [u \in Users |-> NoRow]]
      /\ order = [u \in Users |-> <<>>] /\ ctx = NoContext
  BY DEF AccountsInit
<1>2. \A o \in Orgs, u \in Users : rows[o][u] = NoRow /\ ~IsMember(o, u)
  BY <1>1 DEF IsMember, NoRow
<1>3. TablesTyped
  <2>1. \A u \in Users : order[u] \in Seq(Orgs)
    BY <1>1
  <2>2. order \in [Users -> Seq(Orgs)]
    BY <1>1, <2>1
  <2>3. rows \in [Orgs -> [Users -> MemberRow]]
    BY <1>1 DEF MemberRow
  <2> QED
    BY <1>1, <2>2, <2>3, NoContextTyped DEF TablesTyped
<1>4. RowsOrdered
  <2> SUFFICES ASSUME NEW u \in Users
               PROVE  /\ {order[u][i] : i \in DOMAIN order[u]} = Linked(u)
                      /\ Len(order[u]) = Cardinality(Linked(u))
    BY DEF RowsOrdered
  <2>1. order[u] = <<>> /\ Linked(u) = {}
    BY <1>1, <1>2 DEF Linked
  <2>2. Cardinality({}) = 0
    BY FS_EmptySet
  <2> QED
    BY <2>1, <2>2
<1>5. MembersExist /\ OwnerAlone
  BY <1>1, <1>2 DEF MembersExist, OwnerAlone, ActiveMembers
<1>6. SessionTrue
  BY <1>1, NoContextTyped DEF SessionTrue
<1> QED
  BY <1>3, <1>4, <1>5, <1>6 DEF AccountsInv

\* The session's copy grants what the table grants.
LEMMA RightsAreTrue == AccountsInv => ContextTrue
<1> SUFFICES ASSUME AccountsInv, ctx.user # NoUser
             PROVE  ctx.perms = PermissionsOf(ctx.user, ctx.org, RolesIn(rows, ctx.user), super)
  BY DEF ContextTrue
<1>1. /\ ctx.user \in Users /\ ctx.org \in Orgs
      /\ ctx.seen \in [Orgs -> Roles \cup {"none"}]
      /\ ctx.user \notin super => ctx.seen = RolesIn(rows, ctx.user)
      /\ ctx.perms = PermissionsOf(ctx.user, ctx.org, ctx.seen, super)
  BY DEF AccountsInv, TablesTyped, SessionTrue, ContextRow
<1>2. CASE ctx.user \notin super
  BY <1>1, <1>2
<1>3. CASE ctx.user \in super
  <2>1. RolesIn(rows, ctx.user) \in [Orgs -> Roles \cup {"none"}]
    BY <1>1, RolesRead DEF AccountsInv
  <2>2. \A seen \in [Orgs -> Roles \cup {"none"}] :
          PermissionsOf(ctx.user, ctx.org, seen, super) = Permissions
    BY <1>1, <1>3, RolesGrant DEF PermissionsOf
  <2> QED
    BY <1>1, <2>1, <2>2
<1> QED
  BY <1>2, <1>3

\* The tables are typed, with one owner to an organization, deleted accounts gone.
LEMMA TablesAreSound == AccountsInv => MembersSound
<1> SUFFICES ASSUME AccountsInv PROVE MembersSound
  OBVIOUS
<1> USE DEF AccountsInv
<1>1. AccountsTypeOK
  BY DEF TablesTyped, RowsOrdered, ContextRow, MemberRow, AccountsTypeOK
<1>2. OneOwner
  <2> SUFFICES ASSUME NEW o \in Orgs, ActiveMembers(o) # {}
               PROVE  /\ Cardinality(ActiveOwners(o)) = 1
                      /\ \A u \in ActiveOwners(o) : users[u] = "active"
    BY DEF OneOwner
  <2>1. PICK u \in Users : ActiveOwners(o) = {u}
    BY DEF OwnerAlone
  <2>2. Cardinality(ActiveOwners(o)) = 1
    BY <2>1, FS_Singleton
  <2> QED
    BY <2>2 DEF MembersExist, ActiveOwners, ActiveMembers
<1>3. DeletedIsGone
  BY AccountsAssumption DEF DeletedIsGone, MembersExist, SessionTrue
<1> QED
  BY <1>1, <1>2, <1>3 DEF MembersSound

\* A right over the members of the open organization is an owner's, an
\* administrator's or the installation administrator's.
LEMMA RightsGovern ==
  ASSUME AccountsInv, NEW o \in Orgs,
         NEW permission \in {"member.add", "member.create_user", "member.change_role",
                             "member.deactivate", "member.remove"},
         Require(o, permission)
  PROVE  Governs(me, o)
<1>1. Inside /\ o = ctx.org /\ permission \in ctx.perms
  BY DEF Require
<1>2. CASE me \notin super
  <2>1. /\ permission \in Grants(ctx.seen[o]) /\ ctx.seen[o] \in Roles \cup {"none"}
        /\ ctx.seen[o] # "none" => IsMember(o, me) /\ ctx.seen[o] = rows[o][me].role
    BY <1>1, <1>2, UserInside
  <2>2. ctx.seen[o] \in {"OWNER", "ADMIN"}
    BY <2>1, RolesGrant
  <2> QED
    BY <2>1, <2>2 DEF Governs
<1> QED
  BY <1>2 DEF Governs

\* A step on accounts takes hands off the rows of the others and off one's own.
LEMMA HandsStayOff ==
  ASSUME AccountsInv, AccountsNext, NEW o \in Orgs, NEW u \in Users
  PROVE  /\ rows'[o][u] # rows[o][u] /\ u \notin {ctx.user, ctx'.user} => Governs(ctx.user, o)
         /\ /\ Inside /\ u = ctx.user /\ u \notin super
            /\ Rank(rows'[o][u]) > Rank(rows[o][u])
            => orgs[o] = "none"
<1> DEFINE Others == rows'[o][u] # rows[o][u] /\ u \notin {ctx.user, ctx'.user}
                       => Governs(ctx.user, o)
           Own == /\ Inside /\ u = ctx.user /\ u \notin super
                  /\ Rank(rows'[o][u]) > Rank(rows[o][u])
                  => orgs[o] = "none"
<1>1. /\ rows \in [Orgs -> [Users -> MemberRow]]
      /\ \A p \in Orgs, v \in Users : Rank(rows[p][v]) \in 0 .. 4
  BY DEF AccountsInv, TablesTyped, Rank
<1>2. CASE rows'[o][u] = rows[o][u]
  <2>1. ~(Rank(rows'[o][u]) > Rank(rows[o][u]))
    BY <1>1, <1>2
  <2> QED
    BY <1>2, <2>1
<1>3. ASSUME rows'[o][u] # rows[o][u], NEW v \in Users, Register(v)
      PROVE  Others /\ Own
  <2>1. PICK p : SetRow(p, v, Row("OWNER")) /\ ctx' = Context(v, p, RolesIn(rows', v), super')
    BY <1>3 DEF Register
  <2>2. u = v /\ ctx'.user = v /\ ~Inside
    BY <1>1, <1>3, <2>1 DEF SetRow, Context, Register, Inside
  <2> QED
    BY <2>2
<1>4. ASSUME rows'[o][u] # rows[o][u], DeleteAccount
      PROVE  Others /\ Own
  <2>1. /\ rows' = Removed(rows, me) /\ Inside
    BY <1>4 DEF DeleteAccount
  <2>2. u = me
    BY <1>1, <1>4, <2>1 DEF Removed
  <2>3. rows[o][u].status = "ACTIVE" /\ rows'[o][u] = [rows[o][u] EXCEPT !.status = "ENDED"]
    BY <1>1, <1>4, <2>1, <2>2 DEF Removed
  <2>4. rows[o][u] \in [role : Roles, status : Statuses]
    BY <1>1, <2>3 DEF MemberRow, NoRow
  <2>5. rows'[o][u].status = "ENDED"
    BY <2>3, <2>4
  <2>6. Rank(rows'[o][u]) = 0
    BY <2>5 DEF Rank
  <2> QED
    BY <1>1, <2>2, <2>6 DEF me
<1>5. ASSUME rows'[o][u] # rows[o][u], NEW p \in Orgs, NEW v \in Users,
             NEW role \in Roles \ {"OWNER"},
             AddExisting(p, v, role) \/ CreateUser(p, v, role)
      PROVE  Others /\ Own
  <2>1. /\ SetRow(p, v, Row(role)) /\ Inside /\ Governs(me, p) /\ p = ctx.org
        /\ "member.add" \in ctx.perms \/ "member.create_user" \in ctx.perms
        /\ ~IsMember(p, v) \/ users[v] = "none"
    BY <1>5, RightsGovern DEF AddExisting, CreateUser, Require
  <2>2. o = p /\ u = v
    BY <1>1, <1>5, <2>1 DEF SetRow
  <2>3. u = me => me \in super
    <3>1. users[me] = "active"
      BY <2>1, UserInside
    <3> QED
      BY <2>1, <2>2, <3>1 DEF Governs
  <2> QED
    BY <2>1, <2>2, <2>3 DEF me
<1>6. ASSUME rows'[o][u] # rows[o][u], NEW p \in Orgs, NEW v \in Users,
             NEW role \in Roles, ChangeRole(p, v, role)
      PROVE  Others /\ Own
  <2>1. /\ SetRow(p, v, Row(role)) /\ Inside /\ Governs(me, p) /\ IsMember(p, v)
        /\ role = "OWNER" => rows[p][v].role = "OWNER"
        /\ ~(rows[p][me].role = "ADMIN" /\ role \in {"OWNER", "ADMIN"})
    BY <1>6, RightsGovern DEF ChangeRole, Require, MayChange
  <2>2. o = p /\ u = v /\ rows'[o][u] = Row(role)
    BY <1>1, <1>6, <2>1 DEF SetRow
  <2>3. ASSUME u = me, me \notin super
        PROVE  ~(Rank(rows'[o][u]) > Rank(rows[o][u]))
    <3>1. rows[o][u].status = "ACTIVE" /\ rows[o][u].role \in {"OWNER", "ADMIN"}
      BY <2>1, <2>2, <2>3 DEF IsMember, Governs
    <3>2. Row(role).status = "ACTIVE" /\ Row(role).role = role
      BY DEF Row
    <3>3. CASE rows[o][u].role = "OWNER"
      BY <2>2, <3>1, <3>2, <3>3 DEF Rank
    <3>4. CASE rows[o][u].role = "ADMIN"
      <4>1. role \notin {"OWNER", "ADMIN"}
        BY <2>1, <2>2, <2>3, <3>4
      <4>2. role \in {"EDITOR", "VIEWER"}
        BY <4>1, AccountsAssumption
      <4> QED
        BY <2>2, <3>1, <3>2, <3>4, <4>2 DEF Rank
    <3> QED
      BY <3>1, <3>3, <3>4
  <2> QED
    BY <2>1, <2>2, <2>3 DEF me
<1>7. ASSUME rows'[o][u] # rows[o][u], NEW p \in Orgs, NEW v \in Users,
             Deactivate(p, v) \/ Remove(p, v)
      PROVE  Others /\ Own
  <2>1. /\ SetRow(p, v, [rows[p][v] EXCEPT !.status = "ENDED"]) /\ Governs(me, p)
        /\ IsMember(p, v)
    BY <1>7, RightsGovern DEF Deactivate, Remove, Require, MayRemove
  <2>2. o = p /\ u = v /\ rows'[o][u] = [rows[p][v] EXCEPT !.status = "ENDED"]
    BY <1>1, <1>7, <2>1 DEF SetRow
  <2>3. rows[p][v] \in [role : Roles, status : Statuses]
    BY <1>1, <2>1 DEF MemberRow, NoRow, IsMember
  <2>4. rows'[o][u].status = "ENDED"
    BY <2>2, <2>3
  <2>5. Rank(rows'[o][u]) = 0
    BY <2>4 DEF Rank
  <2> QED
    BY <1>1, <2>1, <2>2, <2>5 DEF me
<1>8. ASSUME rows'[o][u] # rows[o][u], NEW p \in Orgs, NEW v \in Users,
             TransferOwnership(p, v)
      PROVE  Others /\ Own
  <2>1. /\ Inside /\ p = ctx.org /\ IsMember(p, me) /\ rows[p][me].role = "OWNER" /\ v # me
        /\ rows' = [rows EXCEPT ![p][v].role = "OWNER", ![p][me].role = "ADMIN"]
    BY <1>8 DEF TransferOwnership, Require
  <2>2. me \in Users /\ Governs(me, p)
    BY <2>1, UserInside DEF Governs
  <2>3. o = p
    BY <1>1, <1>8, <2>1, <2>2
  <2>4. rows[p][me].status = "ACTIVE"
    BY <2>1 DEF IsMember
  <2>5. Rank(rows[p][me]) = 4
    BY <2>1, <2>4 DEF Rank
  <2>6. rows[p][me] \in [role : Roles, status : Statuses]
    BY <1>1, <2>2, <2>4 DEF MemberRow, NoRow
  <2>7. rows'[p][me] = [rows[p][me] EXCEPT !.role = "ADMIN"]
    BY <1>1, <2>1, <2>2
  <2>8. rows'[p][me].status = "ACTIVE" /\ rows'[p][me].role = "ADMIN"
    BY <2>4, <2>6, <2>7
  <2>9. Rank(rows'[p][me]) = 3
    BY <2>8 DEF Rank
  <2> QED
    BY <2>2, <2>3, <2>5, <2>9 DEF me
<1>9. ASSUME rows'[o][u] # rows[o][u], Inside, NEW entered \in BOOLEAN, NewOrganization(entered)
      PROVE  Others /\ Own
  <2>1. PICK p : p = SmallestOf(FreeOrgs) /\ SetRow(p, me, Row("OWNER"))
    BY <1>9 DEF NewOrganization
  <2>2. FreeOrgs \in SUBSET Nat /\ FreeOrgs # {}
    BY <1>9 DEF FreeOrgs, Orgs, NewOrganization
  <2>3. orgs[p] = "none"
    BY <2>1, <2>2, SmallestIsOne DEF FreeOrgs
  <2>4. o = p /\ u = me
    BY <1>1, <1>9, <2>1 DEF SetRow
  <2> QED
    BY <2>3, <2>4 DEF me
<1>10. \/ UNCHANGED rows
       \/ \E v \in Users : Register(v)
       \/ DeleteAccount
       \/ \E p \in Orgs, v \in Users :
            \/ \E role \in Roles \ {"OWNER"} : AddExisting(p, v, role) \/ CreateUser(p, v, role)
            \/ \E role \in Roles : ChangeRole(p, v, role)
            \/ Deactivate(p, v) \/ Remove(p, v)
            \/ TransferOwnership(p, v)
       \/ Inside /\ \E entered \in BOOLEAN : NewOrganization(entered)
  BY DEF AccountsNext, Login, Logout, Restart, Create, Duplicate, RequireFor, Activate, Archive
<1> QED
  BY <1>2, <1>3, <1>4, <1>5, <1>6, <1>7, <1>8, <1>9, <1>10
-----------------------------------------------------------------------------
(* The parts together: each moves alone, so each keeps its invariant.      *)

\* A part that rests keeps its invariant.
LEMMA AccountsRest == AccountsInv /\ UNCHANGED accountsVars => AccountsInv'
<1> SUFFICES ASSUME AccountsInv, UNCHANGED accountsVars PROVE AccountsInv'
  OBVIOUS
<1>1. UNCHANGED <<users, super, orgs, rows, order, ctx, screen>>
  BY DEF accountsVars
<1>2. TablesTyped' /\ MembersExist'
  BY <1>1 DEF AccountsInv, TablesTyped, MembersExist, IsMember
<1>4. RowsOrdered'
  BY <1>1, OrderStays DEF AccountsInv
<1>5. OwnerAlone'
  BY <1>1 DEF AccountsInv, OwnerAlone, IsMember, ActiveMembers, ActiveOwners
<1>3. SessionTrue'
  BY <1>1 DEF AccountsInv, SessionTrue, ActiveMembers, IsMember
<1> QED
  BY <1>2, <1>3, <1>4, <1>5 DEF AccountsInv

\* The same for the destination and its secrets.
LEMMA TargetsRest == TargetsInv /\ UNCHANGED targetVars => TargetsInv'
<1> SUFFICES ASSUME TargetsInv, UNCHANGED targetVars PROVE TargetsInv'
  OBVIOUS
<1>1. UNCHANGED <<settings, targets, vault, issued, jobs, reads, saving, spilled>>
  BY DEF targetVars
<1>2. TargetsTypes' /\ JobsPlaced' /\ RefsIssued'
  BY <1>1 DEF TargetsInv, TargetsTypes, JobsPlaced, RefsIssued
<1>3. \A f \in Files, job \in {"upload", "delete"} : JobNeeds(f, job)' = JobNeeds(f, job)
  BY <1>1 DEF JobNeeds
<1>4. ActiveTargetUses(saving.old)' = ActiveTargetUses(saving.old)
  BY <1>1 DEF ActiveTargetUses
<1>5. SaveSound'
  BY <1>1, <1>3, <1>4 DEF TargetsInv, SaveSound
<1>6. OneDestination'
  <2>1. SameTarget(settings.target, settings, settings.ref)'
          = SameTarget(settings.target, settings, settings.ref)
    BY <1>1 DEF SameTarget
  <2> QED
    BY <1>1, <2>1 DEF TargetsInv, SecretsSound, OneDestination
<1>7. SecretsKept' /\ SecretsAccounted'
  BY <1>1, <1>3 DEF TargetsInv, SecretsSound, SecretsKept, SecretsAccounted
<1> QED
  BY <1>2, <1>5, <1>6, <1>7 DEF TargetsInv, SecretsSound

\* The same for the identities.
LEMMA IdentityRest == IdentityInv /\ UNCHANGED identityVars => IdentityInv'
  BY DEF identityVars, IdentityInv, IdentityTypes, ArrivingWasAuthored, IdentitySound,
     ShownWasAuthored, NoRelay, Bound

\* The same for the cloud accounts.
LEMMA CloudRest == CloudInv /\ UNCHANGED cloudAccountVars => CloudInv'
  BY DEF cloudAccountVars, CloudInv, CloudTypes, SelectedExists, WritersKnow, CachesKnown,
     SelectedIsOwn, TokensAccounted, Exists

\* The same for the other installations.
LEMMA PeersRest == PeersInv /\ UNCHANGED peerVars => PeersInv'
  BY DEF peerVars, PeersInv, PeersTypes, ChecksVouched, AddressesVouched

\* A password and its codes: no code works twice, guesses are few, and no session
\* outlives a recovery.
THEOREM RecoveryKept == Spec => []RecoverySound
<1>1. Init => RecoveryInv
  BY RecoveryBegins DEF Init
<1>2. RecoveryInv /\ [Next]_administrationVars => RecoveryInv'
  <2> SUFFICES ASSUME RecoveryInv, [Next]_administrationVars PROVE RecoveryInv'
    OBVIOUS
  <2>1. RecoveryNext \/ UNCHANGED recoveryVars
    BY DEF Next, Moves, administrationVars
  <2>2. CASE UNCHANGED recoveryVars
    BY <2>2 DEF recoveryVars, RecoveryInv, RecoveryTypes, CodesWorkOnce, BatchesToCome,
       CounterTrue, OldSessionsEnd, SessionsBegun
  <2> QED
    BY <2>1, <2>2, RecoveryStep
<1>3. RecoveryInv => RecoverySound
  BY GuessesCounted DEF RecoverySound, RecoveryInv
<1> QED
  BY <1>1, <1>2, <1>3, PTL DEF Spec

\* The destination of the transport and its secrets: one destination, no secret that
\* is needed dropped, none left that nobody knows of.
THEOREM SecretsStaySound == Spec => []SecretsSound
<1>1. Init => TargetsInv
  BY TargetsBegin DEF Init
<1>2. TargetsInv /\ [Next]_administrationVars => TargetsInv'
  <2> SUFFICES ASSUME TargetsInv, [Next]_administrationVars PROVE TargetsInv'
    OBVIOUS
  <2>1. TargetsNext \/ UNCHANGED targetVars
    BY DEF Next, Moves, administrationVars
  <2> QED
    BY <2>1, TargetsStep, TargetsRest
<1>3. TargetsInv => SecretsSound
  BY DEF TargetsInv
<1> QED
  BY <1>1, <1>2, <1>3, PTL DEF Spec

\* Identities, cloud accounts and addresses keep the origin they were believed for.
THEOREM OriginsKept == Spec => []OriginsSound
<1> DEFINE Inv == IdentityInv /\ CloudInv /\ PeersInv
<1>1. Init => Inv
  BY IdentityBegin, CloudBegins, PeersBegin DEF Init
<1>2. Inv /\ [Next]_administrationVars => Inv'
  <2> SUFFICES ASSUME IdentityInv, CloudInv, PeersInv, [Next]_administrationVars
               PROVE  IdentityInv' /\ CloudInv' /\ PeersInv'
    OBVIOUS
  <2>1. /\ IdentityNext \/ UNCHANGED identityVars
        /\ CloudAccountsNext \/ UNCHANGED cloudAccountVars
        /\ PeersNext \/ UNCHANGED peerVars
    BY DEF Next, Moves, administrationVars
  <2>2. IdentityInv'
    BY <2>1, IdentityStep, IdentityRest
  <2>3. CloudInv'
    BY <2>1, CloudStep, CloudRest
  <2>4. PeersInv'
    BY <2>1, PeersStep, PeersRest
  <2> QED
    BY <2>2, <2>3, <2>4
<1>3. Inv => OriginsSound
  BY CloudImplies DEF IdentityInv, PeersInv, PeersSound, OriginsSound
<1> HIDE DEF Inv
<1> QED
  BY <1>1, <1>2, <1>3, PTL DEF Spec

\* The tables of accounts, members and sessions keep their invariant.
LEMMA AccountsKept == Spec => []AccountsInv
<1>1. Init => AccountsInv
  BY AccountsBegins DEF Init
<1>2. AccountsInv /\ [Next]_administrationVars => AccountsInv'
  <2> SUFFICES ASSUME AccountsInv, [Next]_administrationVars PROVE AccountsInv'
    OBVIOUS
  <2>1. AccountsNext \/ UNCHANGED accountsVars
    BY DEF Next, Moves, administrationVars
  <2> QED
    BY <2>1, AccountsStep, AccountsRest
<1> QED
  BY <1>1, <1>2, PTL DEF Spec

\* An organization with members has one owner, through every sequence of changes.
THEOREM MembersKept == Spec => []MembersSound
  BY AccountsKept, TablesAreSound, PTL

\* The rights of the session are those the table of members grants.
THEOREM ContextKept == Spec => []ContextTrue
  BY AccountsKept, RightsAreTrue, PTL

\* Only owners and administrators change the membership of others, and nobody
\* raises himself.
THEOREM HandsKept == Spec => HandsOff
<1>1. AccountsInv /\ [Next]_administrationVars =>
        [\A o \in Orgs, u \in Users :
           /\ rows'[o][u] # rows[o][u] /\ u \notin {ctx.user, ctx'.user} => Governs(ctx.user, o)
           /\ /\ Inside /\ u = ctx.user /\ u \notin super
              /\ Rank(rows'[o][u]) > Rank(rows[o][u])
              => orgs[o] = "none"]_accountsVars
  <2>1. Next => AccountsNext \/ UNCHANGED accountsVars
    BY DEF Next, Moves
  <2>2. UNCHANGED administrationVars => UNCHANGED accountsVars
    BY DEF administrationVars
  <2> QED
    BY <2>1, <2>2, HandsStayOff
<1> QED
  BY <1>1, AccountsKept, PTL DEF Spec, HandsOff
=============================================================================
