-------------------------- MODULE OrganizationIdentity --------------------------
(***************************************************************************)
(* The institutional identity of an organization on several installations: *)
(* OrganizationIdentityService and the dialog and timer that drive it.     *)
(* An installation writes its own identity, or is bound to a source and    *)
(* copies what the source writes.                                          *)
(*                                                                         *)
(* Copies are made by threads, the timer's and the dialog's, that compare  *)
(* and write later what they asked for earlier; the dialog of a new source *)
(* stays open, meanwhile, over the package it fetched.  Every installation *)
(* authorizes every other one.                                             *)
(***************************************************************************)
EXTENDS Naturals, FiniteSets

CONSTANTS
  Sites,     \* installations
  MaxEdits,  \* identities written by an administrator, a bound
  MaxBinds,  \* times a source is proposed, a bound
  NoSite     \* nobody

ASSUME IdentityAssumption ==
  /\ MaxEdits \in Nat /\ MaxBinds \in Nat /\ NoSite \notin Sites

VARIABLES
  identity,  \* installation -> the identity it shows
  source,    \* installation -> the binding to its source
  copying,   \* installation -> its thread that synchronizes
  proposed,  \* installation -> the package of a source to be confirmed
  edits,     \* identities written so far: a content is known by its number
  binds,     \* sources proposed so far
  authored   \* identities written by an administrator (history)

identityVars == <<identity, source, copying, proposed, edits, binds, authored>>

\* What an installation shows before anybody writes: revision 0, no authority.
Blank(i) == [org |-> i, authority |-> NoSite, revision |-> 0, content |-> 0]
NoSource == [site |-> NoSite, org |-> NoSite]
Quiet == [at |-> "idle"]
NoPackage == [site |-> NoSite]
Bound(i) == source[i] # NoSource

IdentityInit ==
  /\ identity = [i \in Sites |-> Blank(i)]
  /\ source = [i \in Sites |-> NoSource]
  /\ copying = [i \in Sites |-> Quiet]
  /\ proposed = [i \in Sites |-> NoPackage]
  /\ edits = 0 /\ binds = 0 /\ authored = {}

(***************************************************************************)
(* save, with detach_source before it when there is a source: one          *)
(* transaction of the dialog.                                              *)
(***************************************************************************)
SaveIdentity(i) ==
  /\ proposed[i] = NoPackage
  /\ edits < MaxEdits /\ edits' = edits + 1
  /\ LET new == [org |-> identity[i].org, authority |-> i,
                 revision |-> identity[i].revision + 1, content |-> edits']
     IN  /\ identity' = [identity EXCEPT ![i] = new]
         /\ authored' = authored \cup {new}
  /\ source' = [source EXCEPT ![i] = NoSource]
  /\ UNCHANGED <<copying, proposed, binds>>

\* Mutant: whatever the source shows is taken, its own identity or a copy.
AnyPackage(i, p) == p.revision >= 1

\* _validate_package: only the authority itself hands an identity on.
ValidPackage(i, p) == p.authority = i /\ p.revision >= 1

(***************************************************************************)
(* The dialog asks the source for its package, shows it and waits.         *)
(***************************************************************************)
ProposeSource(i, s) ==
  /\ s # i /\ source[i].site # s /\ proposed[i] = NoPackage
  /\ binds < MaxBinds /\ binds' = binds + 1
  /\ ValidPackage(s, identity[s])
  /\ proposed' = [proposed EXCEPT ![i] = [site |-> s, package |-> identity[s]]]
  /\ UNCHANGED <<identity, source, copying, edits, authored>>

\* The answer: bind_source, or nothing.
AnswerProposal(i) ==
  /\ proposed[i] # NoPackage
  /\ \/ LET p == proposed[i].package
        IN  /\ identity' = [identity EXCEPT ![i] = p]
            /\ source' = [source EXCEPT ![i] = [site |-> proposed[i].site, org |-> p.org]]
     \/ UNCHANGED <<identity, source>>
  /\ proposed' = [proposed EXCEPT ![i] = NoPackage]
  /\ UNCHANGED <<copying, edits, binds, authored>>

(***************************************************************************)
(* synchronize, in its thread: the binding is read and the package asked   *)
(* for; the package is compared with what is shown by then; it is written. *)
(***************************************************************************)
AskSource(i) ==
  /\ copying[i] = Quiet /\ Bound(i)
  /\ LET s == source[i].site
         p == identity[s]
     IN copying' = [copying EXCEPT ![i] =
          IF ValidPackage(s, p) /\ p.org = source[i].org
          THEN [at |-> "compares", package |-> p] ELSE Quiet]
  /\ UNCHANGED <<identity, source, proposed, edits, binds, authored>>

\* An older revision, or the same one with another content, is refused.
CompareRevisions(i) ==
  /\ copying[i].at = "compares"
  /\ copying' = [copying EXCEPT ![i] =
       IF copying[i].package.revision > identity[i].revision
       THEN [copying[i] EXCEPT !.at = "writes"] ELSE Quiet]
  /\ UNCHANGED <<identity, source, proposed, edits, binds, authored>>

WriteIdentity(i) ==
  /\ copying[i].at = "writes"
  /\ identity' = [identity EXCEPT ![i] = copying[i].package]
  /\ copying' = [copying EXCEPT ![i] = Quiet]
  /\ UNCHANGED <<source, proposed, edits, binds, authored>>

\* The source does not answer, the session is another one, the program ends.
AbandonCopy(i) ==
  /\ copying[i] # Quiet /\ copying' = [copying EXCEPT ![i] = Quiet]
  /\ UNCHANGED <<identity, source, proposed, edits, binds, authored>>

IdentityNext ==
  \E i \in Sites :
    \/ SaveIdentity(i) \/ AnswerProposal(i)
    \/ \E s \in Sites : ProposeSource(i, s)
    \/ AskSource(i) \/ CompareRevisions(i) \/ WriteIdentity(i) \/ AbandonCopy(i)

-----------------------------------------------------------------------------
(***************************************************************************)
(* What an installation shows was written by an administrator of the       *)
(* installation it names, and while bound it shows nothing of its own.     *)
(***************************************************************************)
ShownWasAuthored ==
  \A i \in Sites :
    /\ identity[i] \in authored \cup {Blank(i)}
    /\ Bound(i) => identity[i].authority \notin {i, NoSite}

NoRelay ==
  \A i \in Sites : source[i].site # NoSite =>
    \E p \in authored : p.authority = source[i].site /\ p.org = source[i].org

IdentitySound == ShownWasAuthored /\ NoRelay
=============================================================================
