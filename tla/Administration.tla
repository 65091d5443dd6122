----------------------------- MODULE Administration -----------------------------
(***************************************************************************)
(* What the users administer: accounts and organizations, the destination  *)
(* of the transport and its secrets, the password and its codes, the       *)
(* institutional identity, the cloud accounts and the other installations. *)
(*                                                                         *)
(* Each part keeps tables, secrets and threads of its own and none of them *)
(* writes another's, so a behaviour moves one of them, any one, and the    *)
(* others stay as they begin.                                              *)
(***************************************************************************)
EXTENDS Accounts, TransportTargets, PasswordRecovery, OrganizationIdentity,
        CloudAccounts, PeerRegistry

VARIABLE part  \* the part that moves

Parts == {"accounts", "transport", "password", "identity", "clouds", "peers"}

administrationVars ==
  <<part, accountsVars, targetVars, recoveryVars, identityVars, cloudAccountVars,
    peerVars>>

Init ==
  /\ part \in Parts
  /\ AccountsInit /\ TargetsInit /\ RecoveryInit /\ IdentityInit
  /\ CloudAccountsInit /\ PeersInit

\* One part moves; the variables of the others are in rest.
Moves(p, action, rest) == part = p /\ action /\ UNCHANGED <<part, rest>>

Next ==
  \/ Moves("accounts", AccountsNext,
       <<targetVars, recoveryVars, identityVars, cloudAccountVars, peerVars>>)
  \/ Moves("transport", TargetsNext,
       <<accountsVars, recoveryVars, identityVars, cloudAccountVars, peerVars>>)
  \/ Moves("password", RecoveryNext,
       <<accountsVars, targetVars, identityVars, cloudAccountVars, peerVars>>)
  \/ Moves("identity", IdentityNext,
       <<accountsVars, targetVars, recoveryVars, cloudAccountVars, peerVars>>)
  \/ Moves("clouds", CloudAccountsNext,
       <<accountsVars, targetVars, recoveryVars, identityVars, peerVars>>)
  \/ Moves("peers", PeersNext,
       <<accountsVars, targetVars, recoveryVars, identityVars, cloudAccountVars>>)

Spec == Init /\ [][Next]_administrationVars
-----------------------------------------------------------------------------
(***************************************************************************)
(* The sources others are believed by: a cloud account's tokens, an        *)
(* identity's authority and an installation's address are what the user or *)
(* the other side has vouched for, whichever thread wrote them last.       *)
(***************************************************************************)
OriginsSound == IdentitySound /\ CloudAccountsSound /\ PeersSound
=============================================================================
