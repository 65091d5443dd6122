---------------------------- MODULE PasswordRecovery ----------------------------
(***************************************************************************)
(* The password of one account, the codes that replace a forgotten one and *)
(* the lock both ways of entering share: AuthService, PasswordRecovery-    *)
(* Service and SessionService, on the interface's thread.                  *)
(*                                                                         *)
(* The codes of a batch are stored one by one, each in its transaction, so *)
(* the program may end, or the database refuse, in the middle of them.     *)
(***************************************************************************)
EXTENDS Naturals, FiniteSets

CONSTANTS
  CodeCount,     \* CODE_COUNT: codes in a batch
  MaxFailures,   \* failures that lock the account
  MaxPasswords,  \* passwords the account has in turn, a bound
  MaxBatches,    \* batches of codes, a bound
  MaxSessions    \* sessions begun, a bound

ASSUME RecoveryAssumption ==
  /\ {CodeCount, MaxFailures, MaxPasswords, MaxBatches, MaxSessions} \subseteq Nat \ {0}

VARIABLES
  password,   \* the password, by its number
  batch,      \* the last batch of codes made, 0 before the first
  codes,      \* codes stored and not used
  expired,    \* batches whose year is over: all those up to this one
  failures,   \* failed_login_attempts
  locked,     \* locked_until is to come
  session,    \* the session that is in, or 0
  open,       \* rows of sessions that are not revoked
  begun,      \* sessions begun so far
  tries,      \* failures since the account was last free of them (history)
  redeemed,   \* codes that have given a new password, with how often (history)
  recovered   \* sessions begun when a code last gave a new password (history)

recoveryVars == <<password, batch, codes, expired, failures, locked, session,
                  open, begun, tries, redeemed, recovered>>

Codes == (1 .. MaxBatches) \X (1 .. CodeCount)
Active == {c \in codes : c[1] > expired}
Out == session = 0

RecoveryInit ==
  /\ password = 1 /\ batch = 0 /\ codes = {} /\ expired = 0
  /\ failures = 0 /\ locked = FALSE
  /\ session = 0 /\ open = {} /\ begun = 0
  /\ tries = 0 /\ redeemed = [c \in Codes |-> 0] /\ recovered = 0

\* Mutant: the codes of the earlier batch are left as they are.
GenerateMore(in) ==
  /\ batch < MaxBatches /\ batch' = batch + 1
  /\ \E made \in 0 .. CodeCount :
       /\ codes' = codes \cup ({batch'} \X (1 .. made))
       /\ session' \in IF made = CodeCount THEN {in} ELSE {in, 0}

(***************************************************************************)
(* generate_codes.  The earlier codes are used up first.  A batch cut      *)
(* short is nobody's: the codes are shown when the last one is stored.     *)
(***************************************************************************)
GenerateCodes(in) ==
  /\ batch < MaxBatches /\ batch' = batch + 1
  /\ \E made \in 0 .. CodeCount :
       /\ codes' = {batch'} \X (1 .. made)
       /\ session' \in IF made = CodeCount THEN {in} ELSE {in, 0}

\* The failure login and reset_password_with_recovery_code write alike.
Fail ==
  /\ failures' = (failures + 1) % MaxFailures
  /\ locked' = (failures + 1 = MaxFailures)
  /\ tries' = tries + 1

Forgive == failures' = 0 /\ locked' = FALSE /\ tries' = 0

(***************************************************************************)
(* login, with the password p, and ensure_recovery_codes after it.         *)
(***************************************************************************)
SignIn(p) ==
  /\ Out /\ ~locked
  /\ IF p = password
     THEN /\ begun < MaxSessions /\ begun' = begun + 1
          /\ open' = open \cup {begun'}
          /\ Forgive
          /\ IF Active # {} THEN session' = begun' /\ UNCHANGED <<batch, codes>>
                            ELSE GenerateCodes(begun')
     ELSE /\ Fail
          /\ UNCHANGED <<session, open, begun, batch, codes>>
  /\ UNCHANGED <<password, expired, redeemed, recovered>>

SignOut ==
  /\ ~Out /\ session' = 0 /\ open' = open \ {session}
  /\ UNCHANGED <<password, batch, codes, expired, failures, locked, begun, tries,
                 redeemed, recovered>>

\* The program ends: the row of the session stays as it is.
EndProgram ==
  /\ ~Out /\ session' = 0
  /\ UNCHANGED <<password, batch, codes, expired, failures, locked, open, begun,
                 tries, redeemed, recovered>>

ChangePassword ==
  /\ ~Out /\ password < MaxPasswords /\ password' = password + 1
  /\ UNCHANGED <<batch, codes, expired, failures, locked, session, open, begun,
                 tries, redeemed, recovered>>

RegenerateCodes ==
  /\ ~Out /\ GenerateCodes(session)
  /\ UNCHANGED <<password, expired, failures, locked, open, begun, tries, redeemed,
                 recovered>>

(***************************************************************************)
(* reset_password_with_recovery_code, with any code ever made or another   *)
(* one; verify_and_consume and what follows it are one transaction.        *)
(***************************************************************************)
ResetPassword(c) ==
  /\ Out /\ ~locked
  /\ IF c \in Active
     THEN /\ password < MaxPasswords /\ password' = password + 1
          /\ codes' = codes \ {c}
          /\ Forgive
          /\ open' = {}
          /\ redeemed' = [redeemed EXCEPT ![c] = @ + 1]
          /\ recovered' = begun
     ELSE Fail /\ UNCHANGED <<password, codes, open, redeemed, recovered>>
  /\ UNCHANGED <<batch, expired, session, begun>>

\* Fifteen minutes pass, or a year.
Unlock ==
  /\ locked /\ locked' = FALSE /\ tries' = 0
  /\ UNCHANGED <<password, batch, codes, expired, failures, session, open, begun,
                 redeemed, recovered>>

Expire ==
  /\ expired < batch /\ expired' = expired + 1
  /\ UNCHANGED <<password, batch, codes, failures, locked, session, open, begun,
                 tries, redeemed, recovered>>

RecoveryNext ==
  \/ \E p \in 0 .. MaxPasswords : SignIn(p)
  \/ \E c \in Codes \cup {<<0, 0>>} : ResetPassword(c)
  \/ SignOut \/ EndProgram \/ ChangePassword \/ RegenerateCodes
  \/ Unlock \/ Expire

-----------------------------------------------------------------------------
(***************************************************************************)
(* A code gives a new password once, and a code of an earlier batch none:  *)
(* neither a batch cut short nor the end of a batch's year brings one back. *)
(***************************************************************************)
CodesWorkOnce ==
  /\ \A c \in codes : c[1] = batch /\ redeemed[c] = 0
  /\ \A c \in Codes : redeemed[c] <= 1

(***************************************************************************)
(* Whoever guesses, passwords, codes or both in any order, has MaxFailures *)
(* tries before the account is locked.                                     *)
(***************************************************************************)
GuessesAreFew ==
  /\ tries <= MaxFailures
  /\ tries = MaxFailures => locked

(***************************************************************************)
(* A password given by a code leaves no session begun before it.           *)
(***************************************************************************)
OldSessionsEnd ==
  /\ \A s \in open : s > recovered
  /\ session # 0 => session \in open

RecoverySound == CodesWorkOnce /\ GuessesAreFew /\ OldSessionsEnd
=============================================================================
