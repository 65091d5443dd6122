----------------------------- MODULE CloudAccounts -----------------------------
(***************************************************************************)
(* CloudManager and the stores beside it: which account an organization    *)
(* uses, the accounts' rows, the tokens in the vault of the operating      *)
(* system and the cache of the provider's library.                         *)
(*                                                                         *)
(* Rows, settings, tokens and caches are four places written one after the *)
(* other, on the interface's thread when accounts come and go, and on any  *)
(* worker that finds a token expired and renews it.  The file that takes   *)
(* the place of the vault where there is none is left out.                 *)
(***************************************************************************)
EXTENDS Naturals, FiniteSets

CONSTANTS
  CloudOrgs,    \* organizations
  People,       \* identities at the providers
  MaxAccounts,  \* rows of cloud_accounts ever made, a bound
  MaxRenewals,  \* tokens that expire, a bound
  Nobody        \* no identity and no organization

ASSUME CloudAccountsAssumption ==
  /\ MaxAccounts \in Nat /\ MaxRenewals \in Nat /\ Nobody \notin People \cup CloudOrgs

VARIABLES
  accounts,  \* the rows of cloud_accounts, by their number
  selected,  \* organization -> its row of cloud_settings
  tokens,    \* the tokens in the vault: account -> whose they are
  cache,     \* organization -> identity in the OneDrive library's cache
  made,      \* accounts made so far
  login,     \* what save_authentication_result has left to do
  removal,   \* what remove_account has left to do
  renewal,   \* the renewal a worker is in
  expiries,  \* tokens that have expired so far
  strays     \* tokens and caches left behind (history)

cloudAccountVars == <<accounts, selected, tokens, cache, made, login, removal,
                      renewal, expiries, strays>>

Numbers == 1 .. MaxAccounts
Providers == {"ONEDRIVE", "GOOGLE_DRIVE"}
NoAccount == 0
NoRecord == [org |-> Nobody]
Resting == [at |-> "idle"]
Exists(n) == accounts[n] # NoRecord
LocalMode == [mode |-> "LOCAL", account |-> NoAccount]

CloudAccountsInit ==
  /\ accounts = [n \in Numbers |-> NoRecord]
  /\ selected = [o \in CloudOrgs |-> LocalMode]
  /\ tokens = [n \in Numbers |-> Nobody]
  /\ cache = [o \in CloudOrgs |-> Nobody]
  /\ made = 0 /\ expiries = 0 /\ strays = {}
  /\ login = Resting /\ removal = Resting /\ renewal = Resting

\* The interface's thread does one thing at a time.
Free == login = Resting /\ removal = Resting

-----------------------------------------------------------------------------
\* Mutant: the account in use is renewed whoever has signed in.
KeepsAnyone(o, provider, who) ==
  /\ selected[o].account # NoAccount
  /\ accounts[selected[o].account].provider = provider

\* The account in use is renewed when the same identity signs in to it again.
KeepsAccount(o, provider, who) ==
  /\ selected[o].account # NoAccount
  /\ accounts[selected[o].account].provider = provider
  /\ accounts[selected[o].account].who = who

(***************************************************************************)
(* authenticate and save_authentication_result up to the vault.  OneDrive's *)
(* library answers with the identity in its cache, if there is one.        *)
(***************************************************************************)
Authenticate(o, provider, who) ==
  /\ Free
  /\ provider = "ONEDRIVE" => cache[o] \in {Nobody, who}
  /\ cache' = IF provider = "ONEDRIVE" THEN [cache EXCEPT ![o] = who] ELSE cache
  /\ LET again == KeepsAccount(o, provider, who)
         n == IF again THEN selected[o].account ELSE made + 1
     IN  /\ n \in Numbers
         /\ made' = IF again THEN made ELSE n
         /\ tokens' = [tokens EXCEPT ![n] = who]
         /\ \E renewable \in IF provider = "ONEDRIVE" THEN {FALSE} ELSE BOOLEAN :
              login' =
                [at |-> "row", account |-> n,
                 record |-> [org |-> o, provider |-> provider, status |-> "ACTIVE",
                             who |-> IF again THEN accounts[n].who ELSE who,
                             expired |-> FALSE, renewable |-> renewable]]
  /\ UNCHANGED <<accounts, selected, removal, renewal, expiries, strays>>

\* _save_account or _replace_authentication.
SaveAccount ==
  /\ login.at = "row"
  /\ accounts' = [accounts EXCEPT ![login.account] = login.record]
  /\ login' = [login EXCEPT !.at = "settings"]
  /\ UNCHANGED <<selected, tokens, cache, made, removal, renewal, expiries, strays>>

\* configure, with the account of the login.
UseAccount ==
  /\ login.at = "settings"
  /\ selected' = [selected EXCEPT ![login.record.org] =
       [mode |-> login.record.provider, account |-> login.account]]
  /\ login' = Resting
  /\ UNCHANGED <<accounts, tokens, cache, made, removal, renewal, expiries, strays>>

\* configure to LOCAL: the row of the account, its tokens and cache stay.
WorkLocally(o) ==
  /\ Free /\ selected[o] # LocalMode
  /\ selected' = [selected EXCEPT ![o] = LocalMode]
  /\ UNCHANGED <<accounts, tokens, cache, made, login, removal, renewal, expiries,
                 strays>>

-----------------------------------------------------------------------------
(* remove_account: the rows, then the tokens, then the cache *)

DropAccount(o) ==
  /\ Free
  /\ LET n == selected[o].account
     IN  /\ n # NoAccount
         /\ removal' = [at |-> "tokens", account |-> n, org |-> o,
                        provider |-> accounts[n].provider]
         /\ accounts' = [accounts EXCEPT ![n] = NoRecord]
  /\ selected' = [selected EXCEPT ![o] = LocalMode]
  /\ UNCHANGED <<tokens, cache, made, login, renewal, expiries, strays>>

DropTokens ==
  /\ removal.at = "tokens" /\ removal' = [removal EXCEPT !.at = "cache"]
  /\ tokens' = [tokens EXCEPT ![removal.account] = Nobody]
  /\ UNCHANGED <<accounts, selected, cache, made, login, renewal, expiries, strays>>

DropCache ==
  /\ removal.at = "cache" /\ removal' = Resting
  /\ cache' = IF removal.provider = "ONEDRIVE"
              THEN [cache EXCEPT ![removal.org] = Nobody] ELSE cache
  /\ strays' = IF removal.provider = "ONEDRIVE"
               THEN strays \ {<<"cache", removal.org>>} ELSE strays
  /\ UNCHANGED <<accounts, selected, tokens, made, login, renewal, expiries>>

-----------------------------------------------------------------------------
(* _provider_for and provider_for_account, on a worker *)

ExpireTokens(n) ==
  /\ Exists(n) /\ ~accounts[n].expired
  /\ expiries < MaxRenewals /\ expiries' = expiries + 1
  /\ accounts' = [accounts EXCEPT ![n].expired = TRUE]
  /\ UNCHANGED <<selected, tokens, cache, made, login, removal, renewal, strays>>

\* The row and the cache are read, and the provider is asked.
AskRenewal(n) ==
  /\ renewal = Resting
  /\ Exists(n) /\ accounts[n].expired
  /\ renewal' = [at |-> "asks", account |-> n, record |-> accounts[n],
                 cached |-> cache[accounts[n].org]]
  /\ UNCHANGED <<accounts, selected, tokens, cache, made, login, removal, expiries,
                 strays>>

\* A refresh token renews, or the library's cache of the same identity does.
MayRenew ==
  \/ renewal.record.renewable
  \/ renewal.record.provider = "ONEDRIVE" /\ renewal.cached = renewal.record.who

RenewTokens ==
  /\ renewal.at = "asks" /\ MayRenew
  /\ LET n == renewal.account
         o == renewal.record.org
         silent == ~renewal.record.renewable
     IN  /\ tokens' = [tokens EXCEPT ![n] = renewal.record.who]
         /\ cache' = IF silent THEN [cache EXCEPT ![o] = renewal.cached] ELSE cache
         /\ strays' = strays
              \cup (IF Exists(n) THEN {} ELSE {<<"tokens", n>>})
              \cup (IF silent /\ cache[o] # renewal.cached THEN {<<"cache", o>>} ELSE {})
         /\ renewal' = [renewal EXCEPT !.at = "row"]
  /\ UNCHANGED <<accounts, selected, made, login, removal, expiries>>

\* _update_tokens; nothing when the row is gone.
SaveRenewal ==
  /\ renewal.at = "row" /\ renewal' = Resting
  /\ LET n == renewal.account
     IN accounts' = IF Exists(n)
          THEN [accounts EXCEPT ![n].expired = FALSE, ![n].status = "ACTIVE"]
          ELSE accounts
  /\ UNCHANGED <<selected, tokens, cache, made, login, removal, expiries, strays>>

\* The provider refuses, and the row says so; or it is just not there.
RefuseRenewal ==
  /\ renewal.at = "asks" /\ renewal' = Resting
  /\ LET n == renewal.account
     IN accounts' \in {accounts,
          IF Exists(n) THEN [accounts EXCEPT ![n].status = "REAUTH_REQUIRED"]
                       ELSE accounts}
  /\ UNCHANGED <<selected, tokens, cache, made, login, removal, expiries, strays>>

\* The program ends between two places.
DieInAccounts ==
  /\ ~(Free /\ renewal = Resting)
  /\ login' = Resting /\ removal' = Resting /\ renewal' = Resting
  /\ strays' = strays
       \cup (IF login.at = "row" /\ ~Exists(login.account)
             THEN {<<"tokens", login.account>>, <<"cache", login.record.org>>} ELSE {})
       \cup (IF removal.at = "tokens" THEN {<<"tokens", removal.account>>} ELSE {})
       \cup (IF removal # Resting THEN {<<"cache", removal.org>>} ELSE {})
  /\ UNCHANGED <<accounts, selected, tokens, cache, made, expiries>>

CloudAccountsNext ==
  \/ \E o \in CloudOrgs :
       \/ \E provider \in Providers, who \in People : Authenticate(o, provider, who)
       \/ WorkLocally(o) \/ DropAccount(o)
  \/ SaveAccount \/ UseAccount \/ DropTokens \/ DropCache
  \/ \E n \in Numbers : ExpireTokens(n) \/ AskRenewal(n)
  \/ RenewTokens \/ SaveRenewal \/ RefuseRenewal \/ DieInAccounts

-----------------------------------------------------------------------------
(***************************************************************************)
(* An organization in cloud mode uses a row of its own, at that provider.  *)
(***************************************************************************)
SelectedIsOwn ==
  \A o \in CloudOrgs :
    LET n == selected[o].account
    IN IF n = NoAccount THEN selected[o] = LocalMode
       ELSE accounts[n].org = o /\ accounts[n].provider = selected[o].mode

(***************************************************************************)
(* The tokens of an account are in the vault and are its identity's, and   *)
(* the vault holds no others, but for those a login or a removal has yet   *)
(* to deal with, or that were left behind by a crash or a late renewal.    *)
(***************************************************************************)
TokensAccounted ==
  \A n \in Numbers :
    /\ Exists(n) => tokens[n] = accounts[n].who
    /\ tokens[n] # Nobody =>
         \/ Exists(n) \/ <<"tokens", n>> \in strays
         \/ login.at = "row" /\ login.account = n
         \/ removal.at = "tokens" /\ removal.account = n

(***************************************************************************)
(* A cache belongs to an organization with an account of that identity, or *)
(* it was left behind as well.                                             *)
(***************************************************************************)
CachesAccounted ==
  \A o \in CloudOrgs : cache[o] # Nobody =>
    \/ \E n \in Numbers : Exists(n) /\ accounts[n].org = o /\ accounts[n].who = cache[o]
    \/ login # Resting \/ removal # Resting \/ <<"cache", o>> \in strays

CloudAccountsSound == SelectedIsOwn /\ TokensAccounted /\ CachesAccounted
=============================================================================
