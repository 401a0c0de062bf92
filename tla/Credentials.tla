----------------------------- MODULE Credentials -----------------------------
(***************************************************************************)
(* The password and the second factor of one account.  A request of        *)
(* mfa.service.ts or of changePassword reads the row of the user, decides  *)
(* on what it has read, and writes by id in a later query, whatever has    *)
(* become of the row.                                                      *)
(*                                                                         *)
(* TOTP secrets are numbered in the order in which they are generated, and *)
(* passwords in the order in which they are chosen; 0 is the null of the   *)
(* database.  A code is named by the secret it was computed from.  A       *)
(* request that is refused changes nothing and is not a step.              *)
(***************************************************************************)
EXTENDS Naturals

CONSTANTS
  Handlers,      \* requests in flight
  Keys,          \* values of MFA_ENCRYPTION_KEY
  MaxSecrets,    \* bound: secrets generated
  MaxPasswords,  \* bound: passwords chosen
  MaxRestarts    \* bound: restarts of the backend

ASSUME CredentialsAssumption ==
  /\ MaxSecrets \in Nat
  /\ MaxPasswords \in Nat \ {0}
  /\ MaxRestarts \in Nat

VARIABLES
  user,       \* the row: mfaEnabled, mfaSecret with its key, password
  key,        \* encryptionKey of the running process
  secrets,    \* secrets generated so far
  passwords,  \* passwords chosen so far
  shown,      \* secrets the person has in an authenticator
  restarts,
  phase,      \* the query that a handler performs next
  saw,        \* the row as the handler read it
  value       \* what it is about to write, or the code it was given

vars == <<user, key, secrets, passwords, shown, restarts, phase, saw, value>>

Rows == [mfaEnabled : BOOLEAN, mfaSecret : 0..MaxSecrets, sealedBy : Keys,
         password : 0..MaxPasswords]
Phases == {"idle", "store", "show", "enable", "disable", "change"}

\* A sealed secret opens only with the key it was sealed with (GCM), so a
\* process that was started with another key reads null.
DecryptSecret(u) == IF u.sealedBy = key THEN u.mfaSecret ELSE 0

\* mfa.service.ts, verifyLoginTotp.
VerifyLoginTotp(u, code) ==
  u.mfaEnabled => code # 0 /\ code = DecryptSecret(u)

\* The account of a fresh user: with a password, or without one if it came
\* by OAuth.
Init ==
  /\ key \in Keys
  /\ user \in {u \in Rows : /\ ~u.mfaEnabled /\ u.mfaSecret = 0
                            /\ u.sealedBy = key /\ u.password \in {0, 1}}
  /\ secrets = 0
  /\ passwords = 1
  /\ shown = {}
  /\ restarts = 0
  /\ phase = [h \in Handlers |-> "idle"]
  /\ saw = [h \in Handlers |-> user]
  /\ value = [h \in Handlers |-> 0]

\* The reading of the row, with checks that have passed.
Begin(h, next, v) ==
  /\ phase[h] = "idle"
  /\ phase' = [phase EXCEPT ![h] = next]
  /\ saw' = [saw EXCEPT ![h] = user]
  /\ value' = [value EXCEPT ![h] = v]
  /\ UNCHANGED <<user, key, shown, restarts>>

\* What remains after the write is the audit entry, which nothing here reads.
Finish(h) ==
  /\ phase' = [phase EXCEPT ![h] = "idle"]
  /\ value' = [value EXCEPT ![h] = 0]
  /\ UNCHANGED <<key, secrets, passwords, restarts, saw>>

----------------------------------------------------------------------------
(* POST /auth/mfa/setup                                                    *)

\* Seeded defect: a setup that is pending is handed out once more.
AskSetupAgain(h) ==
  /\ ~user.mfaEnabled
  /\ secrets < MaxSecrets
  /\ secrets' = secrets + 1
  /\ Begin(h, "store", IF user.mfaSecret # 0 THEN user.mfaSecret ELSE secrets + 1)
  /\ UNCHANGED passwords

AskSetup(h) ==
  /\ ~user.mfaEnabled
  /\ secrets < MaxSecrets
  /\ secrets' = secrets + 1
  /\ Begin(h, "store", secrets + 1)
  /\ UNCHANGED passwords

\* One update for the new secret and for mfaEnabled = false.
StoreSecret(h) ==
  /\ phase[h] = "store"
  /\ user' = [user EXCEPT !.mfaSecret = value[h], !.sealedBy = key,
                          !.mfaEnabled = FALSE]
  /\ phase' = [phase EXCEPT ![h] = "show"]
  /\ UNCHANGED <<key, secrets, passwords, shown, restarts, saw, value>>

ShowSecret(h) ==
  /\ phase[h] = "show"
  /\ shown' = shown \union {value[h]}
  /\ Finish(h)
  /\ UNCHANGED user

----------------------------------------------------------------------------
(* POST /auth/mfa/confirm and /auth/mfa/disable, with a code               *)

\* Seeded defect: any code that an authenticator shows will do.
AnyCodeAccepted(code) == code \in shown /\ DecryptSecret(user) # 0

\* verifyCode, for a code that is named by its secret.
CodeAccepted(code) == code \in shown /\ code = DecryptSecret(user)

AskConfirm(h) ==
  \E code \in shown :
    /\ ~user.mfaEnabled
    /\ CodeAccepted(code)
    /\ Begin(h, "enable", code)
    /\ UNCHANGED <<secrets, passwords>>

Enable(h) ==
  /\ phase[h] = "enable"
  /\ user' = [user EXCEPT !.mfaEnabled = TRUE]
  /\ Finish(h)
  /\ UNCHANGED shown

AskDisable(h) ==
  \E code \in shown :
    /\ user.mfaEnabled
    /\ user.password # 0
    /\ CodeAccepted(code)
    /\ Begin(h, "disable", code)
    /\ UNCHANGED <<secrets, passwords>>

Disable(h) ==
  /\ phase[h] = "disable"
  /\ user' = [user EXCEPT !.mfaEnabled = FALSE, !.mfaSecret = 0]
  /\ Finish(h)
  /\ UNCHANGED shown

----------------------------------------------------------------------------
(* POST /auth/password, by somebody who has proved the old one             *)

AskPassword(h) ==
  /\ user.password # 0
  /\ passwords < MaxPasswords
  /\ passwords' = passwords + 1
  /\ Begin(h, "change", passwords + 1)
  /\ UNCHANGED secrets

\* Seeded defect: the write puts back the row that was read.
StoreWholeRow(h) ==
  /\ phase[h] = "change"
  /\ user' = [saw[h] EXCEPT !.password = value[h]]
  /\ Finish(h)
  /\ UNCHANGED shown

StorePassword(h) ==
  /\ phase[h] = "change"
  /\ user' = [user EXCEPT !.password = value[h]]
  /\ Finish(h)
  /\ UNCHANGED shown

----------------------------------------------------------------------------
(* What goes wrong: a call that is rejected, and a restart, which may come *)
(* with another key and takes all requests with it.                        *)

Rejected(h) ==
  /\ phase[h] # "idle"
  /\ Finish(h)
  /\ UNCHANGED <<user, shown>>

Restart ==
  /\ restarts < MaxRestarts
  /\ restarts' = restarts + 1
  /\ key' \in Keys
  /\ phase' = [h \in Handlers |-> "idle"]
  /\ value' = [h \in Handlers |-> 0]
  /\ UNCHANGED <<user, secrets, passwords, shown, saw>>

Next ==
  \/ \E h \in Handlers :
       \/ AskSetup(h) \/ StoreSecret(h) \/ ShowSecret(h)
       \/ AskConfirm(h) \/ Enable(h)
       \/ AskDisable(h) \/ Disable(h)
       \/ AskPassword(h) \/ StorePassword(h)
       \/ Rejected(h)
  \/ Restart

Spec == Init /\ [][Next]_vars

----------------------------------------------------------------------------
(* Properties                                                              *)

\* The type invariant; a secret that a setup is about to store is new to the
\* person and to every other setup, and a code that is acted on was shown.
TypeOK ==
  /\ user \in Rows
  /\ key \in Keys
  /\ secrets \in 0..MaxSecrets
  /\ passwords \in 1..MaxPasswords
  /\ shown \subseteq 1..secrets
  /\ restarts \in 0..MaxRestarts
  /\ phase \in [Handlers -> Phases]
  /\ saw \in [Handlers -> Rows]
  /\ value \in [Handlers -> Nat]
  /\ \A h \in Handlers :
       /\ phase[h] \in {"store", "show"} =>
            /\ value[h] \in 1..secrets \ shown
            /\ \A i \in Handlers \ {h} :
                 phase[i] \in {"store", "show"} => value[i] # value[h]
       /\ phase[h] \in {"enable", "disable"} => value[h] \in shown
       /\ phase[h] = "change" => value[h] \in 1..passwords

\* The handler read a second factor that is no longer the one of the row.
Stale(h) ==
  \/ saw[h].mfaEnabled # user.mfaEnabled
  \/ saw[h].mfaSecret # user.mfaSecret
  \/ saw[h].sealedBy # user.sealedBy

Steps(h) == phase'[h] # phase[h]

\* No code the person can make opens the account.
LockedOut == \A code \in shown \union {0} : ~VerifyLoginTotp(user, code)

\* A person who can pass the second factor loses that only by a restart with
\* another key, or by the write of a request that read another state of the
\* second factor: a setup, confirm or disable on its own, whichever of its
\* calls fails or answer is lost, never locks its account (mfa.service.ts
\* 89-180: the secret is proved before it is switched on).
OnlyStaleLocksOut ==
  [][~LockedOut /\ LockedOut' =>
       key' # key \/ \E h \in Handlers : Steps(h) /\ Stale(h)]_vars

\* Once the second factor is on it goes off only by a disable that was given
\* a code of the secret it takes away, or by a setup or disable that is out of
\* date, and its secret changes in no other way (mfa.service.ts 92-97,
\* 162-173): neither a restart nor a request about the password, which writes
\* the same row, touches it.
FactorIsKept ==
  [][user.mfaEnabled /\ user' # [user EXCEPT !.password = user'.password] =>
       \E h \in Handlers :
         /\ Steps(h)
         /\ phase[h] \in {"store", "disable"}
         /\ Stale(h) \/ (phase[h] = "disable" /\ value[h] = user.mfaSecret)]_vars
=============================================================================
