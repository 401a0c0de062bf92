-------------------------- MODULE CredentialsProofs --------------------------
(***************************************************************************)
(* Theorems about Credentials, for every set of requests and of keys and   *)
(* any number of secrets, passwords and restarts.                          *)
(***************************************************************************)
EXTENDS Credentials, TLAPS

-----------------------------------------------------------------------------
(* Type correctness                                                        *)

\* What the value of a handler is in each phase.
ValueAt(h) ==
  /\ phase[h] \in {"store", "show"} =>
       /\ value[h] \in 1..secrets \ shown
       /\ \A i \in Handlers \ {h} :
            phase[i] \in {"store", "show"} => value[i] # value[h]
  /\ phase[h] \in {"enable", "disable"} => value[h] \in shown
  /\ phase[h] = "change" => value[h] \in 1..passwords

\* A request that only reads the row.
LEMMA BeginTyped ==
  ASSUME TypeOK, NEW h \in Handlers, NEW p \in Phases, NEW v \in Nat,
         Begin(h, p, v),
         secrets' \in secrets..MaxSecrets, passwords' \in passwords..MaxPasswords,
         p \in {"store", "show"} => v = secrets + 1 /\ secrets' = secrets + 1,
         p \in {"enable", "disable"} => v \in shown,
         p = "change" => v \in 1..passwords'
  PROVE  TypeOK'
<1> USE CredentialsAssumption
<1>1. /\ user' \in Rows /\ key' \in Keys /\ secrets' \in 0..MaxSecrets
      /\ passwords' \in 1..MaxPasswords /\ shown' \subseteq 1..secrets'
      /\ restarts' \in 0..MaxRestarts /\ phase' \in [Handlers -> Phases]
      /\ saw' \in [Handlers -> Rows] /\ value' \in [Handlers -> Nat]
  BY DEF TypeOK, Begin
<1>2. \A i \in Handlers : ValueAt(i)
  BY DEF TypeOK, ValueAt
<1>3. /\ phase'[h] = p /\ value'[h] = v /\ shown' = shown
      /\ \A i \in Handlers \ {h} : phase'[i] = phase[i] /\ value'[i] = value[i]
  BY DEF TypeOK, Begin
<1>4. secrets \in Nat /\ passwords \in Nat /\ secrets' \in Nat /\ passwords' \in Nat
      /\ secrets <= secrets' /\ passwords <= passwords' /\ shown \subseteq 1..secrets
  BY DEF TypeOK
<1>5. ASSUME NEW i \in Handlers PROVE ValueAt(i)'
  <2>1. CASE i = h
    <3>1. p \in {"store", "show"} =>
            /\ v \in 1..secrets' \ shown
            /\ \A j \in Handlers \ {h} : phase[j] \in {"store", "show"} => value[j] # v
      BY <1>2, <1>4 DEF ValueAt
    <3>2. QED
      BY <1>3, <2>1, <3>1 DEF ValueAt
  <2>2. CASE i # h
    <3>1. value[i] \in 1..secrets => value[i] \in 1..secrets' /\ value[i] # secrets + 1
      BY <1>4
    <3>2. value[i] \in 1..passwords => value[i] \in 1..passwords'
      BY <1>4
    <3>3. QED
      BY <1>2, <1>3, <2>2, <3>1, <3>2 DEF ValueAt
  <2>3. QED
    BY <2>1, <2>2
<1>6. QED
  BY <1>1, <1>5 DEF TypeOK, ValueAt

\* A request that ends.
LEMMA FinishTyped ==
  ASSUME TypeOK, NEW h \in Handlers, Finish(h), user' \in Rows,
         shown' = shown \/ (phase[h] = "show" /\ shown' = shown \union {value[h]})
  PROVE  TypeOK'
<1>1. phase' \in [Handlers -> Phases] /\ value' \in [Handlers -> Nat]
  BY DEF TypeOK, Finish, Phases
<1>2. \A i \in Handlers : ValueAt(i)
  BY DEF TypeOK, ValueAt
<1>3. /\ phase'[h] = "idle"
      /\ \A i \in Handlers \ {h} : phase'[i] = phase[i] /\ value'[i] = value[i]
      /\ UNCHANGED <<secrets, passwords>>
  BY DEF TypeOK, Finish
<1>4. shown' \subseteq 1..secrets
  BY <1>2 DEF TypeOK, ValueAt
<1>5. ASSUME NEW i \in Handlers PROVE ValueAt(i)'
  BY <1>2, <1>3 DEF ValueAt
<1>6. QED
  BY <1>1, <1>4, <1>5 DEF TypeOK, ValueAt, Finish

\* Every variable keeps its type; a secret that a setup is about to store is
\* new to the person and to every other setup, and a code that is acted on was
\* shown.
THEOREM CredentialsTypeCorrect == Spec => []TypeOK
<1> USE CredentialsAssumption
<1>1. Init => TypeOK
  BY DEF Init, TypeOK, Rows, Phases
<1>2. TypeOK /\ [Next]_vars => TypeOK'
  <2> SUFFICES ASSUME TypeOK, [Next]_vars PROVE TypeOK'
    OBVIOUS
  <2>0. secrets \in Nat /\ passwords \in Nat /\ shown \subseteq Nat
        /\ secrets <= MaxSecrets /\ passwords <= MaxPasswords
    BY DEF TypeOK
  <2>1. ASSUME NEW h \in Handlers, AskSetup(h) PROVE TypeOK'
    <3>1. "store" \in Phases /\ secrets + 1 \in Nat /\ Begin(h, "store", secrets + 1)
      BY <2>0, <2>1 DEF AskSetup, Phases
    <3>2. secrets' = secrets + 1 /\ secrets' \in secrets..MaxSecrets
          /\ passwords' \in passwords..MaxPasswords
      BY <2>0, <2>1 DEF AskSetup
    <3>3. QED
      BY <3>1, <3>2, BeginTyped
  <2>2. ASSUME NEW h \in Handlers, StoreSecret(h) PROVE TypeOK'
    <3>1. value[h] \in 0..MaxSecrets
      BY <2>0, <2>2 DEF TypeOK, StoreSecret
    <3>2. user' \in Rows
      BY <2>2, <3>1 DEF StoreSecret, TypeOK, Rows
    <3>3. QED
      BY <2>2, <3>2 DEF StoreSecret, TypeOK, Phases
  <2>3. ASSUME NEW h \in Handlers, ShowSecret(h) PROVE TypeOK'
    BY <2>3, FinishTyped DEF ShowSecret, TypeOK
  <2>4. ASSUME NEW h \in Handlers, AskConfirm(h) \/ AskDisable(h) PROVE TypeOK'
    <3>1. PICK p \in {"enable", "disable"}, code \in shown :
            Begin(h, p, code) /\ UNCHANGED <<secrets, passwords>>
      BY <2>4 DEF AskConfirm, AskDisable
    <3>2. p \in Phases /\ code \in Nat /\ secrets' \in secrets..MaxSecrets
          /\ passwords' \in passwords..MaxPasswords
      BY <2>0, <3>1 DEF Phases
    <3>3. QED
      BY <3>1, <3>2, BeginTyped
  <2>5. ASSUME NEW h \in Handlers, Enable(h) \/ Disable(h) PROVE TypeOK'
    <3>1. user' \in Rows
      <4>1. CASE Enable(h)
        BY <4>1 DEF Enable, TypeOK, Rows
      <4>2. CASE Disable(h)
        <5>1. user' = [mfaEnabled |-> FALSE, mfaSecret |-> 0,
                       sealedBy |-> user.sealedBy, password |-> user.password]
          BY <4>2 DEF Disable, TypeOK, Rows
        <5>2. 0 \in 0..MaxSecrets /\ FALSE \in BOOLEAN
          OBVIOUS
        <5>3. QED
          BY <5>1, <5>2 DEF TypeOK, Rows
      <4>3. QED
        BY <2>5, <4>1, <4>2
    <3>2. QED
      BY <2>5, <3>1, FinishTyped DEF Enable, Disable
  <2>6. ASSUME NEW h \in Handlers, AskPassword(h) PROVE TypeOK'
    <3>1. Begin(h, "change", passwords + 1)
      BY <2>6 DEF AskPassword
    <3>2. secrets' \in secrets..MaxSecrets /\ passwords' \in passwords..MaxPasswords
          /\ passwords' = passwords + 1 /\ passwords + 1 \in Nat /\ "change" \in Phases
          /\ passwords + 1 \in 1..passwords'
      BY <2>0, <2>6, <3>1 DEF AskPassword, Phases
    <3>3. QED
      BY <3>1, <3>2, BeginTyped
  <2>7. ASSUME NEW h \in Handlers, StorePassword(h) PROVE TypeOK'
    <3>1. value[h] \in 0..MaxPasswords
      BY <2>0, <2>7 DEF StorePassword, TypeOK
    <3>2. user' \in Rows
      BY <2>7, <3>1 DEF StorePassword, TypeOK, Rows
    <3>3. QED
      BY <2>7, <3>2, FinishTyped DEF StorePassword
  <2>8. ASSUME NEW h \in Handlers, Rejected(h) PROVE TypeOK'
    BY <2>8, FinishTyped DEF Rejected, TypeOK
  <2>9. CASE Restart
    BY <2>9 DEF Restart, TypeOK, Phases
  <2>10. CASE UNCHANGED vars
    BY <2>10 DEF vars, TypeOK
  <2>11. QED
    BY <2>1, <2>2, <2>3, <2>4, <2>5, <2>6, <2>7, <2>8, <2>9, <2>10 DEF Next
<1>3. QED
  BY <1>1, <1>2, PTL DEF Spec

-----------------------------------------------------------------------------
(* What a request has read still tells it what to write                    *)

\* A setup and a confirm read an account without a second factor, a disable one
\* with it; the code of the latter two is the secret they read, sealed with the
\* key of this process.
ReadingAt(h) ==
  /\ phase[h] \in {"store", "show", "enable"} => ~saw[h].mfaEnabled
  /\ phase[h] = "disable" => saw[h].mfaEnabled
  /\ phase[h] \in {"enable", "disable"} =>
       /\ value[h] # 0
       /\ saw[h].mfaSecret = value[h] /\ saw[h].sealedBy = key

ReadingHolds == \A h \in Handlers : ReadingAt(h)

\* Nothing that a request goes by changes after it has begun.
LEMMA ReadingInvariant ==
  TypeOK /\ ReadingHolds /\ [Next]_vars => ReadingHolds'
<1> SUFFICES ASSUME TypeOK, ReadingHolds, [Next]_vars, NEW i \in Handlers
             PROVE  ReadingAt(i)'
  BY DEF ReadingHolds
<1>0. ReadingAt(i)
  BY DEF ReadingHolds
<1>1. ASSUME NEW h \in Handlers, NEW p, NEW v, Begin(h, p, v),
             p \in {"store", "show", "enable"} => ~user.mfaEnabled,
             p = "disable" => user.mfaEnabled,
             p \in {"enable", "disable"} => v \in shown /\ v = DecryptSecret(user)
      PROVE  ReadingAt(i)'
  <2>1. /\ phase'[h] = p /\ saw'[h] = user /\ value'[h] = v /\ key' = key
        /\ i # h => phase'[i] = phase[i] /\ saw'[i] = saw[i] /\ value'[i] = value[i]
    BY <1>1 DEF Begin, TypeOK
  <2>2. v \in shown => v # 0
    BY DEF TypeOK
  <2>3. QED
    BY <1>0, <1>1, <2>1, <2>2 DEF ReadingAt, DecryptSecret
<1>2. ASSUME NEW h \in Handlers, Finish(h) PROVE ReadingAt(i)'
  BY <1>0, <1>2 DEF Finish, ReadingAt, TypeOK
<1>3. ASSUME NEW h \in Handlers, StoreSecret(h) PROVE ReadingAt(i)'
  BY <1>0, <1>3 DEF StoreSecret, ReadingAt, TypeOK
<1>4. CASE Restart
  BY <1>4 DEF Restart, ReadingAt
<1>5. CASE UNCHANGED vars
  BY <1>0, <1>5 DEF vars, ReadingAt
<1>6. ASSUME NEW h \in Handlers, AskSetup(h) \/ AskPassword(h)
      PROVE  ReadingAt(i)'
  BY <1>1, <1>6 DEF AskSetup, AskPassword
<1>7. ASSUME NEW h \in Handlers, AskConfirm(h) \/ AskDisable(h) PROVE ReadingAt(i)'
  <2>1. PICK p \in {"enable", "disable"}, code \in shown :
          /\ Begin(h, p, code) /\ code = DecryptSecret(user)
          /\ p = "enable" => ~user.mfaEnabled
          /\ p = "disable" => user.mfaEnabled
    BY <1>7 DEF AskConfirm, AskDisable, CodeAccepted
  <2>2. QED
    BY <1>1, <2>1
<1>8. QED
  BY <1>2, <1>3, <1>4, <1>5, <1>6, <1>7
     DEF Next, ShowSecret, Enable, Disable, StorePassword, Rejected

THEOREM ReadingInvariance == Spec => [](TypeOK /\ ReadingHolds)
<1>1. Init => ReadingHolds
  BY DEF Init, ReadingHolds, ReadingAt
<1>2. QED
  BY <1>1, ReadingInvariant, CredentialsTypeCorrect, PTL DEF Spec

\* What a request that is not out of date has read is the row's.
LEMMA FreshReading ==
  ASSUME NEW h \in Handlers, ~Stale(h)
  PROVE  /\ saw[h].mfaEnabled = user.mfaEnabled /\ saw[h].mfaSecret = user.mfaSecret
         /\ saw[h].sealedBy = user.sealedBy
BY DEF Stale

-----------------------------------------------------------------------------
(* The second factor                                                       *)

\* A person who can pass the second factor loses that only by a restart with
\* another key, or by the write of a request that is out of date: the secret is
\* proved before it is switched on (mfa.service.ts 89-180).
THEOREM OnlyStaleRequestsLockOut == Spec => OnlyStaleLocksOut
<1> DEFINE Cause == key' # key \/ \E h \in Handlers : Steps(h) /\ Stale(h)
<1>1. TypeOK /\ ReadingHolds /\ [Next]_vars => (~LockedOut /\ LockedOut' => Cause)
  <2> SUFFICES ASSUME TypeOK, ReadingHolds, [Next]_vars, ~LockedOut, LockedOut',
                      key' = key
               PROVE  \E h \in Handlers : Steps(h) /\ Stale(h)
    OBVIOUS
  <2> DEFINE opens == IF user'.sealedBy = key' THEN user'.mfaSecret ELSE 0
  <2>1. user'.mfaEnabled /\ \A code \in shown' \union {0} : ~(code # 0 /\ code = opens)
    BY DEF LockedOut, VerifyLoginTotp, DecryptSecret
  <2>2. user'.mfaEnabled
    BY <2>1
  <2>3. PICK good \in shown \union {0} : VerifyLoginTotp(user, good)
    BY DEF LockedOut
  <2>4. ASSUME UNCHANGED <<user, key>>, shown \subseteq shown' PROVE FALSE
    BY <2>1, <2>3, <2>4 DEF VerifyLoginTotp, DecryptSecret
  <2>5. ASSUME NEW h \in Handlers, Enable(h) PROVE Steps(h) /\ Stale(h)
    <3>1. Steps(h)
      BY <2>5 DEF Enable, Finish, Steps, TypeOK
    <3>2. /\ value[h] \in shown /\ value[h] # 0
          /\ saw[h].mfaSecret = value[h] /\ saw[h].sealedBy = key
      BY <2>5 DEF Enable, ReadingHolds, ReadingAt, TypeOK
    <3>3. ASSUME ~Stale(h) PROVE FALSE
      <4>1. user.mfaSecret = value[h] /\ user.sealedBy = key
        BY <3>2, <3>3, FreshReading
      <4>2. user'.mfaSecret = value[h] /\ user'.sealedBy = key /\ shown' = shown
        BY <2>5, <4>1 DEF Enable, TypeOK, Rows
      <4>3. QED
        BY <2>1, <3>2, <4>2 DEF VerifyLoginTotp, DecryptSecret
    <3>4. QED
      BY <3>1, <3>3
  <2>6. ASSUME NEW h \in Handlers, StoreSecret(h) \/ Disable(h) PROVE FALSE
    <3>1. CASE StoreSecret(h)
      BY <2>2, <3>1 DEF StoreSecret, TypeOK, Rows
    <3>2. CASE Disable(h)
      BY <2>2, <3>2 DEF Disable, TypeOK, Rows
    <3>3. QED
      BY <2>6, <3>1, <3>2
  <2>7. ASSUME NEW h \in Handlers, StorePassword(h) PROVE FALSE
    <3>1. /\ user'.mfaEnabled = user.mfaEnabled /\ user'.mfaSecret = user.mfaSecret
          /\ user'.sealedBy = user.sealedBy /\ shown' = shown
      BY <2>7 DEF StorePassword, TypeOK, Rows
    <3>2. QED
      BY <2>1, <2>3, <3>1 DEF VerifyLoginTotp, DecryptSecret
  <2>8. ASSUME NEW h \in Handlers,
               \/ AskSetup(h) \/ ShowSecret(h) \/ AskConfirm(h) \/ AskDisable(h)
               \/ AskPassword(h) \/ Rejected(h)
        PROVE  FALSE
    BY <2>4, <2>8 DEF AskSetup, ShowSecret, AskConfirm, AskDisable, AskPassword,
                      Rejected, Begin
  <2>9. CASE Restart
    BY <2>4, <2>9 DEF Restart
  <2>10. CASE UNCHANGED vars
    BY <2>4, <2>10 DEF vars
  <2>11. QED
    BY <2>5, <2>6, <2>7, <2>8, <2>9, <2>10 DEF Next
<1>2. QED
  BY <1>1, ReadingInvariance, PTL DEF Spec, OnlyStaleLocksOut

\* Once the second factor is on, it goes off only by a disable with a code of
\* the secret it takes away or by a request that is out of date, and nothing
\* that is written about the password touches it (mfa.service.ts 92-97,
\* 162-173).
THEOREM FactorStays == Spec => FactorIsKept
<1> DEFINE Changed == user' # [user EXCEPT !.password = user'.password]
           Cause == \E h \in Handlers :
                      /\ Steps(h)
                      /\ phase[h] \in {"store", "disable"}
                      /\ Stale(h) \/ (phase[h] = "disable" /\ value[h] = user.mfaSecret)
<1>1. TypeOK /\ ReadingHolds /\ [Next]_vars => (user.mfaEnabled /\ Changed => Cause)
  <2> SUFFICES ASSUME TypeOK, ReadingHolds, [Next]_vars, user.mfaEnabled, Changed
               PROVE  Cause
    OBVIOUS
  <2>1. user' # user
    BY DEF TypeOK, Rows
  <2>2. ASSUME NEW h \in Handlers, StoreSecret(h) PROVE Cause
    <3>1. Steps(h)
      BY <2>2 DEF StoreSecret, Steps, TypeOK
    <3>2. Stale(h)
      BY <2>2 DEF StoreSecret, Stale, ReadingHolds, ReadingAt
    <3>3. QED
      BY <2>2, <3>1, <3>2 DEF StoreSecret
  <2>3. ASSUME NEW h \in Handlers, Enable(h) PROVE FALSE
    <3>1. user' = user
      BY <2>3 DEF Enable, TypeOK, Rows
    <3>2. QED
      BY <2>1, <3>1
  <2>4. ASSUME NEW h \in Handlers, Disable(h) PROVE Cause
    <3>1. Steps(h)
      BY <2>4 DEF Disable, Finish, Steps, TypeOK
    <3>2. saw[h].mfaSecret = value[h]
      BY <2>4 DEF Disable, ReadingHolds, ReadingAt
    <3>3. Stale(h) \/ value[h] = user.mfaSecret
      BY <3>2, FreshReading
    <3>4. QED
      BY <2>4, <3>1, <3>3 DEF Disable
  <2>5. ASSUME NEW h \in Handlers, StorePassword(h) PROVE FALSE
    <3>1. user' = [user EXCEPT !.password = value[h]]
      BY <2>5 DEF StorePassword
    <3>2. user'.password = value[h]
      BY <3>1 DEF TypeOK, Rows
    <3>3. QED
      BY <3>1, <3>2
  <2>6. ASSUME NEW h \in Handlers,
               \/ AskSetup(h) \/ ShowSecret(h) \/ AskConfirm(h) \/ AskDisable(h)
               \/ AskPassword(h) \/ Rejected(h)
        PROVE  FALSE
    BY <2>1, <2>6 DEF AskSetup, ShowSecret, AskConfirm, AskDisable, AskPassword,
                      Rejected, Begin
  <2>7. CASE Restart
    BY <2>1, <2>7 DEF Restart
  <2>8. CASE UNCHANGED vars
    BY <2>1, <2>8 DEF vars
  <2> HIDE DEF Cause
  <2>9. QED
    BY <2>2, <2>3, <2>4, <2>5, <2>6, <2>7, <2>8 DEF Next
<1>2. QED
  BY <1>1, ReadingInvariance, PTL DEF Spec, FactorIsKept
=============================================================================
