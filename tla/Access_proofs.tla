---------------------------- MODULE Access_proofs ----------------------------
(***************************************************************************)
(* Who may do what: the credentials of devices and of accounts, and the    *)
(* roles of a team, for any number of requests that overlap, fail and are  *)
(* retried.                                                                *)
(***************************************************************************)
EXTENDS Enrollment, SignIn, Teams, FiniteSetTheorems, TLAPS

-----------------------------------------------------------------------------
(* Enrollment.                                                             *)

\* The redemptions under way: each may hand the credential out once more.
Redeeming == {r \in Redeemers : redeemer[r] # "idle"}

RedemptionsAreCounted ==
  /\ IsFiniteSet(Redeeming)
  /\ handed + Cardinality(Redeeming) <= starts.redeem

\* A request that began after the token was complete removes a client that
\* nobody creates anew; so what it records holds for good.
RemovalsAreFinal ==
  /\ \A m \in Removers :
       /\ remover[m].late => Completed
       /\ remover[m].late /\ remover[m].step = "record" => client = "absent"
  /\ revoked => Completed /\ client = "absent"

\* Until a device is to be removed, a token that has been stored stays alive,
\* so that no reconciliation removes its client unnoticed.
AliveUntilRemoved ==
  starts.remove = 0 =>
    /\ \A m \in Removers : remover[m].step = "idle"
    /\ creator \in {"stash", "client", "disable", "done", "shown", "unseen"} => Live

\* The client of a redemption that is about to be recorded is enabled, and so it
\* stays.
RecordedIsLive ==
  /\ handed > 0 \/ Redeeming # {} => Completed
  /\ (handed > 0 \/ \E r \in Redeemers : redeemer[r] = "record")
       /\ starts.remove = 0 /\ ~swept => client = "enabled"

EnrollmentInv ==
  /\ EnrollmentTypeOK /\ RedemptionsAreCounted
  /\ RemovalsAreFinal /\ AliveUntilRemoved /\ RecordedIsLive

LEMMA EnrollmentInitially == EnrollmentInit => EnrollmentInv
  <1> SUFFICES ASSUME EnrollmentInit PROVE EnrollmentInv
    OBVIOUS
  <1> USE DEF EnrollmentInit
  <1>1. Redeeming = {}
    BY DEF Redeeming
  <1>2. EnrollmentTypeOK
    <2>1. /\ NotRemoving \in [step : {"idle", "client", "record", "forget", "erase"},
                               kind : {"revoke", "device", "team"}, late : BOOLEAN]
          /\ NotReconciling \in [step : {"idle", "list", "remove"}, known : BOOLEAN]
      BY DEF NotRemoving, NotReconciling
    <2>2. starts \in [redeem : 0..RedeemLimit, remove : 0..RemoveLimit]
      BY EnrollmentAssumption
    <2> QED BY <2>1, <2>2, EnrollmentAssumption DEF EnrollmentTypeOK
  <1>3. RedemptionsAreCounted
    BY <1>1, FS_EmptySet DEF RedemptionsAreCounted
  <1>4. RemovalsAreFinal /\ AliveUntilRemoved /\ RecordedIsLive
    BY <1>1 DEF RemovalsAreFinal, AliveUntilRemoved, RecordedIsLive, NotRemoving
  <1> QED BY <1>2, <1>3, <1>4 DEF EnrollmentInv

\* A redemption that moves on stays counted; one that ends is counted no more.
LEMMA RedeemingMoves ==
  ASSUME EnrollmentTypeOK, IsFiniteSet(Redeeming), NEW r \in Redeemers, NEW to,
         redeemer' = [redeemer EXCEPT ![r] = to]
  PROVE  /\ IsFiniteSet(Redeeming') /\ Cardinality(Redeeming) \in Nat
         /\ redeemer[r] # "idle" /\ to # "idle" => Cardinality(Redeeming') = Cardinality(Redeeming)
         /\ redeemer[r] # "idle" /\ to = "idle" => Cardinality(Redeeming') = Cardinality(Redeeming) - 1
         /\ redeemer[r] = "idle" => Cardinality(Redeeming') <= Cardinality(Redeeming) + 1
  <1>1. \A q \in Redeemers : redeemer'[q] = IF q = r THEN to ELSE redeemer[q]
    BY DEF EnrollmentTypeOK
  <1>2. Cardinality(Redeeming) \in Nat
    BY FS_CardinalityType
  <1>3. CASE redeemer[r] # "idle" /\ to # "idle"
    <2>1. Redeeming' = Redeeming
      BY <1>1, <1>3 DEF Redeeming
    <2> QED BY <1>2, <1>3, <2>1
  <1>4. CASE redeemer[r] # "idle" /\ to = "idle"
    <2>1. r \in Redeeming /\ Redeeming' = Redeeming \ {r}
      BY <1>1, <1>4 DEF Redeeming
    <2>2. IsFiniteSet(Redeeming \ {r})
          /\ Cardinality(Redeeming \ {r}) = Cardinality(Redeeming) - 1
      BY <2>1, FS_RemoveElement
    <2> QED BY <1>2, <1>4, <2>1, <2>2
  <1>5. CASE redeemer[r] = "idle" /\ to # "idle"
    <2>1. r \notin Redeeming /\ Redeeming' = Redeeming \cup {r}
      BY <1>1, <1>5 DEF Redeeming
    <2>2. IsFiniteSet(Redeeming \cup {r})
          /\ Cardinality(Redeeming \cup {r}) = Cardinality(Redeeming) + 1
      BY <2>1, FS_AddElement
    <2> QED BY <1>2, <1>5, <2>1, <2>2
  <1>6. CASE redeemer[r] = "idle" /\ to = "idle"
    <2>1. Redeeming' = Redeeming
      BY <1>1, <1>6 DEF Redeeming
    <2> QED BY <1>2, <1>6, <2>1
  <1> QED BY <1>3, <1>4, <1>5, <1>6

\* The steps of the creation, of time and of a reconciliation.
LEMMA CreationKeeps ==
  ASSUME EnrollmentInv,
         CreateEnrollmentToken \/ ShowToken \/ FailCreate \/ ExpireToken \/ DropSecret,
         UNCHANGED reconciler
  PROVE  EnrollmentInv'
  <1> USE DEF EnrollmentInv
  <1>1. UNCHANGED <<redeemer, remover, starts, handed, revoked, swept>>
    BY DEF CreateEnrollmentToken, ShowToken, FailCreate, ExpireToken, DropSecret,
           tokenVars, requestVars
  <1>2. Redeeming' = Redeeming
    BY <1>1 DEF Redeeming
  <1>3. RedemptionsAreCounted'
    BY <1>1, <1>2 DEF RedemptionsAreCounted
  <1>4. CASE CreateEnrollmentToken
    <2>1. EnrollmentTypeOK'
      <3>1. CASE CreateRows
        <4>1. /\ deviceRow' \in {"none", "present", "deleted"}
              /\ tokenStatus' \in {"none", "ACTIVE", "CONSUMED", "REVOKED"}
              /\ creator' \in {"idle", "token", "stash", "client", "disable", "done", "failed",
                              "shown", "unseen"}
              /\ client' = client /\ tokenExpired' = tokenExpired
          BY <1>4, <3>1 DEF CreateEnrollmentToken, CreateRows, EnrollmentTypeOK
        <4>2. pendingSecret' \in BOOLEAN
          BY <3>1, Zenon DEF CreateRows, EnrollmentTypeOK
        <4> QED BY <1>1, <4>1, <4>2 DEF EnrollmentTypeOK
      <3>2. CASE ProvisionBrokerCredential
        BY <1>1, <1>4, <3>2 DEF CreateEnrollmentToken, ProvisionBrokerCredential, Ask,
                                EnrollmentTypeOK
      <3> QED BY <1>4, <3>1, <3>2 DEF CreateEnrollmentToken
    <2>2. ~Completed
      BY <1>4 DEF CreateEnrollmentToken, CreateRows, ProvisionBrokerCredential, Completed
    <2>3. RemovalsAreFinal' /\ RecordedIsLive'
      BY <1>1, <1>2, <2>2 DEF RemovalsAreFinal, RecordedIsLive, Redeeming
    <2>4. AliveUntilRemoved'
      BY <1>1, <1>4 DEF CreateEnrollmentToken, CreateRows, ProvisionBrokerCredential, Ask,
                        AliveUntilRemoved, Live
    <2> QED BY <1>3, <2>1, <2>3, <2>4
  <1>5. CASE ShowToken \/ FailCreate \/ ExpireToken \/ DropSecret
    <2>1. EnrollmentTypeOK'
      <3>1. CASE ShowToken \/ FailCreate
        BY <3>1 DEF ShowToken, FailCreate, tokenVars, EnrollmentTypeOK
      <3>2. CASE ExpireToken
        BY <3>2 DEF ExpireToken, requestVars, EnrollmentTypeOK
      <3>3. CASE DropSecret
        <4>1. pendingSecret' \in BOOLEAN
          BY <3>3, Zenon DEF DropSecret
        <4> QED BY <3>3, <4>1 DEF DropSecret, tokenVars, requestVars, EnrollmentTypeOK
      <3> QED BY <1>5, <3>1, <3>2, <3>3
    <2>2. /\ UNCHANGED <<client, tokenStatus>>
          /\ Completed => Completed'
          /\ creator' \in {"stash", "client", "disable", "done", "shown", "unseen"} =>
               creator \in {"stash", "client", "disable", "done", "shown", "unseen"}
      BY <1>5 DEF ShowToken, FailCreate, ExpireToken, DropSecret, tokenVars, requestVars,
                  Completed
    <2>3. RemovalsAreFinal' /\ RecordedIsLive' /\ AliveUntilRemoved'
      BY <1>1, <1>2, <2>2 DEF RemovalsAreFinal, RecordedIsLive, AliveUntilRemoved, Live
    <2> QED BY <1>3, <2>1, <2>3
  <1> QED BY <1>4, <1>5

LEMMA RedemptionKeeps ==
  ASSUME EnrollmentInv, NEW r \in Redeemers, UNCHANGED reconciler,
         \/ StartRedeem(r) \/ GetSecret(r) \/ DelSecret(r) \/ EnableClient(r)
         \/ RecordRedemption(r) \/ FailRedeem(r)
  PROVE  EnrollmentInv'
  <1> USE DEF EnrollmentInv
  <1>1. PICK to \in {"idle", "get", "del", "enable", "record"} :
          redeemer' = [redeemer EXCEPT ![r] = to]
    BY DEF StartRedeem, GetSecret, DelSecret, EnableClient, RecordRedemption, FailRedeem,
           Redeem, Ask
  <1>2. \A q \in Redeemers : redeemer'[q] = IF q = r THEN to ELSE redeemer[q]
    BY <1>1 DEF EnrollmentTypeOK
  <1>3. /\ UNCHANGED <<deviceRow, tokenExpired, creator, remover, revoked, swept>>
        /\ UNCHANGED <<handed, starts>> \/ StartRedeem(r) \/ RecordRedemption(r)
    BY DEF StartRedeem, GetSecret, DelSecret, EnableClient, RecordRedemption, FailRedeem,
           tokenVars
  <1>4. /\ client' = client \/ (client # "absent" /\ client' = "enabled")
        /\ to = "record" => client' = "enabled"
    <2>0. redeemer'[r] = to /\ redeemer \in [Redeemers -> {"idle", "get", "del", "enable", "record"}]
      BY <1>2 DEF EnrollmentTypeOK
    <2> HIDE DEF EnrollmentInv
    <2>1. CASE EnableClient(r)
      <3>1. \/ client # "absent" /\ client' = "enabled"
            \/ /\ client' = client \/ (client # "absent" /\ client' = "enabled")
               /\ redeemer' = [redeemer EXCEPT ![r] = "idle"]
        BY <2>1 DEF EnableClient, Ask
      <3> QED BY <2>0, <3>1
    <2>2. CASE ~EnableClient(r)
      <3>1. client' = client
        BY <2>2 DEF StartRedeem, GetSecret, DelSecret, RecordRedemption, FailRedeem
      <3>2. PICK s \in {"get", "del", "enable", "idle"} : redeemer' = [redeemer EXCEPT ![r] = s]
        BY <2>2 DEF StartRedeem, GetSecret, DelSecret, RecordRedemption, FailRedeem, Redeem
      <3> QED BY <2>0, <3>1, <3>2
    <2> QED BY <2>1, <2>2
  <1>5. tokenStatus' = tokenStatus \/ Live'
    BY DEF StartRedeem, GetSecret, DelSecret, EnableClient, RecordRedemption, FailRedeem,
           tokenVars, Live
  <1>6. Completed
    BY DEF StartRedeem, GetSecret, DelSecret, EnableClient, RecordRedemption, FailRedeem,
           Redeem, RecordedIsLive, Redeeming, Completed
  <1>7. RedemptionsAreCounted' /\ handed' \in 0..RedeemLimit
        /\ starts' \in [redeem : 0..RedeemLimit, remove : 0..RemoveLimit]
        /\ starts'.remove = starts.remove
    <2>1. /\ handed \in Nat /\ starts.redeem \in Nat
          /\ IsFiniteSet(Redeeming) /\ handed + Cardinality(Redeeming) <= starts.redeem
          /\ starts \in [redeem : 0..RedeemLimit, remove : 0..RemoveLimit]
      BY DEF EnrollmentTypeOK, RedemptionsAreCounted
    <2>0. redeemer \in [Redeemers -> {"idle", "get", "del", "enable", "record"}]
      BY DEF EnrollmentTypeOK
    <2>2. /\ IsFiniteSet(Redeeming') /\ Cardinality(Redeeming) \in Nat
          /\ redeemer[r] # "idle" /\ to # "idle" =>
               Cardinality(Redeeming') = Cardinality(Redeeming)
          /\ redeemer[r] # "idle" /\ to = "idle" =>
               Cardinality(Redeeming') = Cardinality(Redeeming) - 1
          /\ redeemer[r] = "idle" => Cardinality(Redeeming') <= Cardinality(Redeeming) + 1
      BY <1>1, <2>1, RedeemingMoves
    <2>3. Cardinality(Redeeming') \in Nat
      BY <2>2, FS_CardinalityType
    <2> HIDE DEF EnrollmentInv
    <2>4. CASE StartRedeem(r)
      <3>1. /\ redeemer[r] = "idle" /\ handed' = handed
            /\ starts' = [starts EXCEPT !.redeem = starts.redeem + 1]
            /\ starts.redeem < RedeemLimit
        BY <2>4 DEF StartRedeem, Redeem, tokenVars
      <3>2. /\ starts'.redeem = starts.redeem + 1 /\ starts'.remove = starts.remove
            /\ starts' \in [redeem : 0..RedeemLimit, remove : 0..RemoveLimit]
        BY <2>1, <3>1, EnrollmentAssumption
      <3>3. handed' + Cardinality(Redeeming') <= starts'.redeem /\ handed' <= RedeemLimit
        BY <2>1, <2>2, <2>3, <3>1, <3>2, EnrollmentAssumption
      <3> QED BY <2>1, <2>2, <3>1, <3>2, <3>3, EnrollmentAssumption DEF RedemptionsAreCounted
    <2>5. CASE RecordRedemption(r)
      <3>1. /\ redeemer[r] # "idle" /\ to = "idle" /\ handed' = handed + 1 /\ starts' = starts
        BY <1>2, <2>0, <2>5 DEF RecordRedemption, Redeem
      <3>2. handed' + Cardinality(Redeeming') <= starts.redeem /\ handed' <= RedeemLimit
        BY <2>1, <2>2, <2>3, <3>1, EnrollmentAssumption
      <3> QED BY <2>1, <2>2, <3>1, <3>2, EnrollmentAssumption DEF RedemptionsAreCounted
    <2>6. CASE UNCHANGED <<handed, starts>> /\ ~StartRedeem(r)
      <3>1. redeemer[r] # "idle"
        BY <2>6 DEF GetSecret, DelSecret, EnableClient, RecordRedemption, FailRedeem, Redeem
      <3>2. handed' + Cardinality(Redeeming') <= starts.redeem /\ handed' <= RedeemLimit
        BY <2>1, <2>2, <2>3, <2>6, <3>1, EnrollmentAssumption
      <3> QED BY <2>1, <2>2, <2>6, <3>2, EnrollmentAssumption DEF RedemptionsAreCounted
    <2> QED BY <1>3, <2>4, <2>5, <2>6
  <1>8. EnrollmentTypeOK'
    <2>1. tokenStatus' \in {"none", "ACTIVE", "CONSUMED", "REVOKED"}
      BY <1>5 DEF EnrollmentTypeOK, Live
    <2>2. pendingSecret' \in BOOLEAN
      BY DEF StartRedeem, GetSecret, DelSecret, EnableClient, RecordRedemption, FailRedeem,
             EnrollmentTypeOK
    <2> QED BY <1>1, <1>2, <1>3, <1>4, <1>7, <2>1, <2>2 DEF EnrollmentTypeOK
  <1>9. RemovalsAreFinal'
    BY <1>3, <1>4 DEF RemovalsAreFinal, Completed
  <1>10. AliveUntilRemoved'
    BY <1>3, <1>5, <1>7 DEF AliveUntilRemoved, Live
  <1>11. RecordedIsLive'
    <2>1. Completed'
      BY <1>3, <1>6 DEF Completed
    <2>2. handed' = handed \/ redeemer[r] = "record"
      BY <1>3 DEF StartRedeem, RecordRedemption, Redeem, tokenVars
    <2> QED BY <1>2, <1>3, <1>4, <1>7, <2>1, <2>2 DEF RecordedIsLive, EnrollmentTypeOK
  <1> QED BY <1>7, <1>8, <1>9, <1>10, <1>11

RemovalSteps == {"idle", "client", "record", "forget", "erase"}
Removal == [step : RemovalSteps, kind : {"revoke", "device", "team"}, late : BOOLEAN]

\* What a step of a removal leaves in its place.
RemovalMoved(m) ==
  \E new \in Removal :
    /\ remover' = [remover EXCEPT ![m] = new]
    /\ new.late => Completed
    /\ new.late /\ new.step = "record" => client' = "absent"

LEMMA RemoverMoves ==
  ASSUME EnrollmentInv, NEW m \in Removers,
         \/ \E kind \in {"revoke", "device", "team"} : StartRemove(m, kind)
         \/ RemoveClient(m) \/ RecordRevocation(m) \/ ForgetSecret(m)
         \/ EraseDevice(m) \/ FailRemove(m)
  PROVE  RemovalMoved(m)
  <1>1. remover[m] \in Removal /\ (remover[m].late => Completed)
    BY DEF EnrollmentInv, EnrollmentTypeOK, RemovalsAreFinal, Removal, RemovalSteps
  <1>2. ASSUME NEW step \in RemovalSteps, StepRemover(m, step),
               step = "record" => client' = "absent"
        PROVE  RemovalMoved(m)
    <2> DEFINE new == [remover[m] EXCEPT !.step = step]
    <2>1. new \in Removal /\ new.late = remover[m].late /\ new.step = step
      BY <1>1 DEF Removal
    <2>2. remover' = [remover EXCEPT ![m] = new]
      BY <1>2 DEF StepRemover
    <2> HIDE DEF new
    <2> QED BY <1>1, <1>2, <2>1, <2>2 DEF RemovalMoved
  <1>3. ASSUME EndRemover(m) PROVE RemovalMoved(m)
    <2>1. NotRemoving \in Removal /\ ~NotRemoving.late
      BY DEF NotRemoving, Removal, RemovalSteps
    <2> QED BY <1>3, <2>1 DEF EndRemover, RemovalMoved
  <1>4. ASSUME NEW kind \in {"revoke", "device", "team"}, StartRemove(m, kind)
        PROVE  RemovalMoved(m)
    <2> DEFINE new == [kind |-> kind, late |-> Completed,
                       step |-> IF tokenStatus # "none" THEN "client" ELSE "erase"]
    <2>1. new \in Removal /\ new.late = Completed /\ new.step # "record"
      BY DEF Removal, RemovalSteps, Completed
    <2>2. remover' = [remover EXCEPT ![m] = new]
      BY <1>4 DEF StartRemove
    <2> HIDE DEF new
    <2> QED BY <2>1, <2>2 DEF RemovalMoved
  <1>5. CASE RemoveClient(m)
    <2>1. \/ StepRemover(m, "record") /\ client' = "absent"
          \/ StepRemover(m, "erase") \/ EndRemover(m)
      BY <1>5 DEF RemoveClient, Ask, AfterError
    <2> QED BY <1>2, <1>3, <2>1 DEF RemovalSteps
  <1>6. CASE RecordRevocation(m) \/ ForgetSecret(m) \/ EraseDevice(m) \/ FailRemove(m)
    <2>1. StepRemover(m, "forget") \/ StepRemover(m, "erase") \/ EndRemover(m)
      BY <1>6 DEF RecordRevocation, ForgetSecret, EraseDevice, FailRemove, AfterError
    <2> QED BY <1>2, <1>3, <2>1 DEF RemovalSteps
  <1> QED BY <1>4, <1>5, <1>6

LEMMA RemovalKeeps ==
  ASSUME EnrollmentInv, NEW m \in Removers, UNCHANGED reconciler,
         \/ \E kind \in {"revoke", "device", "team"} : StartRemove(m, kind)
         \/ RemoveClient(m) \/ RecordRevocation(m) \/ ForgetSecret(m)
         \/ EraseDevice(m) \/ FailRemove(m)
  PROVE  EnrollmentInv'
  <1> USE DEF EnrollmentInv
  <1>1. PICK new \in Removal :
          /\ remover' = [remover EXCEPT ![m] = new]
          /\ new.late => Completed
          /\ new.late /\ new.step = "record" => client' = "absent"
    BY RemoverMoves DEF RemovalMoved
  <1>2. \A n \in Removers : remover'[n] = IF n = m THEN new ELSE remover[n]
    BY <1>1 DEF EnrollmentTypeOK
  <1>3. /\ UNCHANGED <<tokenExpired, creator, redeemer, handed, swept>>
        /\ client' \in {client, "absent"}
    BY DEF StartRemove, RemoveClient, RecordRevocation, ForgetSecret, EraseDevice, FailRemove,
           Ask, tokenVars
  <1>4. starts' \in [redeem : 0..RedeemLimit, remove : 0..RemoveLimit]
        /\ starts'.redeem = starts.redeem /\ starts'.remove # 0
    <2>1. CASE \E kind \in {"revoke", "device", "team"} : StartRemove(m, kind)
      BY <2>1, EnrollmentAssumption DEF StartRemove, EnrollmentTypeOK
    <2>2. CASE ~ \E kind \in {"revoke", "device", "team"} : StartRemove(m, kind)
      BY <2>2 DEF RemoveClient, RecordRevocation, ForgetSecret, EraseDevice, FailRemove,
                  AliveUntilRemoved, EnrollmentTypeOK
    <2> QED BY <2>1, <2>2
  <1>5. revoked' = revoked
        \/ /\ remover[m].step = "record" /\ revoked' = (revoked \/ remover[m].late)
           /\ client' = client
    BY DEF StartRemove, RemoveClient, RecordRevocation, ForgetSecret, EraseDevice, FailRemove,
           tokenVars
  <1>6. Redeeming' = Redeeming /\ Completed' = Completed
    BY <1>3 DEF Redeeming, Completed
  <1>7. EnrollmentTypeOK'
    <2>1. /\ deviceRow' \in {"none", "present", "deleted"}
          /\ tokenStatus' \in {"none", "ACTIVE", "CONSUMED", "REVOKED"}
          /\ pendingSecret' \in BOOLEAN
      BY DEF StartRemove, RemoveClient, RecordRevocation, ForgetSecret, EraseDevice,
             FailRemove, tokenVars, EnrollmentTypeOK
    <2>2. revoked' \in BOOLEAN
      BY <1>5 DEF EnrollmentTypeOK
    <2> QED BY <1>1, <1>2, <1>3, <1>4, <2>1, <2>2 DEF EnrollmentTypeOK, Removal, RemovalSteps
  <1>8. RedemptionsAreCounted'
    BY <1>3, <1>4, <1>6 DEF RedemptionsAreCounted
  <1>9. RemovalsAreFinal'
    <2>1. revoked' => Completed /\ client = "absent"
      BY <1>5 DEF RemovalsAreFinal
    <2> QED BY <1>1, <1>2, <1>3, <1>6, <2>1 DEF RemovalsAreFinal
  <1>10. AliveUntilRemoved' /\ RecordedIsLive'
    BY <1>3, <1>4, <1>6 DEF AliveUntilRemoved, RecordedIsLive
  <1> QED BY <1>7, <1>8, <1>9, <1>10

\* What is removed for lack of a token had none that counts, or its loss is noted.
LEMMA ReconciliationKeeps ==
  ASSUME EnrollmentInv, Reconcile PROVE EnrollmentInv'
  <1> USE DEF EnrollmentInv
  <1>1. /\ UNCHANGED <<deviceRow, tokenStatus, tokenExpired, handed, revoked, pendingSecret,
                       creator, redeemer, remover, starts>>
        /\ reconciler' \in [step : {"idle", "list", "remove"}, known : BOOLEAN]
        /\ \/ client' = client /\ swept' = swept
           \/ client' \in {client, "absent"} /\ swept' = (swept \/ Live)
    <2>1. CASE ReadKnown
      BY <2>1 DEF Reconcile, ReadKnown, requestVars, Live
    <2>2. CASE ListClients
      BY <2>2 DEF Reconcile, ListClients, requestVars, NotReconciling, EnrollmentTypeOK
    <2>3. CASE RemoveOrphan
      BY <2>3 DEF Reconcile, RemoveOrphan, requestVars, NotReconciling
    <2> QED BY <2>1, <2>2, <2>3 DEF Reconcile
  <1>2. Redeeming' = Redeeming /\ Completed' = Completed /\ Live' = Live
    BY <1>1 DEF Redeeming, Completed, Live
  <1>3. EnrollmentTypeOK'
    <2>1. swept' \in BOOLEAN
      BY <1>1 DEF EnrollmentTypeOK, Live
    <2> QED BY <1>1, <2>1 DEF EnrollmentTypeOK
  <1>4. RedemptionsAreCounted' /\ RemovalsAreFinal' /\ AliveUntilRemoved'
    BY <1>1, <1>2 DEF RedemptionsAreCounted, RemovalsAreFinal, AliveUntilRemoved
  <1>5. RecordedIsLive'
    <2>1. (\E r \in Redeemers : redeemer[r] = "record") => Redeeming # {}
      BY DEF Redeeming
    <2>2. Completed /\ starts.remove = 0 => Live
      BY DEF Completed, AliveUntilRemoved
    <2>3. UNCHANGED <<client, swept>> \/ swept' \/ ~Live
      BY <1>1
    <2>5. CASE UNCHANGED <<client, swept>>
      BY <1>1, <1>2, <2>5 DEF RecordedIsLive
    <2>6. CASE swept' \/ ~Live
      BY <1>1, <1>2, <2>1, <2>2, <2>6 DEF RecordedIsLive
    <2> QED BY <2>3, <2>5, <2>6
  <1> QED BY <1>3, <1>4, <1>5

LEMMA EnrollmentStepKeeps ==
  EnrollmentInv /\ [EnrollmentNext]_enrollmentVars => EnrollmentInv'
  <1> SUFFICES ASSUME EnrollmentInv, [EnrollmentNext]_enrollmentVars PROVE EnrollmentInv'
    OBVIOUS
  <1>1. CASE EnrollmentStep /\ UNCHANGED reconciler
    BY <1>1, CreationKeeps, RedemptionKeeps, RemovalKeeps DEF EnrollmentStep
  <1>2. CASE Reconcile
    BY <1>2, ReconciliationKeeps
  <1>3. CASE UNCHANGED enrollmentVars
    BY <1>3 DEF enrollmentVars, EnrollmentInv, EnrollmentTypeOK, RedemptionsAreCounted,
                Redeeming, RemovalsAreFinal, AliveUntilRemoved, RecordedIsLive, Completed, Live
  <1> QED BY <1>1, <1>2, <1>3 DEF EnrollmentNext

\* However redemptions, removals and reconciliations overlap and fail, once the
\* revocation of a complete token is recorded its client is never enabled
\* (revokeToken against consumeEnrollmentToken).
THEOREM RevocationsHold == EnrollmentSpec => []RevokedIsDead
  <1>1. EnrollmentInv => RevokedIsDead
    BY DEF EnrollmentInv, RemovalsAreFinal, RevokedIsDead
  <1> QED BY <1>1, EnrollmentInitially, EnrollmentStepKeeps, PTL DEF EnrollmentSpec

\* A credential that was handed out works until a removal is requested or a
\* reconciliation with a stale list removes it (consumeEnrollmentToken).
THEOREM HandedOutWorks == EnrollmentSpec => []HandedIsLive
  <1>1. EnrollmentInv => HandedIsLive
    BY DEF EnrollmentInv, RecordedIsLive, HandedIsLive
  <1> QED BY <1>1, EnrollmentInitially, EnrollmentStepKeeps, PTL DEF EnrollmentSpec

\* The type invariant of the credential, with the bound on the redemptions.
THEOREM EnrollmentTypeCorrect == EnrollmentSpec => []EnrollmentTypeOK
  <1>1. EnrollmentInv => EnrollmentTypeOK
    BY DEF EnrollmentInv
  <1> QED BY <1>1, EnrollmentInitially, EnrollmentStepKeeps, PTL DEF EnrollmentSpec

-----------------------------------------------------------------------------
(* Signing in.                                                             *)

BrowserType ==
  [step : {"idle", "password", "refused", "second", "rejected", "spend", "done"},
   account : Accounts \cup {NoOne}, ip : Ips \cup {NoOne}, codes : SUBSET Codes]
PageType ==
  [step : {"idle", "begin", "confirm", "disable"},
   account : Accounts \cup {NoOne}, secret : Secrets \cup {NoSecret},
   view : {"off", "on", "codes"}, shows : Secrets \cup {NoSecret}]

CountersAreTyped == counter \in [LimiterKeys -> [n : Nat, ttl : 0..WindowTicks]]

\* A sign-in under way has passed the check of its account and its address.
InFlight(k) ==
  {b \in Browsers : /\ browser[b].step # "idle"
                    /\ k \in {browser[b].account, browser[b].ip}}

\* Each of those may still be charged, once.
ChargesAreFewer ==
  /\ \A b \in Browsers : browser[b].step # "idle" =>
       browser[b].account \in Accounts /\ browser[b].ip \in Ips
  /\ \A k \in LimiterKeys :
       counter[k].n + Cardinality(InFlight(k)) < Limit(k) + Cardinality(Browsers)

\* What a request has checked still holds when it writes, unless another change
\* of the account came between, which then is noted.
ChecksHoldUntilOvertaken ==
  \A p \in Pages :
    LET a == page[p].account IN
    /\ page[p].step # "idle" => a \in Accounts
    /\ page[p].step = "confirm" => page[p].secret \in Secrets
    /\ page[p].step = "begin" /\ a \notin overtaken => ~totpEnabled[a]
    /\ page[p].step = "confirm" /\ a \notin overtaken => totpSecret[a] \in authenticator[a]

SignInInv ==
  /\ SignInTypeOK /\ CountersAreTyped /\ ChargesAreFewer
  /\ ChecksHoldUntilOvertaken /\ EnabledSecretIsScanned

LEMMA LimitsArePositive == \A k \in LimiterKeys : Limit(k) \in Nat /\ Limit(k) > 0
  BY SignInAssumption DEF LimiterKeys, Limit

LEMMA InFlightIsFinite ==
  ASSUME NEW k
  PROVE  /\ IsFiniteSet(InFlight(k)) /\ Cardinality(InFlight(k)) \in Nat
         /\ Cardinality(InFlight(k)) <= Cardinality(Browsers) /\ Cardinality(Browsers) \in Nat
  <1>1. InFlight(k) \subseteq Browsers
    BY DEF InFlight
  <1> QED BY <1>1, SignInAssumption, FS_Subset, FS_CardinalityType

LEMMA SignInInitially == SignInInit => SignInInv
  <1> SUFFICES ASSUME SignInInit PROVE SignInInv
    OBVIOUS
  <1> USE DEF SignInInit
  <1>1. CountersAreTyped
    BY SignInAssumption DEF CountersAreTyped, NoCounter
  <1>2. SignInTypeOK
    <2>1. SignedOut \in BrowserType /\ Closed \in PageType
      BY DEF SignedOut, Closed, BrowserType, PageType
    <2>2. \A k \in LimiterKeys : counter[k].n \in Nat /\ counter[k].ttl \in 0..WindowTicks
      BY <1>1 DEF CountersAreTyped
    <2> QED BY <2>1, <2>2 DEF SignInTypeOK, BrowserType, PageType
  <1>3. ChargesAreFewer
    <2>1. ASSUME NEW k \in LimiterKeys
          PROVE  counter[k].n + Cardinality(InFlight(k)) < Limit(k) + Cardinality(Browsers)
      <3>1. InFlight(k) = {}
        BY DEF InFlight, SignedOut
      <3>2. counter[k].n = 0
        BY DEF NoCounter
      <3> QED BY <3>1, <3>2, FS_EmptySet, LimitsArePositive, InFlightIsFinite
    <2> QED BY <2>1 DEF ChargesAreFewer, SignedOut
  <1>4. ChecksHoldUntilOvertaken /\ EnabledSecretIsScanned
    BY DEF ChecksHoldUntilOvertaken, EnabledSecretIsScanned, Closed
  <1> QED BY <1>1, <1>2, <1>3, <1>4 DEF SignInInv

\* The sign-in b becomes new.
LEMMA InFlightMoves ==
  ASSUME SignInInv, NEW b \in Browsers, NEW new \in BrowserType, NEW k \in LimiterKeys,
         browser' = [browser EXCEPT ![b] = new]
  PROVE  /\ Cardinality(InFlight(k)') \in Nat
         /\ Cardinality(InFlight(k)') <= Cardinality(Browsers)
         /\ new.step = "idle" \/ (/\ new.account = browser[b].account /\ new.ip = browser[b].ip
                                  /\ browser[b].step # "idle")
              => Cardinality(InFlight(k)') <= Cardinality(InFlight(k))
         /\ new.step = "idle" /\ b \in InFlight(k)
              => Cardinality(InFlight(k)') = Cardinality(InFlight(k)) - 1
         /\ browser[b].step = "idle" /\ k \notin {new.account, new.ip}
              => Cardinality(InFlight(k)') <= Cardinality(InFlight(k))
  <1>1. \A c \in Browsers : browser'[c] = IF c = b THEN new ELSE browser[c]
    BY DEF SignInInv, SignInTypeOK
  <1>2. InFlight(k)' \subseteq Browsers
    BY DEF InFlight
  <1>3. /\ Cardinality(InFlight(k)') \in Nat /\ IsFiniteSet(InFlight(k)')
        /\ Cardinality(InFlight(k)') <= Cardinality(Browsers)
    BY <1>2, SignInAssumption, FS_Subset, FS_CardinalityType
  <1>4. ASSUME \/ new.step = "idle"
               \/ /\ new.account = browser[b].account /\ new.ip = browser[b].ip
                  /\ browser[b].step # "idle"
               \/ browser[b].step = "idle" /\ k \notin {new.account, new.ip}
        PROVE  Cardinality(InFlight(k)') <= Cardinality(InFlight(k))
    <2>1. InFlight(k)' \subseteq InFlight(k)
      BY <1>1, <1>4 DEF InFlight
    <2> QED BY <2>1, InFlightIsFinite, FS_Subset
  <1>5. ASSUME new.step = "idle", b \in InFlight(k)
        PROVE  Cardinality(InFlight(k)') = Cardinality(InFlight(k)) - 1
    <2>1. InFlight(k)' = InFlight(k) \ {b}
      BY <1>1, <1>5 DEF InFlight
    <2> QED BY <2>1, <1>5, InFlightIsFinite, FS_RemoveElement
  <1> QED BY <1>3, <1>4, <1>5

\* A step of a sign-in leaves the settings of the accounts alone, but for the
\* recovery code that is spent.
LEMMA SettingsUntouched ==
  ASSUME SignInInv, UNCHANGED settingsVars,
         browser' \in [Browsers -> BrowserType], CountersAreTyped', ChargesAreFewer',
         backupCodes' \in [Accounts -> SUBSET Codes]
  PROVE  SignInInv'
  <1>1. UNCHANGED <<totpEnabled, totpSecret, drawnSecrets, authenticator, page, overtaken>>
    BY DEF settingsVars
  <1>2. SignInTypeOK'
    BY <1>1 DEF SignInInv, SignInTypeOK, CountersAreTyped, BrowserType
  <1>3. ChecksHoldUntilOvertaken' /\ EnabledSecretIsScanned'
    BY <1>1 DEF SignInInv, ChecksHoldUntilOvertaken, EnabledSecretIsScanned
  <1> QED BY <1>2, <1>3 DEF SignInInv

LEMMA BrowserFacts ==
  ASSUME SignInInv, NEW b \in Browsers
  PROVE  /\ browser[b] \in BrowserType /\ SignedOut \in BrowserType
         /\ backupCodes \in [Accounts -> SUBSET Codes]
         /\ browser \in [Browsers -> BrowserType]
  BY DEF SignInInv, SignInTypeOK, BrowserType, SignedOut

LEMMA StartSignInKeeps ==
  ASSUME SignInInv, NEW b \in Browsers, NEW a \in Accounts, NEW ip \in Ips,
         StartSignIn(b, a, ip)
  PROVE  SignInInv'
  <1> DEFINE new == [step |-> "password", account |-> a, ip |-> ip, codes |-> {}]
  <1>1. /\ browser' = [browser EXCEPT ![b] = new] /\ browser[b].step = "idle"
        /\ counter' = counter /\ backupCodes' = backupCodes /\ UNCHANGED settingsVars
        /\ counter[a].n < Limit(a) /\ counter[ip].n < Limit(ip)
    <2>1. a \in LimiterKeys /\ ip \in LimiterKeys
      BY DEF LimiterKeys
    <2> QED BY <2>1, LimitsArePositive
            DEF StartSignIn, IsRateLimited, SignInInv, CountersAreTyped
  <1>2. new \in BrowserType /\ new.account = a /\ new.ip = ip
    BY DEF BrowserType
  <1> HIDE DEF new
  <1>3. browser' \in [Browsers -> BrowserType]
    BY <1>1, <1>2, BrowserFacts
  <1>4. ASSUME NEW k \in LimiterKeys
        PROVE  counter'[k].n + Cardinality(InFlight(k)') < Limit(k) + Cardinality(Browsers)
    <2>1. /\ counter[k].n \in Nat /\ counter'[k] = counter[k] /\ Limit(k) \in Nat
          /\ counter[k].n + Cardinality(InFlight(k)) < Limit(k) + Cardinality(Browsers)
      BY <1>1, LimitsArePositive DEF SignInInv, CountersAreTyped, ChargesAreFewer
    <2>2. /\ Cardinality(InFlight(k)') \in Nat /\ Cardinality(InFlight(k)) \in Nat
          /\ Cardinality(InFlight(k)') <= Cardinality(Browsers) /\ Cardinality(Browsers) \in Nat
          /\ k \notin {a, ip} => Cardinality(InFlight(k)') <= Cardinality(InFlight(k))
      BY <1>1, <1>2, InFlightMoves, InFlightIsFinite
    <2>3. k \in {a, ip} => counter[k].n < Limit(k)
      BY <1>1
    <2> QED BY <2>1, <2>2, <2>3
  <1>5. ChargesAreFewer'
    BY <1>1, <1>2, <1>4, BrowserFacts DEF SignInInv, ChargesAreFewer, Limit
  <1> QED BY <1>1, <1>3, <1>5, SettingsUntouched, BrowserFacts DEF SignInInv, CountersAreTyped

\* A sign-in goes on; its account and its address stay what they are.
LEMMA ContinueKeeps ==
  ASSUME SignInInv, NEW b \in Browsers,
         AuthenticateUser(b) \/ ReadSecondFactor(b) \/ SpendRecoveryCode(b)
  PROVE  SignInInv'
  <1>1. PICK new \in BrowserType :
          /\ browser' = [browser EXCEPT ![b] = new]
          /\ new.account = browser[b].account /\ new.ip = browser[b].ip /\ new.step # "idle"
    <2>1. ASSUME NEW step \in {"second", "refused", "done", "rejected"}, Continue(b, step)
          PROVE  [browser[b] EXCEPT !.step = step] \in BrowserType
                 /\ browser' = [browser EXCEPT ![b] = [browser[b] EXCEPT !.step = step]]
      BY <2>1, BrowserFacts DEF Continue, BrowserType
    <2>2. CASE \E step \in {"second", "refused", "done", "rejected"} : Continue(b, step)
      <3>1. PICK step \in {"second", "refused", "done", "rejected"} : Continue(b, step)
        BY <2>2
      <3>2. [browser[b] EXCEPT !.step = step].account = browser[b].account
            /\ [browser[b] EXCEPT !.step = step].ip = browser[b].ip
            /\ [browser[b] EXCEPT !.step = step].step = step
        BY BrowserFacts DEF BrowserType
      <3> QED BY <2>1, <3>1, <3>2
    <2>3. CASE \E c \in backupCodes[browser[b].account] :
                 browser' = [browser EXCEPT ![b].step = "spend",
                               ![b].codes = backupCodes[browser[b].account] \ {c}]
               /\ browser[b].step # "idle"
      <3>1. PICK c \in backupCodes[browser[b].account] :
                 browser' = [browser EXCEPT ![b].step = "spend",
                               ![b].codes = backupCodes[browser[b].account] \ {c}]
        BY <2>3
      <3> DEFINE left == backupCodes[browser[b].account] \ {c}
                 new == [browser[b] EXCEPT !.step = "spend", !.codes = left]
      <3>2. left \in SUBSET Codes
        BY <2>3, BrowserFacts DEF SignInInv, ChargesAreFewer
      <3>3. browser' = [browser EXCEPT ![b] = new]
        BY <3>1
      <3> HIDE DEF left
      <3>4. /\ new \in BrowserType /\ new.step = "spend"
            /\ new.account = browser[b].account /\ new.ip = browser[b].ip
        BY <3>2, BrowserFacts DEF BrowserType
      <3> HIDE DEF new
      <3> QED BY <3>3, <3>4
    <2> QED BY <2>2, <2>3 DEF AuthenticateUser, ReadSecondFactor, SpendRecoveryCode
  <1>2. /\ browser[b].step # "idle" /\ counter' = counter /\ UNCHANGED settingsVars
        /\ backupCodes' = backupCodes \/ backupCodes' = [backupCodes EXCEPT
                                            ![browser[b].account] = browser[b].codes]
    BY DEF AuthenticateUser, ReadSecondFactor, SpendRecoveryCode
  <1>3. browser' \in [Browsers -> BrowserType] /\ backupCodes' \in [Accounts -> SUBSET Codes]
    BY <1>1, <1>2, BrowserFacts DEF BrowserType
  <1>4. ASSUME NEW k \in LimiterKeys
        PROVE  counter'[k].n + Cardinality(InFlight(k)') < Limit(k) + Cardinality(Browsers)
    <2>1. /\ counter[k].n \in Nat /\ counter'[k] = counter[k] /\ Limit(k) \in Nat
          /\ counter[k].n + Cardinality(InFlight(k)) < Limit(k) + Cardinality(Browsers)
      BY <1>2, LimitsArePositive DEF SignInInv, CountersAreTyped, ChargesAreFewer
    <2>2. /\ Cardinality(InFlight(k)') \in Nat /\ Cardinality(InFlight(k)) \in Nat
          /\ Cardinality(InFlight(k)') <= Cardinality(InFlight(k)) /\ Cardinality(Browsers) \in Nat
      BY <1>1, <1>2, InFlightMoves, InFlightIsFinite
    <2> QED BY <2>1, <2>2
  <1>5. ChargesAreFewer'
    BY <1>1, <1>2, <1>4, BrowserFacts DEF SignInInv, ChargesAreFewer, Limit
  <1> QED BY <1>2, <1>3, <1>5, SettingsUntouched DEF SignInInv, CountersAreTyped

\* A sign-in ends, and is charged, once, to its account or to its address as well.
LEMMA EndKeeps ==
  ASSUME SignInInv, NEW b \in Browsers,
         ChargeRefusal(b) \/ ChargeRejection(b) \/ FinishSignIn(b)
  PROVE  SignInInv'
  <1>1. /\ browser' = [browser EXCEPT ![b] = SignedOut] /\ SignedOut.step = "idle"
        /\ browser[b].step # "idle" /\ UNCHANGED settingsVars /\ backupCodes' = backupCodes
        /\ browser[b].account \in Accounts
    BY DEF ChargeRefusal, ChargeRejection, FinishSignIn, SignOut, SignedOut, SignInInv,
           ChargesAreFewer
  <1>2. PICK charged \in SUBSET {browser[b].account, browser[b].ip} :
          \/ counter' = [k \in LimiterKeys |-> IF k \in charged THEN Charged(k) ELSE counter[k]]
          \/ charged = {} /\ counter' = [counter EXCEPT ![browser[b].account] = NoCounter]
          \/ charged = {} /\ counter' = counter
    BY DEF ChargeRefusal, ChargeRejection, FinishSignIn, Consume
  <1>3. \A k \in LimiterKeys : Charged(k) \in [n : Nat, ttl : 0..WindowTicks]
                               /\ Charged(k).n = counter[k].n + 1
    BY SignInAssumption DEF Charged, SignInInv, CountersAreTyped
  <1>4. NoCounter \in [n : Nat, ttl : 0..WindowTicks] /\ NoCounter.n = 0
    BY SignInAssumption DEF NoCounter
  <1>5. CountersAreTyped'
    BY <1>2, <1>3, <1>4 DEF SignInInv, CountersAreTyped
  <1>6. \A k \in LimiterKeys :
          counter'[k].n <= IF k \in charged THEN counter[k].n + 1 ELSE counter[k].n
    <2> SUFFICES ASSUME NEW k \in LimiterKeys
                 PROVE  counter'[k].n <= IF k \in charged THEN counter[k].n + 1
                                         ELSE counter[k].n
      OBVIOUS
    <2>1. counter[k].n \in Nat /\ counter \in [LimiterKeys -> [n : Nat, ttl : 0..WindowTicks]]
      BY DEF SignInInv, CountersAreTyped
    <2> QED BY <1>2, <1>3, <1>4, <2>1
  <1>7. browser' \in [Browsers -> BrowserType]
    BY <1>1, BrowserFacts
  <1>8. ASSUME NEW k \in LimiterKeys
        PROVE  counter'[k].n + Cardinality(InFlight(k)') < Limit(k) + Cardinality(Browsers)
    <2>1. /\ counter[k].n \in Nat /\ counter'[k].n \in Nat /\ Limit(k) \in Nat
          /\ counter[k].n + Cardinality(InFlight(k)) < Limit(k) + Cardinality(Browsers)
      BY <1>5, LimitsArePositive DEF SignInInv, CountersAreTyped, ChargesAreFewer
    <2>2. k \in charged => b \in InFlight(k)
      BY <1>1, <1>2 DEF InFlight
    <2>3. /\ Cardinality(InFlight(k)') \in Nat /\ Cardinality(InFlight(k)) \in Nat
          /\ Cardinality(InFlight(k)') <= Cardinality(InFlight(k)) /\ Cardinality(Browsers) \in Nat
          /\ b \in InFlight(k) => Cardinality(InFlight(k)') = Cardinality(InFlight(k)) - 1
      BY <1>1, BrowserFacts, InFlightMoves, InFlightIsFinite
    <2> QED BY <1>6, <2>1, <2>2, <2>3
  <1>9. ChargesAreFewer'
    BY <1>1, <1>8, BrowserFacts DEF SignInInv, ChargesAreFewer, Limit
  <1> QED BY <1>1, <1>5, <1>7, <1>9, SettingsUntouched, BrowserFacts

LEMMA ExpiryKeeps ==
  ASSUME SignInInv, ExpireWindows PROVE SignInInv'
  <1>1. /\ UNCHANGED settingsVars /\ backupCodes' = backupCodes /\ browser' = browser
        /\ counter' = [k \in LimiterKeys |->
             IF counter[k].ttl <= 1 THEN NoCounter
             ELSE [counter[k] EXCEPT !.ttl = counter[k].ttl - 1]]
    BY DEF ExpireWindows
  <1>2. ASSUME NEW k \in LimiterKeys
        PROVE  counter'[k] \in [n : Nat, ttl : 0..WindowTicks] /\ counter'[k].n <= counter[k].n
    <2>1. counter[k] \in [n : Nat, ttl : 0..WindowTicks]
      BY DEF SignInInv, CountersAreTyped
    <2> QED BY <1>1, <2>1, SignInAssumption DEF NoCounter
  <1>3. CountersAreTyped'
    BY <1>1, <1>2 DEF CountersAreTyped
  <1>4. ASSUME NEW k \in LimiterKeys
        PROVE  counter'[k].n + Cardinality(InFlight(k)') < Limit(k) + Cardinality(Browsers)
    <2>1. /\ counter[k].n \in Nat /\ counter'[k].n \in Nat /\ Limit(k) \in Nat
          /\ counter[k].n + Cardinality(InFlight(k)) < Limit(k) + Cardinality(Browsers)
      BY <1>2, LimitsArePositive DEF SignInInv, CountersAreTyped, ChargesAreFewer
    <2>2. InFlight(k)' = InFlight(k)
      BY <1>1 DEF InFlight
    <2> QED BY <1>2, <2>1, <2>2, InFlightIsFinite
  <1>5. ChargesAreFewer'
    BY <1>1, <1>4 DEF SignInInv, ChargesAreFewer, Limit
  <1>6. browser' \in [Browsers -> BrowserType] /\ backupCodes' \in [Accounts -> SUBSET Codes]
    BY <1>1 DEF SignInInv, SignInTypeOK, BrowserType
  <1> QED BY <1>1, <1>3, <1>5, <1>6, SettingsUntouched

\* A step of the settings leaves the sign-ins alone.
LEMMA SignInsUntouched ==
  ASSUME SignInInv, counter' = counter, browser' = browser,
         totpEnabled' \in [Accounts -> BOOLEAN],
         totpSecret' \in [Accounts -> Secrets \cup {NoSecret}],
         backupCodes' \in [Accounts -> SUBSET Codes], drawnSecrets' \subseteq Secrets,
         authenticator' \in [Accounts -> SUBSET Secrets],
         page' \in [Pages -> PageType], overtaken' \subseteq Accounts,
         ChecksHoldUntilOvertaken', EnabledSecretIsScanned'
  PROVE  SignInInv'
  <1>1. SignInTypeOK'
    BY DEF SignInInv, SignInTypeOK, PageType
  <1>2. ASSUME NEW k PROVE InFlight(k)' = InFlight(k)
    BY DEF InFlight
  <1>3. CountersAreTyped' /\ ChargesAreFewer'
    BY <1>2 DEF SignInInv, CountersAreTyped, ChargesAreFewer, Limit
  <1> QED BY <1>1, <1>3 DEF SignInInv

LEMMA PageFacts ==
  ASSUME SignInInv
  PROVE  /\ page \in [Pages -> PageType] /\ Closed \in PageType
         /\ totpEnabled \in [Accounts -> BOOLEAN]
         /\ totpSecret \in [Accounts -> Secrets \cup {NoSecret}]
         /\ backupCodes \in [Accounts -> SUBSET Codes]
         /\ drawnSecrets \subseteq Secrets /\ overtaken \subseteq Accounts
         /\ authenticator \in [Accounts -> SUBSET Secrets]
  BY DEF SignInInv, SignInTypeOK, PageType, Closed

\* A step that does not write: the page p becomes new.
LEMMA PageMoves ==
  ASSUME SignInInv, NEW p \in Pages, NEW new \in PageType,
         page' = [page EXCEPT ![p] = new],
         UNCHANGED <<counter, totpEnabled, totpSecret, backupCodes, drawnSecrets,
                     authenticator, browser, overtaken>>,
         new.step # "idle" => new.account \in Accounts,
         new.step = "confirm" =>
           new.secret \in Secrets /\ totpSecret[new.account] \in authenticator[new.account],
         new.step = "begin" => ~totpEnabled[new.account]
  PROVE  SignInInv'
  <1>1. \A q \in Pages : page'[q] = IF q = p THEN new ELSE page[q]
    BY PageFacts
  <1>2. page' \in [Pages -> PageType]
    BY PageFacts
  <1>3. ChecksHoldUntilOvertaken'
    BY <1>1 DEF SignInInv, ChecksHoldUntilOvertaken
  <1>4. EnabledSecretIsScanned'
    BY DEF SignInInv, EnabledSecretIsScanned
  <1> QED BY <1>2, <1>3, <1>4, PageFacts, SignInsUntouched

\* A code that is accepted comes from a secret that was scanned.
LEMMA CodeMeansScanned ==
  ASSUME NEW a, ShowsCode(a) PROVE totpSecret[a] \in authenticator[a]
  BY DEF ShowsCode, VerifyCode

LEMMA ReadingKeeps ==
  ASSUME SignInInv, NEW p \in Pages,
         \/ \E a \in Accounts : LoadPage(p, a)
         \/ CheckSetting(p) \/ FailSetting(p)
  PROVE  SignInInv'
  <1>1. ASSUME NEW a \in Accounts, LoadPage(p, a) PROVE SignInInv'
    <2> DEFINE new == [Closed EXCEPT !.account = a,
                                     !.view = IF totpEnabled[a] THEN "on" ELSE "off"]
    <2>1. new \in PageType /\ new.step = "idle"
      BY DEF Closed, PageType
    <2>2. page' = [page EXCEPT ![p] = new]
      BY <1>1 DEF LoadPage
    <2> HIDE DEF new
    <2> QED BY <1>1, <2>1, <2>2, PageMoves DEF LoadPage
  <1>2. CASE CheckSetting(p)
    <2> DEFINE a == page[p].account
    <2>1. PICK step \in {"begin", "confirm", "disable"} :
            /\ step = "begin" => MayBegin(a)
            /\ step = "confirm" => MayConfirm(a)
            /\ page' = [page EXCEPT ![p].step = step, ![p].secret = totpSecret[a]]
      BY <1>2 DEF CheckSetting
    <2> DEFINE new == [page[p] EXCEPT !.step = step, !.secret = totpSecret[a]]
    <2>2. page[p] \in PageType /\ a \in Accounts
      BY <1>2, PageFacts DEF CheckSetting, PageType
    <2>3. totpSecret[a] \in Secrets \cup {NoSecret}
      BY <2>2, PageFacts
    <2>4. /\ new \in PageType /\ new.step = step /\ new.account = a
          /\ new.secret = totpSecret[a]
      BY <2>2, <2>3 DEF PageType
    <2>5. page' = [page EXCEPT ![p] = new]
      BY <2>1
    <2> HIDE DEF new, a
    <2>6. step = "confirm" => new.secret \in Secrets /\ totpSecret[a] \in authenticator[a]
      BY <2>1, <2>3, <2>4, CodeMeansScanned DEF MayConfirm
    <2>7. step = "begin" => ~totpEnabled[a]
      BY <2>1 DEF MayBegin
    <2> QED BY <1>2, <2>2, <2>4, <2>5, <2>6, <2>7, PageMoves DEF CheckSetting
  <1>3. CASE FailSetting(p)
    <2> DEFINE new == [page[p] EXCEPT !.step = "idle", !.secret = NoSecret]
    <2>1. new \in PageType /\ new.step = "idle"
      BY PageFacts DEF PageType
    <2>2. page' = [page EXCEPT ![p] = new]
      BY <1>3 DEF FailSetting
    <2> HIDE DEF new
    <2> QED BY <1>3, <2>1, <2>2, PageMoves DEF FailSetting
  <1> QED BY <1>1, <1>2, <1>3

LEMMA ScanKeeps ==
  ASSUME SignInInv, NEW p \in Pages, ScanSecret(p) PROVE SignInInv'
  <1>1. /\ authenticator' = [authenticator EXCEPT ![page[p].account] =
                               authenticator[page[p].account] \cup {page[p].shows}]
        /\ UNCHANGED <<counter, totpEnabled, totpSecret, backupCodes, drawnSecrets, browser,
                       page, overtaken>>
        /\ page[p].shows \in Secrets
    BY PageFacts DEF ScanSecret, PageType
  <1>2. /\ authenticator' \in [Accounts -> SUBSET Secrets]
        /\ \A a \in Accounts : authenticator[a] \subseteq authenticator'[a]
    BY <1>1, PageFacts
  <1>3. ChecksHoldUntilOvertaken' /\ EnabledSecretIsScanned'
    BY <1>1, <1>2 DEF SignInInv, ChecksHoldUntilOvertaken, EnabledSecretIsScanned
  <1> QED BY <1>1, <1>2, <1>3, PageFacts, SignInsUntouched

\* What a write leaves of the page, and whom it overtakes.
LEMMA WriteMoves ==
  ASSUME SignInInv, NEW p \in Pages, NEW step \in {"begin", "confirm", "disable"},
         NEW view \in {"off", "codes"}, NEW shows \in Secrets \cup {NoSecret},
         WriteSetting(p, step, view, shows)
  PROVE  /\ page' \in [Pages -> PageType] /\ page[p].step = step
         /\ page'[p].step = "idle" /\ \A q \in Pages \ {p} : page'[q] = page[q]
         /\ page[p].account \in Accounts
         /\ overtaken \subseteq overtaken' /\ overtaken' \subseteq Accounts
         /\ \A q \in Pages \ {p} :
              page[q].account = page[p].account /\ page[q].step # "idle" =>
                page[p].account \in overtaken'
         /\ counter' = counter /\ authenticator' = authenticator /\ browser' = browser
  <1> DEFINE answered == [page[p] EXCEPT !.step = "idle", !.secret = NoSecret]
             told == [answered EXCEPT !.view = view, !.shows = shows]
  <1>1. page[p] \in PageType /\ page[p].step = step /\ page[p].account \in Accounts
    BY PageFacts DEF WriteSetting, SignInInv, ChecksHoldUntilOvertaken
  <1>2. answered \in PageType /\ answered.step = "idle"
    BY <1>1 DEF PageType
  <1>3. page' = [page EXCEPT ![p] = told] \/ page' = [page EXCEPT ![p] = answered]
    BY DEF WriteSetting
  <1> HIDE DEF answered
  <1>4. told \in PageType /\ told.step = "idle"
    BY <1>2 DEF PageType
  <1> HIDE DEF told
  <1>5. /\ page' \in [Pages -> PageType] /\ page'[p].step = "idle"
        /\ \A q \in Pages \ {p} : page'[q] = page[q]
    BY <1>2, <1>3, <1>4, PageFacts
  <1>6. /\ overtaken \subseteq overtaken' /\ overtaken' \subseteq Accounts
        /\ \A q \in Pages \ {p} :
              page[q].account = page[p].account /\ page[q].step # "idle" =>
                page[p].account \in overtaken'
        /\ counter' = counter /\ authenticator' = authenticator /\ browser' = browser
    BY <1>1, PageFacts DEF WriteSetting
  <1> QED BY <1>1, <1>5, <1>6

\* The account that is written to is either left to the request alone or overtaken.
LEMMA WriteKeeps ==
  ASSUME SignInInv, NEW p \in Pages,
         (\E s \in Secrets : BeginTotpSetup(p, s)) \/ ConfirmTotpSetup(p) \/ DisableTotp(p)
  PROVE  SignInInv'
  <1> DEFINE a == page[p].account
  <1>1. PICK step \in {"begin", "confirm", "disable"}, view \in {"off", "codes"},
             shows \in Secrets \cup {NoSecret} : WriteSetting(p, step, view, shows)
    BY DEF BeginTotpSetup, ConfirmTotpSetup, DisableTotp
  <1>2. /\ page' \in [Pages -> PageType] /\ page'[p].step = "idle"
        /\ \A q \in Pages \ {p} : page'[q] = page[q]
        /\ a \in Accounts
        /\ overtaken \subseteq overtaken' /\ overtaken' \subseteq Accounts
        /\ \A q \in Pages \ {p} :
              page[q].account = a /\ page[q].step # "idle" => a \in overtaken'
        /\ counter' = counter /\ authenticator' = authenticator /\ browser' = browser
    BY <1>1, WriteMoves
  <1>3. /\ page[p].step = "begin" /\ a \notin overtaken => ~totpEnabled[a]
        /\ page[p].step = "confirm" => page[p].secret \in Secrets
        /\ page[p].step = "confirm" /\ a \notin overtaken => totpSecret[a] \in authenticator[a]
    BY DEF SignInInv, ChecksHoldUntilOvertaken
  <1> HIDE DEF a
  <1>4. PICK on \in BOOLEAN, s \in Secrets \cup {NoSecret}, codes \in SUBSET Codes :
          /\ totpEnabled' = [totpEnabled EXCEPT ![a] = on]
          /\ totpSecret' = [totpSecret EXCEPT ![a] = s]
          /\ backupCodes' = [backupCodes EXCEPT ![a] = codes]
          /\ drawnSecrets' \subseteq Secrets
          /\ on /\ a \notin overtaken => s \in authenticator[a]
    <2>1. /\ totpEnabled[a] \in BOOLEAN /\ totpEnabled = [totpEnabled EXCEPT ![a] = totpEnabled[a]]
          /\ totpSecret[a] \in Secrets \cup {NoSecret}
          /\ totpSecret = [totpSecret EXCEPT ![a] = totpSecret[a]]
          /\ backupCodes[a] \in SUBSET Codes
          /\ backupCodes = [backupCodes EXCEPT ![a] = backupCodes[a]]
      BY <1>2, PageFacts
    <2>2. CASE \E s \in Secrets : BeginTotpSetup(p, s)
      <3>1. PICK s \in Secrets : BeginTotpSetup(p, s)
        BY <2>2
      <3>2. /\ totpSecret' = [totpSecret EXCEPT ![a] = s] /\ totpEnabled' = totpEnabled
            /\ backupCodes' = backupCodes /\ drawnSecrets' = drawnSecrets \cup {s}
            /\ page[p].step = "begin"
        BY <3>1 DEF BeginTotpSetup, WriteSetting, a
      <3>3. /\ drawnSecrets' \subseteq Secrets /\ s \in Secrets \cup {NoSecret}
            /\ totpEnabled' = [totpEnabled EXCEPT ![a] = totpEnabled[a]]
            /\ backupCodes' = [backupCodes EXCEPT ![a] = backupCodes[a]]
            /\ totpEnabled[a] /\ a \notin overtaken => s \in authenticator[a]
        BY <1>3, <2>1, <3>2, PageFacts
      <3> HIDE DEF a
      <3> QED BY <2>1, <3>2, <3>3
    <2>3. CASE ConfirmTotpSetup(p)
      <3> DEFINE codes == {page[p].secret} \X RecoveryCodes
      <3>1. /\ totpEnabled' = [totpEnabled EXCEPT ![a] = TRUE] /\ totpSecret' = totpSecret
            /\ backupCodes' = [backupCodes EXCEPT ![a] = codes]
            /\ drawnSecrets' = drawnSecrets /\ page[p].step = "confirm"
        BY <2>3 DEF ConfirmTotpSetup, WriteSetting, a
      <3>2. codes \in SUBSET Codes
        BY <1>3, <3>1 DEF Codes
      <3> HIDE DEF codes
      <3> QED BY <1>3, <2>1, <3>1, <3>2, PageFacts
    <2>4. CASE DisableTotp(p)
      <3>1. /\ totpEnabled' = [totpEnabled EXCEPT ![a] = FALSE]
            /\ totpSecret' = [totpSecret EXCEPT ![a] = NoSecret]
            /\ backupCodes' = [backupCodes EXCEPT ![a] = {}] /\ drawnSecrets' = drawnSecrets
        BY <2>4 DEF DisableTotp, a
      <3>2. /\ FALSE \in BOOLEAN /\ NoSecret \in Secrets \cup {NoSecret}
            /\ {} \in SUBSET Codes /\ drawnSecrets' \subseteq Secrets
        BY <3>1, PageFacts
      <3> HIDE DEF a
      <3> WITNESS FALSE \in BOOLEAN, NoSecret \in Secrets \cup {NoSecret}, {} \in SUBSET Codes
      <3> QED BY <3>1, <3>2
    <2> QED BY <2>2, <2>3, <2>4
  <1>5. /\ totpEnabled' \in [Accounts -> BOOLEAN]
        /\ totpSecret' \in [Accounts -> Secrets \cup {NoSecret}]
        /\ backupCodes' \in [Accounts -> SUBSET Codes]
    BY <1>2, <1>4, PageFacts
  <1>6. \A b \in Accounts : /\ totpEnabled'[b] = IF b = a THEN on ELSE totpEnabled[b]
                            /\ totpSecret'[b] = IF b = a THEN s ELSE totpSecret[b]
    BY <1>4, PageFacts
  <1>7. EnabledSecretIsScanned'
    BY <1>2, <1>4, <1>6 DEF SignInInv, EnabledSecretIsScanned
  <1>8. ASSUME NEW q \in Pages
        PROVE  /\ page'[q].step # "idle" => page'[q].account \in Accounts
               /\ page'[q].step = "confirm" => page'[q].secret \in Secrets
               /\ page'[q].step = "begin" /\ page'[q].account \notin overtaken' =>
                    ~totpEnabled'[page'[q].account]
               /\ page'[q].step = "confirm" /\ page'[q].account \notin overtaken' =>
                    totpSecret'[page'[q].account] \in authenticator'[page'[q].account]
    <2>1. CASE q = p
      BY <1>2, <2>1
    <2>2. CASE q # p
      BY <1>2, <1>6, <2>2 DEF SignInInv, ChecksHoldUntilOvertaken
    <2> QED BY <2>1, <2>2
  <1>9. ChecksHoldUntilOvertaken'
    BY <1>8 DEF ChecksHoldUntilOvertaken
  <1> QED BY <1>2, <1>4, <1>5, <1>7, <1>9, PageFacts, SignInsUntouched

LEMMA SignInStepKeeps ==
  SignInInv /\ [SignInNext]_signInVars => SignInInv'
  <1> SUFFICES ASSUME SignInInv, [SignInNext]_signInVars PROVE SignInInv'
    OBVIOUS
  <1>1. ASSUME NEW b \in Browsers,
               (\E a \in Accounts, ip \in Ips : StartSignIn(b, a, ip)) \/ SignInStep(b)
        PROVE  SignInInv'
    BY <1>1, StartSignInKeeps, ContinueKeeps, EndKeeps DEF SignInStep
  <1>2. ASSUME NEW p \in Pages,
               \/ \E a \in Accounts : LoadPage(p, a)
               \/ CheckSetting(p) \/ ScanSecret(p)
               \/ \E s \in Secrets : BeginTotpSetup(p, s)
               \/ ConfirmTotpSetup(p) \/ DisableTotp(p) \/ FailSetting(p)
        PROVE  SignInInv'
    BY <1>2, ReadingKeeps, ScanKeeps, WriteKeeps
  <1>3. CASE ExpireWindows
    BY <1>3, ExpiryKeeps
  <1>4. CASE UNCHANGED signInVars
    <2>1. UNCHANGED <<counter, totpEnabled, totpSecret, backupCodes, drawnSecrets,
                      authenticator, browser, page, overtaken>>
      BY <1>4 DEF signInVars
    <2>2. ChecksHoldUntilOvertaken' /\ EnabledSecretIsScanned'
      BY <2>1 DEF SignInInv, ChecksHoldUntilOvertaken, EnabledSecretIsScanned
    <2> QED BY <2>1, <2>2, PageFacts, SignInsUntouched
  <1> QED BY <1>1, <1>2, <1>3, <1>4 DEF SignInNext

\* Whatever number of sign-ins pass the check together, an account or an address
\* is charged less than its limit and one failure for each of them (authorize).
THEOREM OvershootBounded == SignInSpec => []OvershootIsBounded
  <1>1. SignInInv => OvershootIsBounded
    <2> SUFFICES ASSUME SignInInv, NEW k \in LimiterKeys
                 PROVE  counter[k].n < Limit(k) + Cardinality(Browsers)
      BY DEF OvershootIsBounded
    <2>1. /\ counter[k].n \in Nat /\ Limit(k) \in Nat
          /\ counter[k].n + Cardinality(InFlight(k)) < Limit(k) + Cardinality(Browsers)
      BY LimitsArePositive DEF SignInInv, CountersAreTyped, ChargesAreFewer
    <2> QED BY <2>1, InFlightIsFinite
  <1> QED BY <1>1, SignInInitially, SignInStepKeeps, PTL DEF SignInSpec

\* However many pages change the two-factor settings, an account that no two of
\* them change at once is only protected by a secret its owner has scanned
\* (beginTotpSetup, confirmTotpSetup and disableTotp).
THEOREM NobodyLockedOut == SignInSpec => []EnabledSecretIsScanned
  <1>1. SignInInv => EnabledSecretIsScanned
    BY DEF SignInInv
  <1> QED BY <1>1, SignInInitially, SignInStepKeeps, PTL DEF SignInSpec

\* The type invariant of the accounts.
THEOREM SignInTypeCorrect == SignInSpec => []SignInTypeOK
  <1>1. SignInInv => SignInTypeOK
    BY DEF SignInInv
  <1> QED BY <1>1, SignInInitially, SignInStepKeeps, PTL DEF SignInSpec

-----------------------------------------------------------------------------
(* Teams. That there is exactly one Owner is not inductive: a write does   *)
(* not check again what its request has checked. It holds because a request*)
(* that has passed its checks is harmless (RequestsAreHarmless), however   *)
(* much the team has changed since: nobody outranks an Owner or may give   *)
(* that role away, and the founder, alone in the role, may not leave. An   *)
(* invitation is harmless likewise, since the founder is a member when it  *)
(* is written.                                                             *)

RequestType ==
  [step : Steps, user : Users \cup {NoUser}, rank : 0..100,
   perms : SUBSET Permissions, who : Users \cup {NoUser},
   role : Roles \cup {NoRole}, row : 0..InviteLimit]

\* A request c of a team that was founded by f.
Harmless(c, f) ==
  /\ c.step # "idle" => c.user \in Users
  /\ c.step \in {"invite", "revoke", "change", "remove"} => c.who \in Users
  /\ c.step \in {"invite", "change", "accept"} => c.role # "Owner"
  /\ c.step \in {"invite", "change", "remove"} => c.who # f
  /\ c.step = "accept" => c.user # f
  /\ c.step = "newRole" => c.role \in CustomRoles

RequestsAreHarmless == \A q \in Requests : Harmless(request[q], founder)

InvitesAreHarmless ==
  \A u \in Users : invite[u].role # "Owner" /\ (u = founder => invite[u].state # "open")

\* Before there is a team, nothing is under way that could change it.
NothingBeforeTheTeam ==
  teamKind = "none" =>
    /\ \A q \in Requests : request[q].step \in {"idle", "elsewhere"}
    /\ \A u \in Users : invite[u] = NoInvite

TeamsInv ==
  /\ TeamsTypeOK /\ ExactlyOneOwner /\ RolesAreOfTheTeam
  /\ RequestsAreHarmless /\ InvitesAreHarmless /\ NothingBeforeTheTeam

-----------------------------------------------------------------------------
(* Ranks, owners and requests.                                             *)

LEMMA RoleFacts ==
  /\ SystemRoles \subseteq Roles /\ "Owner" \in Roles
  /\ TeamRoles \subseteq Roles \/ ~TeamsTypeOK
  /\ NoRole \notin Roles /\ NoRole # "Owner" /\ NoUser \notin Users
  BY TeamsAssumption DEF Roles, SystemRoles, TeamRoles, TeamsTypeOK

LEMMA Ranks == /\ Rank("Owner") = 100
               /\ \A r \in Roles : Rank(r) \in 0..100
  BY TeamsAssumption DEF Rank, Roles, SystemRoles

\* Nobody outranks an Owner.
LEMMA NotAboveOwner ==
  ASSUME NEW c \in RequestType, NEW r, Outranks(c, r) PROVE r # "Owner"
  BY Ranks DEF Outranks, RequestType

LEMMA FounderIsOwner ==
  ASSUME TeamsInv, Exists
  PROVE  founder \in Users /\ member[founder] = "Owner" /\ Cardinality(Owners) = 1
  BY FS_Singleton DEF TeamsInv, ExactlyOneOwner, Owners

LEMMA NobodyWithoutTeam ==
  ASSUME TeamsInv, ~Exists PROVE \A u \in Users : ~IsMember(u)
  BY RoleFacts DEF TeamsInv, RolesAreOfTheTeam, TeamRoles, IsMember

LEMMA EndedFacts == Ended \in RequestType /\ \A f : Harmless(Ended, f)
  BY TeamsAssumption DEF Ended, RequestType, Steps, Harmless

\* The request q becomes c.
LEMMA Moved ==
  ASSUME TeamsInv, NEW q \in Requests, NEW c \in RequestType, Harmless(c, founder),
         request' = [request EXCEPT ![q] = c], founder' = founder
  PROVE  /\ request' \in [Requests -> RequestType]
         /\ RequestsAreHarmless'
         /\ \A p \in Requests \ {q} : request'[p] = request[p]
         /\ request'[q] = c
  BY DEF TeamsInv, TeamsTypeOK, RequestType, RequestsAreHarmless

LEMMA EndMoves ==
  ASSUME TeamsInv, NEW q \in Requests, End(q), founder' = founder
  PROVE  /\ request' \in [Requests -> RequestType]
         /\ RequestsAreHarmless'
         /\ \A p \in Requests : request'[p].step \in {request[p].step, "idle"}
  BY EndedFacts, Moved DEF End, Ended

LEMMA ProceedMoves ==
  ASSUME TeamsInv, NEW q \in Requests, request[q].step # "idle", founder' = founder,
         NEW step \in Steps, NEW u \in Users \cup {NoUser}, NEW r \in Roles \cup {NoRole},
         Proceed(q, step, u, r),
         step # "accept",
         step \in {"invite", "revoke", "change", "remove"} => u \in Users,
         step \in {"invite", "change"} => r # "Owner",
         step \in {"invite", "change", "remove"} => u # founder,
         step = "newRole" => r \in CustomRoles
  PROVE  request' \in [Requests -> RequestType] /\ RequestsAreHarmless'
  <1> DEFINE c == [Ended EXCEPT !.step = step, !.user = request[q].user, !.who = u, !.role = r]
  <1>1. request[q].user \in Users
    BY DEF TeamsInv, RequestsAreHarmless, Harmless
  <1>2. /\ c \in RequestType
        /\ c.step = step /\ c.user = request[q].user /\ c.who = u /\ c.role = r
    BY <1>1, EndedFacts DEF RequestType
  <1>3. request' = [request EXCEPT ![q] = c]
    BY DEF Proceed
  <1> HIDE DEF c
  <1>4. Harmless(c, founder)
    BY <1>1, <1>2 DEF Harmless
  <1> QED BY <1>2, <1>3, <1>4, Moved

\* A step of a request that leaves the team, its members and its invitations alone.
LEMMA TeamUntouched ==
  ASSUME TeamsInv, NEW q \in Requests,
         request' \in [Requests -> RequestType], RequestsAreHarmless',
         UNCHANGED <<teamKind, founder, customRoles, rolePerms, member, invite>>,
         registered' \subseteq Users, activeHere' \subseteq Users,
         teamKind = "none" => \A p \in Requests : request'[p].step \in {"idle", "elsewhere"}
  PROVE  TeamsInv'
  <1>1. TeamsTypeOK'
    BY DEF TeamsInv, TeamsTypeOK, RequestType
  <1>2. ExactlyOneOwner' /\ RolesAreOfTheTeam'
    BY DEF TeamsInv, ExactlyOneOwner, RolesAreOfTheTeam, Exists, Owners, TeamRoles
  <1>3. InvitesAreHarmless' /\ NothingBeforeTheTeam'
    BY DEF TeamsInv, InvitesAreHarmless, NothingBeforeTheTeam
  <1> QED BY <1>1, <1>2, <1>3 DEF TeamsInv

LEMMA TeamsInitially == TeamsInit => TeamsInv
  <1> SUFFICES ASSUME TeamsInit PROVE TeamsInv
    OBVIOUS
  <1> USE DEF TeamsInit
  <1>1. \A r \in Roles : Seeded(r) \in SUBSET Permissions
    BY DEF Seeded
  <1>2. TeamsTypeOK
    BY <1>1, EndedFacts, TeamsAssumption, RoleFacts
       DEF TeamsTypeOK, RequestType, NoInvite, InviteType
  <1>3. ExactlyOneOwner /\ RolesAreOfTheTeam
    BY DEF ExactlyOneOwner, RolesAreOfTheTeam, Exists, NoInvite
  <1>4. RequestsAreHarmless /\ InvitesAreHarmless /\ NothingBeforeTheTeam
    BY EndedFacts, RoleFacts
       DEF RequestsAreHarmless, InvitesAreHarmless, NothingBeforeTheTeam, NoInvite, Ended
  <1> QED BY <1>2, <1>3, <1>4 DEF TeamsInv

-----------------------------------------------------------------------------
(* Registration, contexts and checks.                                      *)

LEMMA ContextKeeps ==
  ASSUME TeamsInv, NEW q \in Requests, NEW u \in Users,
         RegisterUser(q, u) \/ GetTeamContext(q, u)
  PROVE  TeamsInv'
  <1> DEFINE away == [Ended EXCEPT !.step = "elsewhere", !.user = u]
             here == [Ended EXCEPT !.step = "here", !.user = u,
                        !.rank = Rank(member[u]), !.perms = rolePerms[member[u]]]
  <1>1. /\ UNCHANGED <<teamKind, founder, customRoles, rolePerms, member, invite, activeHere>>
        /\ registered' \subseteq Users /\ activeHere \subseteq Users
    BY DEF RegisterUser, GetTeamContext, teamVars, rolesVars, TeamsInv, TeamsTypeOK
  <1>2. \/ request' = [request EXCEPT ![q] = away]
        \/ IsMember(u) /\ request' = [request EXCEPT ![q] = here]
    BY DEF RegisterUser, GetTeamContext
  <1>3. away \in RequestType /\ Harmless(away, founder) /\ away.step = "elsewhere"
    BY EndedFacts DEF RequestType, Harmless, Ended, Steps
  <1>4. IsMember(u) => here \in RequestType /\ Harmless(here, founder)
    <2> HAVE IsMember(u)
    <2>1. member[u] \in Roles
      BY DEF TeamsInv, TeamsTypeOK, IsMember
    <2>2. Rank(member[u]) \in 0..100 /\ rolePerms[member[u]] \in SUBSET Permissions
      BY <2>1, Ranks DEF TeamsInv, TeamsTypeOK
    <2> QED BY <2>2, EndedFacts DEF RequestType, Harmless, Ended, Steps
  <1>5. IsMember(u) => teamKind # "none"
    BY NobodyWithoutTeam DEF Exists
  <1> HIDE DEF away, here
  <1>6. /\ request' \in [Requests -> RequestType] /\ RequestsAreHarmless'
        /\ teamKind = "none" => \A p \in Requests : request'[p].step \in {"idle", "elsewhere"}
    <2>1. CASE request' = [request EXCEPT ![q] = away]
      BY <2>1, <1>1, <1>3, Moved DEF TeamsInv, NothingBeforeTheTeam
    <2>2. CASE IsMember(u) /\ request' = [request EXCEPT ![q] = here]
      BY <2>2, <1>1, <1>4, <1>5, Moved
    <2> QED BY <1>2, <2>1, <2>2
  <1> QED BY <1>1, <1>6, TeamUntouched

\* A member who is outranked, or may leave, is not the founder.
LEMMA FounderIsSafe ==
  ASSUME TeamsInv, NEW c \in RequestType, NEW u \in Users, IsMember(u),
         Outranks(c, member[u]) \/ NotLastOwner(u)
  PROVE  u # founder
  <1>1. Exists
    BY NobodyWithoutTeam
  <1>2. member[founder] = "Owner" /\ Cardinality(Owners) = 1
    BY <1>1, FounderIsOwner
  <1>3. CASE Outranks(c, member[u])
    BY <1>2, <1>3, NotAboveOwner
  <1>4. CASE NotLastOwner(u)
    BY <1>2, <1>4 DEF NotLastOwner
  <1> QED BY <1>3, <1>4

LEMMA CheckHereKeeps ==
  ASSUME TeamsInv, NEW q \in Requests, CheckHere(q) PROVE TeamsInv'
  <1> DEFINE c == request[q]
  <1>0. /\ c \in RequestType /\ c.step = "here" /\ c.user \in Users
        /\ UNCHANGED <<teamKind, founder, customRoles, rolePerms, member, invite>>
        /\ registered' \subseteq Users /\ activeHere' \subseteq Users
        /\ teamKind # "none"
    BY DEF CheckHere, TeamsInv, TeamsTypeOK, RequestType, RequestsAreHarmless, Harmless,
           teamVars, rolesVars, NothingBeforeTheTeam
  <1> HIDE DEF c
  <1>1. ASSUME NEW u \in Users, NEW r \in Roles,
               \/ MayInvite(c, u, r) /\ Proceed(q, "invite", u, r)
               \/ MayChange(c, u, r) /\ Proceed(q, "change", u, r)
        PROVE  request' \in [Requests -> RequestType] /\ RequestsAreHarmless'
    <2>1. Exists /\ r # "Owner"
      BY <1>0, <1>1, NotAboveOwner DEF MayInvite, MayChange, TeamRoles
    <2>2. u # founder
      BY <1>0, <1>1, <2>1, FounderIsOwner, FounderIsSafe, RoleFacts
         DEF MayInvite, MayChange, IsMember
    <2> QED BY <1>0, <1>1, <2>1, <2>2, ProceedMoves DEF c, Steps
  <1>2. ASSUME NEW u \in Users,
               \/ MayRevoke(c, u) /\ Proceed(q, "revoke", u, NoRole)
               \/ MayRemove(c, u) /\ Proceed(q, "remove", u, NoRole)
        PROVE  request' \in [Requests -> RequestType] /\ RequestsAreHarmless'
    <2>1. MayRemove(c, u) => u # founder
      BY <1>0, FounderIsSafe DEF MayRemove
    <2> QED BY <1>0, <1>2, <2>1, ProceedMoves DEF c, Steps
  <1>3. ASSUME MayLeave(c), Proceed(q, "remove", c.user, NoRole)
        PROVE  request' \in [Requests -> RequestType] /\ RequestsAreHarmless'
    <2>1. c.user # founder
      BY <1>0, <1>3, FounderIsSafe DEF MayLeave
    <2> QED BY <1>0, <1>3, <2>1, ProceedMoves DEF c, Steps
  <1>4. ASSUME NEW r \in Roles, NEW step \in {"newRole", "editRole", "dropRole"},
               step = "newRole" => MayCreateRole(c, r), Proceed(q, step, NoUser, r)
        PROVE  request' \in [Requests -> RequestType] /\ RequestsAreHarmless'
    <2>1. step = "newRole" => r \in CustomRoles
      BY <1>4 DEF MayCreateRole
    <2> QED BY <1>0, <1>4, <2>1, ProceedMoves DEF c, Steps
  <1>5. ASSUME Proceed(q, "detach", NoUser, NoRole)
        PROVE  request' \in [Requests -> RequestType] /\ RequestsAreHarmless'
    BY <1>0, <1>5, ProceedMoves DEF c, Steps
  <1>6. request' \in [Requests -> RequestType] /\ RequestsAreHarmless'
    BY <1>1, <1>2, <1>3, <1>4, <1>5 DEF CheckHere, c
  <1> QED BY <1>0, <1>6, TeamUntouched

LEMMA CheckAnywhereKeeps ==
  ASSUME TeamsInv, NEW q \in Requests, CheckAnywhere(q) PROVE TeamsInv'
  <1> DEFINE u == request[q].user
             next == [Ended EXCEPT !.step = "accept", !.user = u,
                                   !.role = invite[u].role, !.row = invite[u].row]
  <1>0. /\ request[q].step # "idle" /\ u \in Users /\ invite[u] \in InviteType
        /\ UNCHANGED <<teamKind, founder, customRoles, rolePerms, member, invite>>
        /\ registered' \subseteq Users /\ activeHere' \subseteq Users
    BY DEF CheckAnywhere, TeamsInv, TeamsTypeOK, RequestsAreHarmless, Harmless, teamVars, rolesVars
  <1>1. CASE invite[u].state = "open" /\ request' = [request EXCEPT ![q] = next]
    <2>1. u # founder /\ invite[u].role # "Owner"
      BY <1>0, <1>1 DEF TeamsInv, InvitesAreHarmless
    <2>2. teamKind # "none"
      BY <1>0, <1>1 DEF TeamsInv, NothingBeforeTheTeam, NoInvite
    <2>3. "accept" \in Steps /\ invite[u].role \in Roles \cup {NoRole}
          /\ invite[u].row \in 0..InviteLimit
      BY <1>0 DEF InviteType, Steps
    <2>4. /\ next \in RequestType
          /\ next.step = "accept" /\ next.user = u /\ next.role = invite[u].role
      BY <1>0, <2>3, EndedFacts DEF RequestType
    <2> HIDE DEF next, u
    <2>5. Harmless(next, founder)
      BY <1>0, <2>1, <2>4 DEF Harmless
    <2> QED BY <1>0, <1>1, <2>2, <2>4, <2>5, Moved, TeamUntouched
  <1>2. CASE IsMember(u) /\ Proceed(q, "activate", NoUser, NoRole)
    <2>1. teamKind # "none"
      BY <1>0, <1>2, NobodyWithoutTeam DEF Exists
    <2>2. request' \in [Requests -> RequestType] /\ RequestsAreHarmless'
      BY <1>0, <1>2, ProceedMoves DEF Steps
    <2> HIDE DEF u
    <2> QED BY <1>0, <2>1, <2>2, TeamUntouched
  <1> QED BY <1>1, <1>2 DEF CheckAnywhere

-----------------------------------------------------------------------------
(* The writes.                                                             *)

\* The founder of a team is the only member whom a request does not reach.
LEMMA CreateTeamKeeps ==
  ASSUME TeamsInv, NEW q \in Requests, NEW kind \in {"personal", "shared"}, CreateTeam(q, kind)
  PROVE  TeamsInv'
  <1> DEFINE u == request[q].user
             next == [Ended EXCEPT !.step = "activate", !.user = u, !.who = NoUser,
                                   !.role = NoRole]
  <1>0. /\ u \in Users /\ founder' = u /\ teamKind' = kind /\ teamKind = "none"
        /\ member' = [member EXCEPT ![u] = "Owner"]
        /\ request' = [request EXCEPT ![q] = next]
        /\ UNCHANGED <<registered, customRoles, rolePerms, invite, activeHere>>
        /\ \A p \in Requests : request[p].step \in {"idle", "elsewhere"}
        /\ \A v \in Users : invite[v] = NoInvite
    BY DEF CreateTeam, Proceed, TeamsInv, RequestsAreHarmless, Harmless, rolesVars,
           NothingBeforeTheTeam
  <1>1. \A v \in Users : member[v] = NoRole
    BY <1>0, NobodyWithoutTeam DEF Exists, IsMember
  <1>2. next \in RequestType /\ \A f : Harmless(next, f)
    BY <1>0, EndedFacts DEF RequestType, Harmless, Ended, Steps
  <1> HIDE DEF next, u
  <1>3. \A v \in Users : member'[v] = IF v = u THEN "Owner" ELSE NoRole
    BY <1>0, <1>1 DEF TeamsInv, TeamsTypeOK
  <1>4. TeamsTypeOK'
    BY <1>0, <1>2, RoleFacts DEF TeamsInv, TeamsTypeOK, RequestType
  <1>5. ExactlyOneOwner'
    BY <1>0, <1>3, RoleFacts DEF ExactlyOneOwner, Owners
  <1>6. RolesAreOfTheTeam'
    BY <1>0, <1>3 DEF RolesAreOfTheTeam, TeamRoles, Exists, SystemRoles, NoInvite
  <1>7. RequestsAreHarmless'
    BY <1>0, <1>2 DEF RequestsAreHarmless, Harmless, TeamsInv, TeamsTypeOK
  <1>8. InvitesAreHarmless' /\ NothingBeforeTheTeam'
    BY <1>0, RoleFacts DEF InvitesAreHarmless, NothingBeforeTheTeam, NoInvite
  <1> QED BY <1>4, <1>5, <1>6, <1>7, <1>8 DEF TeamsInv

LEMMA ActiveKeeps ==
  ASSUME TeamsInv, NEW q \in Requests,
         Activate(q) \/ ActivateOther(q) \/ Forget(q) \/ Abandon(q)
  PROVE  TeamsInv'
  <1>1. /\ End(q) /\ request[q].step # "idle"
        /\ UNCHANGED <<registered, teamKind, founder, customRoles, rolePerms, member, invite>>
        /\ activeHere' \subseteq activeHere \cup {request[q].user}
    BY DEF Activate, ActivateOther, Forget, Abandon, teamVars, rolesVars
  <1>2. activeHere' \subseteq Users /\ registered' \subseteq Users
    BY <1>1 DEF TeamsInv, TeamsTypeOK, RequestsAreHarmless, Harmless
  <1>3. teamKind = "none" => \A p \in Requests : request'[p].step \in {"idle", "elsewhere"}
    BY <1>1, EndMoves DEF TeamsInv, NothingBeforeTheTeam
  <1> QED BY <1>1, <1>2, <1>3, EndMoves, TeamUntouched

\* The invitation of u becomes row, and the request q, if there is one, ends.
LEMMA InviteUntouchedElsewhere ==
  ASSUME TeamsInv, NEW u \in Users, NEW row \in InviteType,
         invite' = [invite EXCEPT ![u] = row],
         row.role \in TeamRoles \cup {NoRole}, row.role # "Owner",
         u = founder => row.state # "open", teamKind # "none",
         request' \in [Requests -> RequestType], RequestsAreHarmless',
         UNCHANGED <<registered, teamKind, founder, customRoles, rolePerms, member, activeHere>>
  PROVE  TeamsInv'
  <1>1. TeamsTypeOK'
    BY DEF TeamsInv, TeamsTypeOK, RequestType
  <1>2. ExactlyOneOwner' /\ RolesAreOfTheTeam'
    BY DEF TeamsInv, TeamsTypeOK, ExactlyOneOwner, RolesAreOfTheTeam, Exists, Owners, TeamRoles
  <1>3. InvitesAreHarmless' /\ NothingBeforeTheTeam'
    BY DEF TeamsInv, TeamsTypeOK, InvitesAreHarmless, NothingBeforeTheTeam
  <1> QED BY <1>1, <1>2, <1>3 DEF TeamsInv

LEMMA InviteMemberKeeps ==
  ASSUME TeamsInv, NEW q \in Requests, InviteMember(q) PROVE TeamsInv'
  <1> DEFINE u == request[q].who
             row == [row |-> IF invite[u].row = 0 THEN invite[u].issued + 1 ELSE invite[u].row,
                     issued |-> invite[u].issued + 1, role |-> request[q].role, state |-> "open"]
  <1>0. /\ u \in Users /\ u # founder /\ request[q].role # "Owner"
        /\ request[q].role \in TeamRoles /\ invite[u] \in InviteType
        /\ invite[u].issued < InviteLimit
        /\ invite' = [invite EXCEPT ![u] = row] /\ End(q)
        /\ UNCHANGED <<registered, teamKind, founder, customRoles, rolePerms, member, activeHere>>
    BY DEF InviteMember, TeamsInv, TeamsTypeOK, RequestsAreHarmless, Harmless, teamVars, rolesVars
  <1>1. row \in InviteType
    BY <1>0, TeamsAssumption, RoleFacts DEF InviteType, TeamsInv
  <1>2. row.role = request[q].role /\ teamKind # "none"
    BY <1>0 DEF TeamRoles, Exists
  <1> HIDE DEF row, u
  <1> QED BY <1>0, <1>1, <1>2, EndMoves, InviteUntouchedElsewhere

LEMMA RevokeInviteKeeps ==
  ASSUME TeamsInv, NEW q \in Requests, RevokeInvite(q) PROVE TeamsInv'
  <1> DEFINE u == request[q].who
             row == [invite[u] EXCEPT !.state = "revoked"]
  <1>0. /\ u \in Users /\ invite[u] \in InviteType /\ invite[u].row > 0
        /\ invite' = [invite EXCEPT ![u] = row] /\ End(q)
        /\ UNCHANGED <<registered, teamKind, founder, customRoles, rolePerms, member, activeHere>>
    BY DEF RevokeInvite, TeamsInv, TeamsTypeOK, RequestsAreHarmless, Harmless, teamVars, rolesVars
  <1>1. row \in InviteType /\ row.role = invite[u].role /\ row.state = "revoked"
    BY <1>0 DEF InviteType
  <1>2. teamKind # "none"
    BY <1>0 DEF TeamsInv, NothingBeforeTheTeam, NoInvite
  <1>3. invite[u].role \in TeamRoles \cup {NoRole} /\ invite[u].role # "Owner"
    BY <1>0 DEF TeamsInv, RolesAreOfTheTeam, InvitesAreHarmless
  <1> HIDE DEF row, u
  <1> QED BY <1>0, <1>1, <1>2, <1>3, EndMoves, InviteUntouchedElsewhere

LEMMA ExpireInviteKeeps ==
  ASSUME TeamsInv, NEW u \in Users, ExpireInvite(u) PROVE TeamsInv'
  <1> DEFINE row == [invite[u] EXCEPT !.state = "expired"]
  <1>0. /\ invite[u] \in InviteType /\ invite[u].state = "open"
        /\ invite' = [invite EXCEPT ![u] = row] /\ request' = request
        /\ UNCHANGED <<registered, teamKind, founder, customRoles, rolePerms, member, activeHere>>
    BY DEF ExpireInvite, TeamsInv, TeamsTypeOK, teamVars, rolesVars
  <1>1. row \in InviteType /\ row.role = invite[u].role /\ row.state = "expired"
    BY <1>0 DEF InviteType
  <1>2. teamKind # "none"
    BY <1>0 DEF TeamsInv, NothingBeforeTheTeam, NoInvite
  <1>3. invite[u].role \in TeamRoles \cup {NoRole} /\ invite[u].role # "Owner"
    BY DEF TeamsInv, RolesAreOfTheTeam, InvitesAreHarmless
  <1>4. request' \in [Requests -> RequestType] /\ RequestsAreHarmless'
    BY <1>0 DEF TeamsInv, TeamsTypeOK, RequestType, RequestsAreHarmless
  <1> HIDE DEF row
  <1> QED BY <1>0, <1>1, <1>2, <1>3, <1>4, InviteUntouchedElsewhere

\* A member other than the founder gets a role other than Owner, or none.
LEMMA MemberChanges ==
  ASSUME TeamsInv, NEW u \in Users, u # founder, NEW r \in TeamRoles \cup {NoRole}, r # "Owner",
         Exists, teamKind' = teamKind, founder' = founder, customRoles' = customRoles,
         member' = [member EXCEPT ![u] = r]
  PROVE  /\ member' \in [Users -> Roles \cup {NoRole}] /\ ExactlyOneOwner'
         /\ \A v \in Users : member'[v] \in TeamRoles' \cup {NoRole}
         /\ TeamRoles' = TeamRoles
  <1>1. /\ member \in [Users -> Roles \cup {NoRole}] /\ r \in Roles \cup {NoRole}
        /\ Owners = {founder}
        /\ \A v \in Users : member[v] \in TeamRoles \cup {NoRole}
    BY RoleFacts DEF TeamsInv, TeamsTypeOK, ExactlyOneOwner, RolesAreOfTheTeam
  <1>2. TeamRoles' = TeamRoles
    BY DEF TeamRoles, Exists
  <1>3. Owners' = Owners
    <2>1. \A v \in Users : member'[v] = "Owner" <=> member[v] = "Owner"
      BY <1>1 DEF Owners
    <2> QED BY <2>1 DEF Owners
  <1> QED BY <1>1, <1>2, <1>3 DEF ExactlyOneOwner

LEMMA AcceptInviteKeeps ==
  ASSUME TeamsInv, NEW q \in Requests, AcceptInvite(q) PROVE TeamsInv'
  <1> DEFINE u == request[q].user
             r == request[q].role
             row == [invite[u] EXCEPT !.state = IF @ = "revoked" THEN @ ELSE "accepted"]
  <1>0. /\ u \in Users /\ u # founder /\ r \in TeamRoles /\ r # "Owner"
        /\ invite[u] \in InviteType /\ Exists
        /\ member' = [member EXCEPT ![u] = r]
        /\ invite' = [invite EXCEPT ![u] = row]
        /\ activeHere' = activeHere \cup {u} /\ End(q)
        /\ UNCHANGED <<registered, teamKind, founder, customRoles, rolePerms>>
    BY DEF AcceptInvite, TeamsInv, TeamsTypeOK, RequestsAreHarmless, Harmless, teamVars, rolesVars,
           TeamRoles
  <1>1. row \in InviteType /\ row.role = invite[u].role /\ row.state # "open"
    BY <1>0 DEF InviteType
  <1> HIDE DEF row, u, r
  <1>2. /\ member' \in [Users -> Roles \cup {NoRole}] /\ ExactlyOneOwner'
        /\ \A v \in Users : member'[v] \in TeamRoles' \cup {NoRole}
        /\ TeamRoles' = TeamRoles
    BY <1>0, MemberChanges
  <1>3. request' \in [Requests -> RequestType] /\ RequestsAreHarmless'
    BY <1>0, EndMoves
  <1>4. TeamsTypeOK'
    BY <1>0, <1>1, <1>2, <1>3 DEF TeamsInv, TeamsTypeOK, RequestType
  <1>5. \A v \in Users : /\ invite'[v].role = invite[v].role
                         /\ invite'[v].state = "open" => invite[v].state = "open"
    BY <1>0, <1>1 DEF TeamsInv, TeamsTypeOK
  <1>6. RolesAreOfTheTeam'
    BY <1>2, <1>5 DEF RolesAreOfTheTeam, TeamsInv
  <1>7. InvitesAreHarmless' /\ NothingBeforeTheTeam'
    BY <1>0, <1>5 DEF InvitesAreHarmless, NothingBeforeTheTeam, TeamsInv, Exists
  <1> QED BY <1>2, <1>3, <1>4, <1>6, <1>7 DEF TeamsInv

LEMMA ChangeOrRemoveKeeps ==
  ASSUME TeamsInv, NEW q \in Requests, ChangeMemberRole(q) \/ RemoveMember(q) PROVE TeamsInv'
  <1> DEFINE u == request[q].who
             gone == [request[q] EXCEPT !.step = "forget"]
  <1>0. /\ request[q].step \in {"change", "remove"} /\ IsMember(u)
        /\ UNCHANGED <<registered, teamKind, founder, customRoles, rolePerms, invite, activeHere>>
    BY DEF ChangeMemberRole, RemoveMember, teamVars, rolesVars
  <1>1. u \in Users /\ u # founder /\ request[q] \in RequestType
    BY <1>0 DEF TeamsInv, RequestsAreHarmless, Harmless, TeamsTypeOK, RequestType
  <1>2. Exists
    BY <1>0, <1>1, NobodyWithoutTeam
  <1>3. \E r \in TeamRoles \cup {NoRole} :
          r # "Owner" /\ member' = [member EXCEPT ![u] = r]
    BY RoleFacts DEF ChangeMemberRole, RemoveMember, TeamsInv, RequestsAreHarmless, Harmless
  <1>4. request' \in [Requests -> RequestType] /\ RequestsAreHarmless'
    <2>1. gone \in RequestType /\ Harmless(gone, founder)
      BY <1>0, <1>1 DEF TeamsInv, RequestsAreHarmless, Harmless, RequestType, Steps
    <2>2. End(q) \/ request' = [request EXCEPT ![q] = gone]
      BY DEF ChangeMemberRole, RemoveMember, Goto
    <2> HIDE DEF gone
    <2> QED BY <1>0, <2>1, <2>2, EndMoves, Moved
  <1> HIDE DEF u
  <1>5. /\ member' \in [Users -> Roles \cup {NoRole}] /\ ExactlyOneOwner'
        /\ \A v \in Users : member'[v] \in TeamRoles' \cup {NoRole}
        /\ TeamRoles' = TeamRoles
    BY <1>0, <1>1, <1>2, <1>3, MemberChanges
  <1>6. TeamsTypeOK'
    BY <1>0, <1>4, <1>5 DEF TeamsInv, TeamsTypeOK, RequestType
  <1>7. RolesAreOfTheTeam' /\ InvitesAreHarmless' /\ NothingBeforeTheTeam'
    BY <1>0, <1>2, <1>5
       DEF TeamsInv, RolesAreOfTheTeam, InvitesAreHarmless, NothingBeforeTheTeam, Exists
  <1> QED BY <1>4, <1>5, <1>6, <1>7 DEF TeamsInv

LEMMA EditRoleKeeps ==
  ASSUME TeamsInv, NEW q \in Requests, CreateRole(q) \/ UpdateRole(q) PROVE TeamsInv'
  <1>1. PICK perms \in RoleGrants : rolePerms' = [rolePerms EXCEPT ![request[q].role] = perms]
    BY DEF CreateRole, UpdateRole
  <1>2. rolePerms' \in [Roles -> SUBSET Permissions]
    BY <1>1, TeamsAssumption DEF TeamsInv, TeamsTypeOK
  <1>3. customRoles' \in {customRoles, customRoles \cup {request[q].role}}
    BY DEF CreateRole, UpdateRole
  <1>4. customRoles \subseteq customRoles' /\ customRoles' \subseteq CustomRoles
    <2>1. CASE CreateRole(q)
      <3>1. request[q].role \in CustomRoles
        BY <2>1 DEF CreateRole, TeamsInv, RequestsAreHarmless, Harmless
      <3> QED BY <1>3, <3>1 DEF TeamsInv, TeamsTypeOK
    <2>2. CASE UpdateRole(q)
      BY <2>2 DEF UpdateRole, TeamsInv, TeamsTypeOK
    <2> QED BY <2>1, <2>2
  <1>5. /\ End(q) /\ Exists
        /\ UNCHANGED <<registered, teamKind, founder, member, invite, activeHere>>
    BY DEF CreateRole, UpdateRole, TeamRoles
  <1>0. /\ End(q) /\ Exists
        /\ customRoles \subseteq customRoles' /\ customRoles' \subseteq CustomRoles
        /\ rolePerms' \in [Roles -> SUBSET Permissions]
        /\ UNCHANGED <<registered, teamKind, founder, member, invite, activeHere>>
    BY <1>2, <1>4, <1>5
  <1>6. TeamsTypeOK' /\ RequestsAreHarmless'
    BY <1>0, EndMoves DEF TeamsInv, TeamsTypeOK, RequestType
  <1>7. ExactlyOneOwner' /\ RolesAreOfTheTeam'
    BY <1>0 DEF TeamsInv, ExactlyOneOwner, RolesAreOfTheTeam, Exists, Owners, TeamRoles
  <1>8. InvitesAreHarmless' /\ NothingBeforeTheTeam'
    BY <1>0 DEF TeamsInv, InvitesAreHarmless, NothingBeforeTheTeam, Exists
  <1> QED BY <1>6, <1>7, <1>8 DEF TeamsInv

\* Nobody has the role, and its invitations go with it.
LEMMA DeleteRoleKeeps ==
  ASSUME TeamsInv, NEW q \in Requests, DeleteRole(q) PROVE TeamsInv'
  <1> DEFINE r == request[q].role
  <1>0. /\ End(q) /\ Exists /\ Unused(r)
        /\ customRoles' = customRoles \ {r} /\ invite' = WithoutInvites(r)
        /\ UNCHANGED <<registered, teamKind, founder, rolePerms, member, activeHere>>
    BY DEF DeleteRole, TeamRoles
  <1> HIDE DEF r
  <1>1. \A u \in Users :
          /\ invite'[u] \in InviteType
          /\ \/ invite'[u] = invite[u] /\ invite[u].role # r
             \/ invite'[u].role = NoRole /\ invite'[u].state = "none"
    <2> SUFFICES ASSUME NEW u \in Users
                 PROVE  /\ invite'[u] \in InviteType
                        /\ \/ invite'[u] = invite[u] /\ invite[u].role # r
                           \/ invite'[u].role = NoRole /\ invite'[u].state = "none"
      OBVIOUS
    <2>1. invite[u] \in InviteType
      BY DEF TeamsInv, TeamsTypeOK
    <2>2. CASE invite[u].role = r
      <3>1. invite'[u] = [row |-> 0, issued |-> invite[u].issued, role |-> NoRole,
                          state |-> "none"]
        BY <1>0, <2>2 DEF WithoutInvites, NoInvite
      <3> QED BY <2>1, <3>1, TeamsAssumption DEF InviteType
    <2>3. CASE invite[u].role # r
      BY <1>0, <2>1, <2>3 DEF WithoutInvites
    <2> QED BY <2>2, <2>3
  <1>2. invite' \in [Users -> InviteType]
    BY <1>0, <1>1 DEF WithoutInvites
  <1>3. TeamsTypeOK' /\ RequestsAreHarmless'
    BY <1>0, <1>2, EndMoves DEF TeamsInv, TeamsTypeOK, RequestType
  <1>4. ExactlyOneOwner'
    BY <1>0 DEF TeamsInv, ExactlyOneOwner, Exists, Owners
  <1>5. RolesAreOfTheTeam'
    BY <1>0, <1>1 DEF TeamsInv, RolesAreOfTheTeam, Exists, TeamRoles, Unused
  <1>6. InvitesAreHarmless' /\ NothingBeforeTheTeam'
    BY <1>0, <1>1, RoleFacts DEF TeamsInv, InvitesAreHarmless, NothingBeforeTheTeam, Exists
  <1> QED BY <1>3, <1>4, <1>5, <1>6 DEF TeamsInv

LEMMA ClearActiveKeeps ==
  ASSUME TeamsInv, NEW q \in Requests, ClearActive(q) PROVE TeamsInv'
  <1> DEFINE next == [request[q] EXCEPT !.step = "erase"]
  <1>0. /\ request[q].step = "detach" /\ request' = [request EXCEPT ![q] = next]
        /\ activeHere' = {}
        /\ UNCHANGED <<registered, teamKind, founder, customRoles, rolePerms, member, invite>>
        /\ request[q] \in RequestType
    BY DEF ClearActive, Goto, teamVars, rolesVars, TeamsInv, TeamsTypeOK, RequestType
  <1>1. next \in RequestType /\ Harmless(next, founder)
    BY <1>0 DEF TeamsInv, RequestsAreHarmless, Harmless, RequestType, Steps
  <1>2. registered' \subseteq Users /\ teamKind # "none"
    BY <1>0 DEF TeamsInv, TeamsTypeOK, NothingBeforeTheTeam
  <1> HIDE DEF next
  <1> QED BY <1>0, <1>1, <1>2, Moved, TeamUntouched

LEMMA DeleteTeamKeeps ==
  ASSUME TeamsInv, NEW q \in Requests, DeleteTeam(q) PROVE TeamsInv'
  <1>0. /\ End(q) /\ teamKind' = "deleted" /\ customRoles' = {} /\ activeHere' = {}
        /\ member' = [u \in Users |-> NoRole] /\ invite' = [u \in Users |-> NoInvite]
        /\ UNCHANGED <<registered, rolePerms, founder>>
    BY DEF DeleteTeam
  <1>1. NoInvite \in InviteType
    BY TeamsAssumption DEF NoInvite, InviteType
  <1>2. TeamsTypeOK' /\ RequestsAreHarmless'
    BY <1>0, <1>1, EndMoves DEF TeamsInv, TeamsTypeOK, RequestType
  <1>3. ExactlyOneOwner' /\ RolesAreOfTheTeam'
    BY <1>0 DEF ExactlyOneOwner, RolesAreOfTheTeam, Exists, NoInvite
  <1>4. InvitesAreHarmless' /\ NothingBeforeTheTeam'
    BY <1>0, RoleFacts DEF InvitesAreHarmless, NothingBeforeTheTeam, NoInvite
  <1> QED BY <1>2, <1>3, <1>4 DEF TeamsInv

-----------------------------------------------------------------------------

LEMMA TeamsStep == TeamsInv /\ [TeamsNext]_teamsVars => TeamsInv'
  <1> SUFFICES ASSUME TeamsInv, [TeamsNext]_teamsVars PROVE TeamsInv'
    OBVIOUS
  <1>1. ASSUME NEW q \in Requests, RequestStep(q) PROVE TeamsInv'
    BY <1>1, ContextKeeps, CreateTeamKeeps, ActiveKeeps, CheckHereKeeps, CheckAnywhereKeeps,
       InviteMemberKeeps, RevokeInviteKeeps, AcceptInviteKeeps, ChangeOrRemoveKeeps,
       EditRoleKeeps, DeleteRoleKeeps, ClearActiveKeeps, DeleteTeamKeeps
       DEF RequestStep
  <1>2. ASSUME NEW u \in Users, ExpireInvite(u) PROVE TeamsInv'
    BY <1>2, ExpireInviteKeeps
  <1>3. CASE UNCHANGED teamsVars
    BY <1>3 DEF teamsVars, TeamsInv, TeamsTypeOK, ExactlyOneOwner, RolesAreOfTheTeam, Exists,
                Owners, TeamRoles, RequestsAreHarmless, InvitesAreHarmless,
                NothingBeforeTheTeam
  <1> QED BY <1>1, <1>2, <1>3 DEF TeamsNext

\* From its creation to its deletion a team has one Owner, its founder, however
\* stale the ranks and counts are that requests act on (ensureNotLastOwner and
\* the rank checks of team.service.ts).
THEOREM OneOwnerEver == TeamsSpec => []ExactlyOneOwner
  <1>1. TeamsInv => ExactlyOneOwner
    BY DEF TeamsInv
  <1> QED BY <1>1, TeamsInitially, TeamsStep, PTL DEF TeamsSpec

\* No member has, and no invitation offers, a role that was deleted (deleteRole
\* and the constraints of the schema, against every write that assigns a role).
THEOREM OnlyRolesOfTheTeam == TeamsSpec => []RolesAreOfTheTeam
  <1>1. TeamsInv => RolesAreOfTheTeam
    BY DEF TeamsInv
  <1> QED BY <1>1, TeamsInitially, TeamsStep, PTL DEF TeamsSpec

\* The type invariant of the team, its invitations and the requests.
THEOREM TeamsTypeCorrect == TeamsSpec => []TeamsTypeOK
  <1>1. TeamsInv => TeamsTypeOK
    BY DEF TeamsInv
  <1> QED BY <1>1, TeamsInitially, TeamsStep, PTL DEF TeamsSpec
=============================================================================
