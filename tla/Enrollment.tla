----------------------------- MODULE Enrollment -----------------------------
(***************************************************************************)
(* token.service.ts and its callers: the life of a device's credential at  *)
(* the broker, next to its rows in the database and the pending secret in  *)
(* Redis. One device: devices share nothing. A request may fail or crash   *)
(* between any two calls; a broker command may fail, and may time out      *)
(* although the broker runs it. The rows' other columns, the audit log,    *)
(* retained status and the device's group (module Groups) are left out.    *)
(***************************************************************************)
EXTENDS Naturals, FiniteSets

CONSTANTS
  Redeemers, \* enrollment requests that present the token
  Removers,  \* requests that revoke the token, delete the device or its team
  RedeemLimit, RemoveLimit \* bounds on their starts

ASSUME EnrollmentAssumption == RedeemLimit \in Nat /\ RemoveLimit \in Nat

VARIABLES
  deviceRow,   \* "none", "present" or "deleted"
  tokenStatus, \* "none" before and after the row exists
  tokenExpired,
  pendingSecret, \* whether Redis holds the secret
  client,      \* the client at the broker
  creator,     \* the step createDeviceAction is at, and whether its answer came
  redeemer,    \* per request: the step consumeEnrollmentToken is at
  remover,     \* per request: what it does, its step, and whether it began
               \* after the token was complete
  reconciler,  \* reconcile-broker.ts: its step and what it has read
  starts,      \* requests started so far
  \* history
  handed,      \* how often the credential was handed out
  revoked,     \* whether a revocation that began after that was recorded
  swept        \* whether a reconciliation removed the client of a live token

enrollmentVars == <<deviceRow, tokenStatus, tokenExpired, pendingSecret, client,
                    creator, redeemer, remover, reconciler, starts, handed, revoked,
                    swept>>
requestVars == <<creator, redeemer, remover, starts>>
tokenVars   == <<deviceRow, tokenStatus, tokenExpired, handed, revoked, swept>>

NotRemoving == [step |-> "idle", kind |-> "revoke", late |-> FALSE]
NotReconciling == [step |-> "idle", known |-> FALSE]

EnrollmentTypeOK ==
  /\ deviceRow \in {"none", "present", "deleted"}
  /\ tokenStatus \in {"none", "ACTIVE", "CONSUMED", "REVOKED"}
  /\ tokenExpired \in BOOLEAN /\ pendingSecret \in BOOLEAN
  /\ client \in {"absent", "disabled", "enabled"}
  /\ creator \in {"idle", "token", "stash", "client", "disable", "done", "failed",
                  "shown", "unseen"}
  /\ redeemer \in [Redeemers ->
       {"idle", "get", "del", "enable", "record"}]
  /\ remover \in [Removers ->
       [step : {"idle", "client", "record", "forget", "erase"},
        kind : {"revoke", "device", "team"}, late : BOOLEAN]]
  /\ reconciler \in [step : {"idle", "list", "remove"}, known : BOOLEAN]
  /\ starts \in [redeem : 0..RedeemLimit, remove : 0..RemoveLimit]
  /\ handed \in 0..RedeemLimit /\ revoked \in BOOLEAN /\ swept \in BOOLEAN

EnrollmentInit ==
  /\ deviceRow = "none" /\ tokenStatus = "none" /\ tokenExpired = FALSE
  /\ pendingSecret = FALSE /\ client = "absent"
  /\ creator = "idle" /\ redeemer = [r \in Redeemers |-> "idle"]
  /\ remover = [m \in Removers |-> NotRemoving]
  /\ reconciler = NotReconciling
  /\ starts = [redeem |-> 0, remove |-> 0]
  /\ handed = 0 /\ revoked = FALSE /\ swept = FALSE

-----------------------------------------------------------------------------
(* A command to the broker: next is the client it leaves, ok whether the   *)
(* broker accepts it, Succeeds and Fails what the caller does then.        *)

Ask(next, ok, Succeeds, Fails) ==
  \/ ok /\ client' = next /\ Succeeds
  \/ client' \in {client, next} /\ Fails

\* createEnrollmentToken, call by call.
CreateRows ==
  \/ /\ creator = "idle" /\ deviceRow' = "present" /\ creator' = "token"
     /\ UNCHANGED <<tokenStatus, pendingSecret, client>>
  \/ /\ creator = "token" /\ deviceRow = "present"
     /\ tokenStatus' = "ACTIVE" /\ creator' = "stash"
     /\ UNCHANGED <<deviceRow, pendingSecret, client>>
  \/ /\ creator = "stash" /\ pendingSecret' = TRUE /\ creator' = "client"
     /\ UNCHANGED <<deviceRow, tokenStatus, client>>

\* A client is created enabled, and disabled by a command of its own.
ProvisionBrokerCredential ==
  /\ \/ creator = "client" /\ Ask("enabled", client = "absent",
                                  creator' = "disable", creator' = "failed")
     \/ creator = "disable" /\ Ask(IF client = "absent" THEN client ELSE "disabled",
                                   client # "absent",
                                   creator' = "done", creator' = "failed")
  /\ UNCHANGED <<deviceRow, tokenStatus, pendingSecret>>

CreateEnrollmentToken ==
  /\ CreateRows \/ ProvisionBrokerCredential
  /\ UNCHANGED <<tokenExpired, redeemer, remover, starts, handed, revoked, swept>>

Completed == creator \in {"done", "shown", "unseen"}

\* The token is in the answer of the action and nowhere else.
ShowToken ==
  /\ creator = "done"
  /\ creator' \in {"shown", "unseen"}
  /\ UNCHANGED <<tokenVars, pendingSecret, client, redeemer, remover, starts>>

ExpireToken ==
  /\ tokenStatus = "ACTIVE" /\ ~tokenExpired
  /\ tokenExpired' = TRUE
  /\ UNCHANGED <<deviceRow, tokenStatus, handed, revoked, swept, pendingSecret, client,
                 requestVars>>

\* Redis drops the secret after a day, or loses it.
DropSecret ==
  /\ pendingSecret /\ pendingSecret' = FALSE
  /\ UNCHANGED <<tokenVars, client, requestVars>>

-----------------------------------------------------------------------------
(* consumeEnrollmentToken.                                                 *)

Redeem(r, from, to) == redeemer[r] = from /\ redeemer' = [redeemer EXCEPT ![r] = to]

StartRedeem(r) ==
  /\ creator = "shown" /\ starts.redeem < RedeemLimit
  /\ tokenStatus = "ACTIVE" /\ ~tokenExpired
  /\ Redeem(r, "idle", "get")
  /\ starts' = [starts EXCEPT !.redeem = @ + 1]
  /\ UNCHANGED <<tokenVars, pendingSecret, client, creator, remover>>

\* takePendingSecret: two commands to Redis.
GetSecret(r) ==
  /\ Redeem(r, "get", IF pendingSecret THEN "del" ELSE "idle")
  /\ UNCHANGED <<tokenVars, pendingSecret, client, creator, remover, starts>>

DelSecret(r) ==
  /\ Redeem(r, "del", "enable")
  /\ pendingSecret' = FALSE
  /\ UNCHANGED <<tokenVars, client, creator, remover, starts>>

\* Mutated: enabling creates the client if it is gone.
EnableOrCreateClient(r) ==
  /\ redeemer[r] = "enable"
  /\ Ask("enabled", TRUE, redeemer' = [redeemer EXCEPT ![r] = "record"],
         redeemer' = [redeemer EXCEPT ![r] = "idle"])
  /\ UNCHANGED <<tokenVars, pendingSecret, creator, remover, starts>>

\* Mutated: the answer of the broker is not looked at.
EnableClientUnchecked(r) ==
  /\ redeemer[r] = "enable"
  /\ client' \in {client, IF client = "absent" THEN client ELSE "enabled"}
  /\ redeemer' = [redeemer EXCEPT ![r] = "record"]
  /\ UNCHANGED <<tokenVars, pendingSecret, creator, remover, starts>>

EnableClient(r) ==
  /\ redeemer[r] = "enable"
  /\ Ask(IF client = "absent" THEN client ELSE "enabled", client # "absent",
         redeemer' = [redeemer EXCEPT ![r] = "record"],
         redeemer' = [redeemer EXCEPT ![r] = "idle"])
  /\ UNCHANGED <<tokenVars, pendingSecret, creator, remover, starts>>

\* The token is set CONSUMED whatever its status is by now.
RecordRedemption(r) ==
  /\ Redeem(r, "record", "idle")
  /\ tokenStatus # "none"
  /\ tokenStatus' = "CONSUMED"
  /\ handed' = handed + 1
  /\ UNCHANGED <<deviceRow, tokenExpired, revoked, swept, pendingSecret, client,
                 creator, remover, starts>>

FailRedeem(r) ==
  /\ redeemer[r] # "idle"
  /\ redeemer' = [redeemer EXCEPT ![r] = "idle"]
  /\ UNCHANGED <<tokenVars, pendingSecret, client, creator, remover, starts>>

-----------------------------------------------------------------------------
(* revokeDeviceAction and deleteDeviceAction (revokeToken for the tokens   *)
(* they have read), and deleteTeam (deleteClient for them).                *)

StepRemover(m, step) == remover' = [remover EXCEPT ![m].step = step]
EndRemover(m) == remover' = [remover EXCEPT ![m] = NotRemoving]

\* A page offers it for a device that is listed, one request at a time.
RemovalOffered(m) == remover[m].step = "idle" /\ deviceRow = "present"

StartRemove(m, kind) ==
  /\ RemovalOffered(m)
  /\ starts.remove < RemoveLimit
  /\ starts' = [starts EXCEPT !.remove = @ + 1]
  /\ remover' = [remover EXCEPT ![m] =
       [kind |-> kind, late |-> Completed,
        step |-> IF tokenStatus # "none" THEN "client" ELSE "erase"]]
  /\ UNCHANGED <<tokenVars, pendingSecret, client, creator, redeemer>>

\* deleteDeviceAction goes on after an error, the other two end.
AfterError(m) ==
  IF remover[m].kind = "device" THEN StepRemover(m, "erase") ELSE EndRemover(m)

RemoveClient(m) ==
  /\ remover[m].step = "client"
  /\ Ask("absent", TRUE,
         StepRemover(m, IF remover[m].kind = "team" THEN "erase" ELSE "record"),
         AfterError(m))
  /\ UNCHANGED <<tokenVars, pendingSecret, creator, redeemer, starts>>

RecordRevocation(m) ==
  /\ remover[m].step = "record" /\ tokenStatus # "none"
  /\ tokenStatus' = "REVOKED"
  /\ revoked' = (revoked \/ remover[m].late)
  /\ StepRemover(m, "forget")
  /\ UNCHANGED <<deviceRow, tokenExpired, handed, swept, pendingSecret, client,
                 creator, redeemer, starts>>

ForgetSecret(m) ==
  /\ remover[m].step = "forget"
  /\ pendingSecret' = FALSE
  /\ StepRemover(m, "erase")
  /\ UNCHANGED <<tokenVars, client, creator, redeemer, starts>>

\* The token's row goes with the device's.
EraseDevice(m) ==
  /\ remover[m].step = "erase"
  /\ EndRemover(m)
  /\ IF remover[m].kind = "revoke" THEN UNCHANGED tokenVars
     ELSE /\ deviceRow' = "deleted" /\ tokenStatus' = "none"
          /\ UNCHANGED <<tokenExpired, handed, revoked, swept>>
  /\ UNCHANGED <<pendingSecret, client, creator, redeemer, starts>>

\* An error in revokeToken, or a crash.
FailRemove(m) ==
  /\ remover[m].step # "idle"
  /\ AfterError(m) \/ EndRemover(m)
  /\ UNCHANGED <<tokenVars, pendingSecret, client, creator, redeemer, starts>>

FailCreate ==
  /\ creator \notin {"idle", "failed"} /\ ~Completed
  /\ creator' = "failed"
  /\ UNCHANGED <<tokenVars, pendingSecret, client, redeemer, remover, starts>>

-----------------------------------------------------------------------------
(* reconcile-broker.ts --fix: the database is read before the broker.      *)

Live == tokenStatus \in {"ACTIVE", "CONSUMED"}

ReadKnown ==
  /\ reconciler.step = "idle"
  /\ reconciler' = [step |-> "list", known |-> Live]
  /\ UNCHANGED <<client, swept>>

ListClients ==
  /\ reconciler.step = "list"
  /\ reconciler' = IF client # "absent" /\ ~reconciler.known
                   THEN [reconciler EXCEPT !.step = "remove"] ELSE NotReconciling
  /\ UNCHANGED <<client, swept>>

RemoveOrphan ==
  /\ reconciler.step = "remove"
  /\ reconciler' = NotReconciling
  /\ client' \in {client, "absent"}
  /\ swept' = (swept \/ Live)

Reconcile ==
  /\ ReadKnown \/ ListClients \/ RemoveOrphan
  /\ UNCHANGED <<deviceRow, tokenStatus, tokenExpired, handed, revoked,
                 pendingSecret, requestVars>>

EnrollmentStep ==
  \/ CreateEnrollmentToken \/ ShowToken \/ FailCreate \/ ExpireToken \/ DropSecret
  \/ \E r \in Redeemers :
       \/ StartRedeem(r) \/ GetSecret(r) \/ DelSecret(r) \/ EnableClient(r)
       \/ RecordRedemption(r) \/ FailRedeem(r)
  \/ \E m \in Removers :
       \/ \E kind \in {"revoke", "device", "team"} : StartRemove(m, kind)
       \/ RemoveClient(m) \/ RecordRevocation(m) \/ ForgetSecret(m)
       \/ EraseDevice(m) \/ FailRemove(m)

EnrollmentNext == (EnrollmentStep /\ UNCHANGED reconciler) \/ Reconcile

EnrollmentSpec == EnrollmentInit /\ [][EnrollmentNext]_enrollmentVars

-----------------------------------------------------------------------------
(* Properties.                                                             *)

\* Once the revocation of a complete token is recorded, the credential is dead
\* for good: neither a redemption that had passed its checks nor a failed call
\* of another request enables the client again (revokeToken against
\* consumeEnrollmentToken).
RevokedIsDead == revoked => client # "enabled"

\* A credential that has been handed out is live until a request to remove the
\* device, or a reconciliation that read the database before there was a token:
\* no order of redemptions, expiry and failed calls leaves an agent with a
\* password that does not work (consumeEnrollmentToken).
HandedIsLive ==
  handed > 0 /\ starts.remove = 0 /\ ~swept => client = "enabled"
============================================================================
