------------------------------- MODULE SignIn -------------------------------
(***************************************************************************)
(* Signing in: the fixed-window limiter of ratelimit.ts, the authorize     *)
(* callback of auth.ts, verifySecondFactor, and the two-factor settings of *)
(* totp.service.ts. Sign-ins of several browsers overlap, and so do        *)
(* changes of the settings from several pages: what a request reads and    *)
(* what it writes are two steps. A code shown by an authenticator is its   *)
(* secret and the period it is for, relative to the clock of the server; a *)
(* recovery code is the secret it was issued with and a number.            *)
(***************************************************************************)
EXTENDS Integers, FiniteSets

CONSTANTS
  Accounts, Ips,
  Browsers,      \* sign-ins that may be under way at once
  Pages,         \* changes of the settings that may be under way at once
  Secrets,       \* TOTP secrets; one is drawn per setup
  AccountLimit, IpLimit, WindowTicks,
  RecoveryCodes, \* numbers of the recovery codes of an enrolment
  NoSecret, NoOne

ASSUME SignInAssumption ==
  /\ AccountLimit \in Nat \ {0} /\ IpLimit \in Nat \ {0}
  /\ WindowTicks \in Nat \ {0} /\ IsFiniteSet(Browsers)
  /\ NoSecret \notin Secrets /\ NoOne \notin Accounts

VARIABLES
  counter,         \* Redis, per limiter key: failures, and ticks until expiry
  totpEnabled, totpSecret, backupCodes, \* the users table, per account
  drawnSecrets,
  authenticator,   \* per account: the secrets its authenticator app has scanned
  browser,         \* per sign-in: its step, account, address, what it has read
  page,            \* per page of the settings: the step of its request, and what
                   \* that has read; what the page shows
  \* history
  overtaken        \* accounts written to while another change was under way

signInVars == <<counter, totpEnabled, totpSecret, backupCodes, drawnSecrets,
                authenticator, browser, page, overtaken>>
settingsVars ==
  <<totpEnabled, totpSecret, drawnSecrets, authenticator, page, overtaken>>

LimiterKeys == Accounts \cup Ips
Limit(k) == IF k \in Accounts THEN AccountLimit ELSE IpLimit
Codes == Secrets \X RecoveryCodes
NoCounter == [n |-> 0, ttl |-> 0]
Closed == [step |-> "idle", account |-> NoOne, secret |-> NoSecret,
           view |-> "off", shows |-> NoSecret]
SignedOut ==
  [step |-> "idle", account |-> NoOne, ip |-> NoOne, codes |-> {}]

SignInTypeOK ==
  /\ \A k \in LimiterKeys : counter[k].n \in Nat /\ counter[k].ttl \in 0..WindowTicks
  /\ totpEnabled \in [Accounts -> BOOLEAN]
  /\ totpSecret \in [Accounts -> Secrets \cup {NoSecret}]
  /\ backupCodes \in [Accounts -> SUBSET Codes]
  /\ drawnSecrets \subseteq Secrets
  /\ authenticator \in [Accounts -> SUBSET Secrets]
  /\ browser \in [Browsers ->
       [step : {"idle", "password", "refused", "second", "rejected", "spend",
                "done"},
        account : Accounts \cup {NoOne}, ip : Ips \cup {NoOne},
        codes : SUBSET Codes]]
  /\ page \in [Pages ->
       [step : {"idle", "begin", "confirm", "disable"},
        account : Accounts \cup {NoOne}, secret : Secrets \cup {NoSecret},
        view : {"off", "on", "codes"}, shows : Secrets \cup {NoSecret}]]
  /\ overtaken \subseteq Accounts

SignInInit ==
  /\ counter = [k \in LimiterKeys |-> NoCounter]
  /\ totpEnabled = [a \in Accounts |-> FALSE]
  /\ totpSecret = [a \in Accounts |-> NoSecret]
  /\ backupCodes = [a \in Accounts |-> {}]
  /\ drawnSecrets = {} /\ authenticator = [a \in Accounts |-> {}]
  /\ browser = [b \in Browsers |-> SignedOut]
  /\ page = [p \in Pages |-> Closed] /\ overtaken = {}

-----------------------------------------------------------------------------
(* The limiter. If Redis fails, the check rejects and a charge is lost.    *)

\* Mutated: one more than the limit is let through.
IsRateLimitedAbove(k) == counter[k].n > Limit(k)

IsRateLimited(k) == counter[k].n >= Limit(k)

\* INCR, and PEXPIRE for the first count of a window.
Charged(k) == [n |-> counter[k].n + 1,
               ttl |-> IF counter[k].n = 0 THEN WindowTicks ELSE counter[k].ttl]

Consume(keys) ==
  \E charged \in {keys, {}} :
    counter' = [k \in LimiterKeys |-> IF k \in charged THEN Charged(k) ELSE counter[k]]

ExpireWindows ==
  /\ \E k \in LimiterKeys : counter[k].ttl > 0
  /\ counter' = [k \in LimiterKeys |->
       IF counter[k].ttl <= 1 THEN NoCounter
       ELSE [counter[k] EXCEPT !.ttl = @ - 1]]
  /\ UNCHANGED <<settingsVars, backupCodes, browser>>

-----------------------------------------------------------------------------
(* authorize.                                                              *)

Continue(b, step) == browser' = [browser EXCEPT ![b].step = step]
SignOut(b) == browser' = [browser EXCEPT ![b] = SignedOut]

\* Checked before anything else; a blocked sign-in ends here.
StartSignIn(b, a, ip) ==
  /\ browser[b].step = "idle"
  /\ ~IsRateLimited(a) /\ ~IsRateLimited(ip)
  /\ browser' = [browser EXCEPT ![b] =
       [step |-> "password", account |-> a, ip |-> ip, codes |-> {}]]
  /\ UNCHANGED <<counter, settingsVars, backupCodes>>

AuthenticateUser(b) ==
  /\ browser[b].step = "password"
  /\ Continue(b, "second") \/ Continue(b, "refused")
  /\ UNCHANGED <<counter, settingsVars, backupCodes>>

ChargeRefusal(b) ==
  /\ browser[b].step = "refused"
  /\ Consume({browser[b].account, browser[b].ip})
  /\ SignOut(b)
  /\ UNCHANGED <<settingsVars, backupCodes>>

\* The neighbouring periods are accepted.
VerifyCode(secret, code) == code.secret = secret /\ code.drift \in -1..1

\* The read of verifySecondFactor: a recovery code that matches is spent later.
NotEnrolled(a) == ~totpEnabled[a] \/ totpSecret[a] = NoSecret
ReadSecondFactor(b) ==
  LET a == browser[b].account IN
  /\ browser[b].step = "second"
  /\ \/ NotEnrolled(a) /\ Continue(b, "done")
     \/ /\ ~NotEnrolled(a)
        /\ \/ /\ \E s \in authenticator[a], drift \in -2..2 :
                   VerifyCode(totpSecret[a], [secret |-> s, drift |-> drift])
              /\ Continue(b, "done")
           \/ \E c \in backupCodes[a] :
                browser' = [browser EXCEPT ![b].step = "spend",
                                           ![b].codes = backupCodes[a] \ {c}]
           \/ Continue(b, "rejected")
  /\ UNCHANGED <<counter, settingsVars, backupCodes>>

SpendRecoveryCode(b) ==
  /\ browser[b].step = "spend"
  /\ backupCodes' = [backupCodes EXCEPT ![browser[b].account] = browser[b].codes]
  /\ Continue(b, "done")
  /\ UNCHANGED <<counter, settingsVars>>

\* A failed second factor is charged to the account only.
ChargeRejection(b) ==
  /\ browser[b].step = "rejected"
  /\ Consume({browser[b].account})
  /\ SignOut(b)
  /\ UNCHANGED <<settingsVars, backupCodes>>

FinishSignIn(b) ==
  /\ browser[b].step = "done"
  /\ \/ counter' = [counter EXCEPT ![browser[b].account] = NoCounter]
     \/ UNCHANGED counter
  /\ SignOut(b)
  /\ UNCHANGED <<settingsVars, backupCodes>>

-----------------------------------------------------------------------------
(* The two-factor settings: what a request checks, then what it writes.    *)

ShowsCode(a) ==
  \E s \in authenticator[a], drift \in -2..2 :
    VerifyCode(totpSecret[a], [secret |-> s, drift |-> drift])

\* Mutated: a setup may begin while another secret is in force.
MayBeginAnyTime(a) == TRUE

MayBegin(a) == ~totpEnabled[a]
MayConfirm(a) == ~totpEnabled[a] /\ totpSecret[a] # NoSecret /\ ShowsCode(a)
\* With a current code or a recovery code.
MayDisable(a) == ~NotEnrolled(a) /\ (ShowsCode(a) \/ backupCodes[a] # {})

\* The page is loaded, anew: "enabled" is what it is now, and no setup is shown.
LoadPage(p, a) ==
  /\ page[p].step = "idle"
  /\ page' = [page EXCEPT ![p] =
       [Closed EXCEPT !.account = a, !.view = IF totpEnabled[a] THEN "on" ELSE "off"]]
  /\ UNCHANGED <<counter, totpEnabled, totpSecret, backupCodes, drawnSecrets,
                 authenticator, browser, overtaken>>

\* What the page offers: it may be out of date.
Offers(p, step) ==
  CASE step = "begin"   -> page[p].view = "off" /\ page[p].shows = NoSecret
    [] step = "confirm" -> page[p].view = "off" /\ page[p].shows # NoSecret
    [] step = "disable" -> page[p].view = "on"

CheckSetting(p) ==
  LET a == page[p].account IN
  /\ page[p].step = "idle" /\ a # NoOne
  /\ \E step \in {"begin", "confirm", "disable"} :
       /\ Offers(p, step)
       /\ step = "begin" => MayBegin(a)
       /\ step = "confirm" => MayConfirm(a)
       /\ step = "disable" => MayDisable(a)
       /\ page' = [page EXCEPT ![p].step = step, ![p].secret = totpSecret[a]]
  /\ UNCHANGED <<counter, totpEnabled, totpSecret, backupCodes, drawnSecrets,
                 authenticator, browser, overtaken>>

\* The answer comes with what the page shows next, unless it is lost.
WriteSetting(p, step, view, shows) ==
  LET a == page[p].account
      answered == [page[p] EXCEPT !.step = "idle", !.secret = NoSecret]
  IN
  /\ page[p].step = step
  /\ \/ page' = [page EXCEPT ![p] = [answered EXCEPT !.view = view, !.shows = shows]]
     \/ page' = [page EXCEPT ![p] = answered]
  /\ overtaken' = IF \E q \in Pages \ {p} : page[q].account = a /\ page[q].step # "idle"
                  THEN overtaken \cup {a} ELSE overtaken
  /\ UNCHANGED <<counter, authenticator, browser>>

BeginTotpSetup(p, s) ==
  /\ WriteSetting(p, "begin", "off", s)
  /\ s \notin drawnSecrets
  /\ drawnSecrets' = drawnSecrets \cup {s}
  /\ totpSecret' = [totpSecret EXCEPT ![page[p].account] = s]
  /\ UNCHANGED <<totpEnabled, backupCodes>>

ConfirmTotpSetup(p) ==
  LET a == page[p].account IN
  /\ WriteSetting(p, "confirm", "codes", NoSecret)
  /\ totpEnabled' = [totpEnabled EXCEPT ![a] = TRUE]
  /\ backupCodes' = [backupCodes EXCEPT ![a] = {page[p].secret} \X RecoveryCodes]
  /\ UNCHANGED <<totpSecret, drawnSecrets>>

DisableTotp(p) ==
  LET a == page[p].account IN
  /\ WriteSetting(p, "disable", "off", NoSecret)
  /\ totpEnabled' = [totpEnabled EXCEPT ![a] = FALSE]
  /\ totpSecret' = [totpSecret EXCEPT ![a] = NoSecret]
  /\ backupCodes' = [backupCodes EXCEPT ![a] = {}]
  /\ UNCHANGED drawnSecrets

\* The request fails; a code that verifySecondFactor has spent is left out.
FailSetting(p) ==
  /\ page[p].step # "idle"
  /\ page' = [page EXCEPT ![p].step = "idle", ![p].secret = NoSecret]
  /\ UNCHANGED <<counter, totpEnabled, totpSecret, backupCodes, drawnSecrets,
                 authenticator, browser, overtaken>>

\* The user scans the code on the screen; or does not, or gets it wrong.
ScanSecret(p) ==
  /\ page[p].shows # NoSecret
  /\ authenticator' = [authenticator EXCEPT ![page[p].account] = @ \cup {page[p].shows}]
  /\ UNCHANGED <<counter, totpEnabled, totpSecret, backupCodes, drawnSecrets,
                 browser, page, overtaken>>

SignInStep(b) ==
  \/ AuthenticateUser(b) \/ ChargeRefusal(b) \/ ReadSecondFactor(b)
  \/ SpendRecoveryCode(b) \/ ChargeRejection(b) \/ FinishSignIn(b)

SignInNext ==
  \/ \E b \in Browsers :
       (\E a \in Accounts, ip \in Ips : StartSignIn(b, a, ip)) \/ SignInStep(b)
  \/ \E p \in Pages :
       \/ \E a \in Accounts : LoadPage(p, a)
       \/ CheckSetting(p) \/ ScanSecret(p)
       \/ \E s \in Secrets : BeginTotpSetup(p, s)
       \/ ConfirmTotpSetup(p) \/ DisableTotp(p) \/ FailSetting(p)
  \/ ExpireWindows

SignInSpec == SignInInit /\ [][SignInNext]_signInVars

-----------------------------------------------------------------------------
(* Properties.                                                             *)

\* Sign-ins that pass the check together may exceed the budget of an account,
\* each by the one failure it is charged, and no more (authorize checks and
\* charges in two calls).
OvershootIsBounded ==
  \A k \in LimiterKeys : counter[k].n < Limit(k) + Cardinality(Browsers)

\* While changes of the settings do not overlap, two-factor authentication is
\* only ever on for a secret that the authenticator of the account holds: neither
\* an abandoned setup nor a second one locks the account out (beginTotpSetup and
\* confirmTotpSetup). A setup that is begun or confirmed while another request is
\* between its check and its write can.
EnabledSecretIsScanned ==
  \A a \in Accounts \ overtaken : totpEnabled[a] => totpSecret[a] \in authenticator[a]
=============================================================================
