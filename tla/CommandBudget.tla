--------------------------- MODULE CommandBudget ---------------------------
(***************************************************************************)
(* ratelimit.ts, checkCommandRateLimit: the token buckets of a user and of *)
(* the devices a request names, taken from by one script that Redis runs   *)
(* atomically. Tokens are counted in units of 1/Unit; a bucket stores its  *)
(* tokens and, for the time stamp, its age in ticks of TickSeconds. The    *)
(* time a request carries is that of its evaluation: it is on its way for  *)
(* less than a tick.                                                       *)
(***************************************************************************)
EXTENDS Integers, FiniteSets

CONSTANTS
  RateUsers, RateDevices,
  PerMinute,    \* COMMAND_RATE_LIMIT_PER_MINUTE
  Unit, TickSeconds

ASSUME BudgetAssumption ==
  /\ PerMinute \in Nat \ {0} /\ Unit \in Nat \ {0} /\ TickSeconds \in Nat \ {0}
  /\ RateUsers \cap RateDevices = {} /\ IsFiniteSet(RateDevices)
  /\ (PerMinute * Unit * TickSeconds) % 60 = 0
  /\ (Unit * TickSeconds) % 5 = 0

VARIABLES
  bucket,   \* per key: its tokens and age; Absent if Redis has no such key
  \* history
  used,     \* per key: takes admitted, drained at the rate of the key
  commands  \* per user: commands admitted, drained likewise, counted up to
            \* one more than the budget of the user

budgetVars == <<bucket, used, commands>>

Keys == RateUsers \cup RateDevices
Larger(a, b) == IF a > b THEN a ELSE b
Lesser(a, b) == IF a < b THEN a ELSE b
CeilDiv(a, b) == (a + b - 1) \div b

UserCap == PerMinute * Unit
UserRate == (PerMinute * Unit * TickSeconds) \div 60
DeviceCap == Larger(2, CeilDiv(PerMinute, 3)) * Unit
DeviceRate ==
  Larger((Unit * TickSeconds) \div 5, (PerMinute * Unit * TickSeconds) \div 180)

Cap(k) == IF k \in RateUsers THEN UserCap ELSE DeviceCap
Rate(k) == IF k \in RateUsers THEN UserRate ELSE DeviceRate
\* Mutated: a key expires when its bucket is half full.
TtlHalved(k) == CeilDiv(Cap(k), 2 * Rate(k))

Ttl(k) == CeilDiv(Cap(k), Rate(k))

Absent == [tokens |-> 0, age |-> -1]

BudgetTypeOK ==
  /\ \A k \in Keys :
       bucket[k].tokens \in 0..Cap(k) /\ bucket[k].age \in -1..Ttl(k)
  /\ used \in [Keys -> Nat] /\ commands \in [RateUsers -> Nat]

BudgetInit ==
  /\ bucket = [k \in Keys |-> Absent]
  /\ used = [k \in Keys |-> 0] /\ commands = [u \in RateUsers |-> 0]

\* Mutated: a bucket fills beyond its capacity.
RefilledUncapped(k) ==
  IF bucket[k] = Absent THEN Cap(k) ELSE bucket[k].tokens + bucket[k].age * Rate(k)

\* take: what the bucket holds now, refilled since it was last touched.
Refilled(k) ==
  IF bucket[k] = Absent THEN Cap(k)
  ELSE Lesser(Cap(k), bucket[k].tokens + bucket[k].age * Rate(k))

Granted(k) == Refilled(k) >= Unit

Taken(k) ==
  [tokens |-> IF Granted(k) THEN Refilled(k) - Unit ELSE Refilled(k), age |-> 0]

\* One take of each device and one of the user. A user without tokens gets
\* nothing, and the tokens of the devices are gone all the same.
Allowed(u, ds) == IF Granted(u) THEN {d \in ds : Granted(d)} ELSE {}

CheckRateLimit(u, ds) ==
  /\ bucket' = [k \in Keys |-> IF k \in ds \cup {u} THEN Taken(k) ELSE bucket[k]]
  /\ used' = [k \in Keys |->
       used[k] + IF k \in ds \cup {u} /\ Granted(k) THEN Unit ELSE 0]
  /\ commands' = [commands EXCEPT ![u] =
       Lesser(UserCap + Unit, @ + Unit * Cardinality(Allowed(u, ds)))]

\* A key that is not touched for the time an empty bucket takes to fill expires.
ExpiresNow(k) == bucket[k] = Absent \/ bucket[k].age + 1 >= Ttl(k)
Drained(level, rate) == Larger(0, level - rate)

TickBudget ==
  /\ bucket' = [k \in Keys |-> IF ExpiresNow(k) THEN Absent
                               ELSE [bucket[k] EXCEPT !.age = @ + 1]]
  /\ used' = [k \in Keys |-> Drained(used[k], Rate(k))]
  /\ commands' = [u \in RateUsers |-> Drained(commands[u], UserRate)]

BudgetNext ==
  \/ \E u \in RateUsers, ds \in (SUBSET RateDevices) \ {{}} : CheckRateLimit(u, ds)
  \/ TickBudget

BudgetSpec == BudgetInit /\ [][BudgetNext]_budgetVars

-----------------------------------------------------------------------------
(* Properties.                                                             *)

\* Over any stretch of time a key admits its capacity and what its rate adds
\* meanwhile, and no more; a key that expires gives no tokens away (the script
\* of checkCommandRateLimit).
AdmittedWithinBudget == \A k \in Keys : used[k] <= Cap(k)

\* README.md:223, "a broadcast spends one user token per target so it cannot
\* bypass the limit": the commands admitted for a user stay within its budget.
BroadcastSpendsPerTarget == \A u \in RateUsers : commands[u] <= UserCap
============================================================================
