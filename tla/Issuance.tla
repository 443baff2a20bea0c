------------------------------ MODULE Issuance ------------------------------
(***************************************************************************)
(* The emission of the LEM token: init starts the clock, issue_lem mints   *)
(* what has accrued since last_lem_bucket_fill at a rate that is halved at *)
(* each entry of last_half_life_updated and stops after the third, and     *)
(* splits it.  issuelem is the manager's call; stake (top-up), unstake and *)
(* claimlem run issue_lem too, so it may run at any time.                  *)
(***************************************************************************)
EXTENDS Integers

CONSTANTS
  HalfLife,   \* 2 * secondsPerYear: the length of an era
  Rate,       \* 2'0000: LEM units per second in the first era
  LEM_MAX,    \* cap of the supply
  U32,        \* 2^32: the minted amount is computed in an unsigned of 32 bits
  MaxTime     \* bound: the clock stops at MaxTime

ASSUME IssuanceAssumption ==
  /\ HalfLife \in Nat \ {0}
  /\ Rate \in Nat \ {0}
  /\ LEM_MAX \in Nat
  /\ U32 \in Nat \ {0}
  /\ MaxTime \in Nat

VARIABLES
  now,      \* head block time in seconds
  configs,  \* the configs row; is_active is FALSE while there is none
  lem       \* led.token: supply and balances of LEM

issuanceVars == <<now, configs, lem>>

\* The accounts issue_lem fills; self is the contract's own account, users are
\* all other accounts together.
Buckets == {"lending_reward", "marketing", "team", "reserved"}
LemAccounts == Buckets \cup {"self", "users"}

config == [is_active              : BOOLEAN,
           last_lem_bucket_fill   : Nat,
           last_half_life_updated : [0 .. 3 -> Nat],
           half_life_count        : 0 .. 3]

NewConfig(start) ==
  [is_active |-> TRUE, last_lem_bucket_fill |-> start,
   last_half_life_updated |-> [i \in 0 .. 3 |-> start + i * HalfLife],
   half_life_count |-> 0]

NoConfig == [NewConfig(0) EXCEPT !.is_active = FALSE]

\* init(): a second call finds the row and changes nothing.
init ==
  /\ ~configs.is_active
  /\ configs' = NewConfig(now)
  /\ UNCHANGED <<now, lem>>

-----------------------------------------------------------------------------
\* Mutant of Halved: the rate is the same in every era.
NotHalved(secs, era) == secs

\* (uint32_t)pow(2, era); issue_lem stops before era 3.
Divisor == <<1, 2, 4, 8>>

\* x / (uint32_t)pow(2, era)
Halved(secs, era) == secs \div Divisor[era + 1]

\* Mutant of EraStep: a half-life that has passed is not counted.
EraStepCountKept(era, acc) ==
  LET from == configs.last_half_life_updated[era]
      to == configs.last_half_life_updated[era + 1]
  IN  IF era < configs.half_life_count THEN acc
      ELSE IF from <= now /\ now < to
        THEN [acc EXCEPT !.secs = @ + Halved(now - acc.last, era)]
      ELSE IF to <= now
        THEN [acc EXCEPT !.secs = @ + Halved(to - acc.last, era), !.last = to]
      ELSE acc

\* Mutant of EraStep: the eras that ended since the last fill are not paid.
EraStepPastLost(era, acc) ==
  LET from == configs.last_half_life_updated[era]
      to == configs.last_half_life_updated[era + 1]
  IN  IF era < configs.half_life_count THEN acc
      ELSE IF from <= now /\ now < to
        THEN [acc EXCEPT !.secs = @ + Halved(now - acc.last, era), !.half_life = era]
      ELSE IF to <= now THEN [acc EXCEPT !.last = to, !.half_life = era + 1]
      ELSE acc

\* One iteration of the loop over the eras that are not over.
EraStep(era, acc) ==
  LET from == configs.last_half_life_updated[era]
      to == configs.last_half_life_updated[era + 1]
  IN  IF era < configs.half_life_count THEN acc
      ELSE IF from <= now /\ now < to
        THEN [acc EXCEPT !.secs = @ + Halved(now - acc.last, era), !.half_life = era]
      ELSE IF to <= now
        THEN [secs |-> acc.secs + Halved(to - acc.last, era), last |-> to,
              half_life |-> era + 1]
      ELSE acc

\* The loop: seconds to be paid at the full rate, and the era they end in.
SinceLastFill ==
  EraStep(2, EraStep(1, EraStep(0,
    [secs |-> 0, last |-> configs.last_lem_bucket_fill,
     half_life |-> configs.half_life_count])))

\* Mutant of Capped: the cap is compared with the supply before the issue.
CappedLate(amount) == IF lem.supply > LEM_MAX THEN 0 ELSE amount

\* The amount after the check against LEM_MAX.
Capped(amount) == IF amount + lem.supply > LEM_MAX THEN LEM_MAX - lem.supply ELSE amount

\* uint32_t arithmetic: the product wraps.
Accrued == (SinceLastFill.secs * Rate) % U32

NewToken == Capped(Accrued)

\* Mutant of BucketShare: the lending bucket gets nine tenths.
BucketShareNine(bucket, amount) ==
  CASE bucket = "lending_reward" -> (amount * 9) \div 10
    [] bucket = "marketing" -> amount \div 10
    [] bucket \in {"team", "reserved"} -> amount \div 20

\* amount * 0.3, 0.1, 0.05 and 0.05, truncated to whole units.
BucketShare(bucket, amount) ==
  CASE bucket = "lending_reward" -> (amount * 3) \div 10
    [] bucket = "marketing" -> amount \div 10
    [] bucket \in {"team", "reserved"} -> amount \div 20

\* The LEM ledger after `amount` was issued to the contract and split.
LemIssued(amount) ==
  LET spent == BucketShare("lending_reward", amount) + BucketShare("marketing", amount)
               + BucketShare("team", amount) + BucketShare("reserved", amount)
  IN  [supply |-> lem.supply + amount,
       balance |-> [a \in LemAccounts |->
         IF a \in Buckets THEN lem.balance[a] + BucketShare(a, amount)
         ELSE IF a = "self" THEN lem.balance[a] + amount - spent
         ELSE lem.balance[a]]]

\* Whether issue_lem does anything: after the third half-life it returns.
IssuesLem == configs.half_life_count # 3 /\ NewToken > 0

\* The configs row after an issue.
ConfigFilled == [configs EXCEPT !.half_life_count = SinceLastFill.half_life,
                                !.last_lem_bucket_fill = now]

\* configs and LEM ledger as issue_lem leaves them.
ConfigAfterIssue == IF IssuesLem THEN ConfigFilled ELSE configs
LemAfterIssue == IF IssuesLem THEN LemIssued(NewToken) ELSE lem

\* issuelem()
issuelem ==
  /\ configs.is_active
  /\ configs' = ConfigAfterIssue
  /\ lem' = LemAfterIssue
  /\ UNCHANGED now

Tick ==
  /\ now < MaxTime
  /\ now' = now + 1
  /\ UNCHANGED <<configs, lem>>

IssuanceInit ==
  /\ now = 0
  /\ configs = NoConfig
  /\ lem = [supply |-> 0, balance |-> [a \in LemAccounts |-> 0]]

IssuanceNext == Tick \/ init \/ issuelem

IssuanceSpec == IssuanceInit /\ [][IssuanceNext]_issuanceVars

\* Time passes, the contract is initialised and the manager keeps calling.
IssuanceFairSpec ==
  IssuanceSpec /\ WF_issuanceVars(Tick) /\ WF_issuanceVars(init) /\ WF_issuanceVars(issuelem)

-----------------------------------------------------------------------------
(***************************************************************************)
(* Properties                                                              *)
(***************************************************************************)
\* The row, the clock and the ledger have their types.
IssuanceTypeOK ==
  /\ now \in Nat
  /\ configs \in config
  /\ lem \in [supply : Nat, balance : [LemAccounts -> Nat]]

Least(a, b) == IF a <= b THEN a ELSE b
Most(a, b) == IF a <= b THEN b ELSE a

\* Seconds of [0, t] that fall in an era, and the schedule the halving defines:
\* four times the seconds that are due at the full rate up to time t.
EraSeconds(t, era) ==
  LET from == configs.last_half_life_updated[era]
      to == configs.last_half_life_updated[era + 1]
  IN  Most(0, Least(t, to) - from)
Schedule4(t) == 4 * EraSeconds(t, 0) + 2 * EraSeconds(t, 1) + EraSeconds(t, 2)

\* LEM is never emitted faster than the halving schedule: what was issued is
\* at most what is due up to the last fill, whenever and by whom issue_lem is
\* called, in calls within an era, across one half-life or across all three.
NeverAheadOfSchedule ==
  configs.is_active =>
    4 * lem.supply <= Rate * Schedule4(configs.last_lem_bucket_fill)

\* The supply never exceeds LEM_MAX.
SupplyCapped == lem.supply <= LEM_MAX

\* half_life_count is the era of the last fill: the next issue starts its loop
\* in the era its interval starts in, so no part of it is skipped.
EraOfLastFill ==
  configs.is_active =>
    LET c == configs.half_life_count
        h == configs.last_half_life_updated
    IN  /\ h[c] <= configs.last_lem_bucket_fill
        /\ c # 3 => configs.last_lem_bucket_fill < h[c + 1]
        /\ configs.last_lem_bucket_fill <= now

\* At least half of everything issued stays with the contract, which pays the
\* LEM rewards of the stakers from it.
HalfStaysForRewards == 2 * lem.balance["self"] >= lem.supply

\* An issue mints what is due since the last fill, but for less than two
\* seconds of rounding at the full rate, unless it reaches the cap.
IssueIsExact ==
  (configs.is_active /\ configs' # configs) =>
    \/ lem'.supply = LEM_MAX
    \/ 4 * (lem'.supply - lem.supply)
         >= Rate * (Schedule4(now) - Schedule4(configs.last_lem_bucket_fill) - 5)
EveryIssueIsExact == [][IssueIsExact]_issuanceVars

\* README.md: issuelem issues exactly the amount computed from
\* last_lem_bucket_fill and the current time.  In the first era that amount
\* is Rate for each second.
FirstEraIssueIsExact ==
  [][\A start \in 0 .. MaxTime :
       (/\ configs.is_active /\ configs' # configs
        /\ configs.last_lem_bucket_fill = start
        /\ now < configs.last_half_life_updated[1])
       => lem'.supply - lem.supply = Rate * (now - start)]_issuanceVars

\* After the third half-life the emission completes, however late issue_lem is
\* called: all that is left to issue then is the rounding of one call, unless
\* the cap was reached.
EmissionCompletes ==
  (configs.is_active /\ now >= configs.last_half_life_updated[3])
    ~> [](\/ lem.supply = LEM_MAX
          \/ Schedule4(configs.last_half_life_updated[3])
               - Schedule4(configs.last_lem_bucket_fill) <= 5)

=============================================================================
