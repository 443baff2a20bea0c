--------------------------- MODULE IssuanceProofs ---------------------------
(***************************************************************************)
(* Safety of the LEM emission for every length of the eras, rate, cap and  *)
(* word size: the bookkeeping of the eras, the schedule and the cap.       *)
(***************************************************************************)
EXTENDS Issuance, TLAPS

\* The half-lives are HalfLife apart.
Boundaries ==
  configs.is_active =>
    /\ configs.last_half_life_updated[1] = configs.last_half_life_updated[0] + HalfLife
    /\ configs.last_half_life_updated[2] = configs.last_half_life_updated[1] + HalfLife
    /\ configs.last_half_life_updated[3] = configs.last_half_life_updated[2] + HalfLife

\* Nothing is issued before init.
NothingBeforeInit == ~configs.is_active => lem.supply = 0

\* The clock and the configs row, for whoever moves LEM between accounts.
ClockInv == IssuanceTypeOK /\ Boundaries /\ EraOfLastFill

\* What is minted, wherever it goes.
MintInv ==
  /\ ClockInv
  /\ NothingBeforeInit
  /\ SupplyCapped
  /\ NeverAheadOfSchedule

IInv == MintInv /\ HalfStaysForRewards

USE IssuanceAssumption

-----------------------------------------------------------------------------
\* The boundaries of the eras are numbers, HalfLife apart.
LEMMA BoundaryTypes ==
  ASSUME IssuanceTypeOK, Boundaries, configs.is_active
  PROVE  /\ \A i \in 0 .. 3 : configs.last_half_life_updated[i] \in Nat
         /\ \A era \in 0 .. 2 : configs.last_half_life_updated[era + 1]
                                = configs.last_half_life_updated[era] + HalfLife
<1>1. configs.last_half_life_updated \in [0 .. 3 -> Nat]
  BY DEF IssuanceTypeOK, config
<1> QED BY <1>1 DEF Boundaries

\* The part of [0, t] in an era: none, up to t, or the whole era.
LEMMA EraSecondsOf ==
  ASSUME IssuanceTypeOK, Boundaries, configs.is_active,
         NEW era \in 0 .. 2, NEW t \in Nat
  PROVE  EraSeconds(t, era) =
           IF t <= configs.last_half_life_updated[era] THEN 0
           ELSE IF t <= configs.last_half_life_updated[era + 1]
             THEN t - configs.last_half_life_updated[era]
             ELSE HalfLife
<1> DEFINE from == configs.last_half_life_updated[era]
           to == configs.last_half_life_updated[era + 1]
<1>1. from \in Nat /\ to \in Nat /\ to = from + HalfLife
  BY BoundaryTypes
<1>2. EraSeconds(t, era) = Most(0, Least(t, to) - from)
  BY DEF EraSeconds
<1> HIDE DEF from, to
<1>3. Most(0, Least(t, to) - from) =
        IF t <= from THEN 0 ELSE IF t <= to THEN t - from ELSE HalfLife
  BY <1>1 DEF Most, Least
<1> QED BY <1>2, <1>3 DEF from, to

\* The schedule is linear within each era, and stops after the third.
LEMMA ScheduleOf ==
  ASSUME IssuanceTypeOK, Boundaries, configs.is_active, NEW t \in Nat,
         NEW h, h = configs.last_half_life_updated
  PROVE  Schedule4(t) = IF t <= h[0] THEN 0
                        ELSE IF t <= h[1] THEN 4 * (t - h[0])
                        ELSE IF t <= h[2] THEN 4 * HalfLife + 2 * (t - h[1])
                        ELSE IF t <= h[3] THEN 6 * HalfLife + (t - h[2])
                        ELSE 7 * HalfLife
<1> DEFINE s0 == EraSeconds(t, 0)
           s1 == EraSeconds(t, 1)
           s2 == EraSeconds(t, 2)
<1>1. h[0] \in Nat /\ h[1] \in Nat /\ h[2] \in Nat /\ h[3] \in Nat
  BY BoundaryTypes
<1>2. h[1] = h[0] + HalfLife /\ h[2] = h[1] + HalfLife /\ h[3] = h[2] + HalfLife
  BY DEF Boundaries
<1>3. s0 = IF t <= h[0] THEN 0 ELSE IF t <= h[1] THEN t - h[0] ELSE HalfLife
  <2>1. 0 \in 0 .. 2 /\ 0 + 1 = 1
    OBVIOUS
  <2> QED BY <2>1, EraSecondsOf
<1>4. s1 = IF t <= h[1] THEN 0 ELSE IF t <= h[2] THEN t - h[1] ELSE HalfLife
  <2>1. 1 \in 0 .. 2 /\ 1 + 1 = 2
    OBVIOUS
  <2> QED BY <2>1, EraSecondsOf
<1>5. s2 = IF t <= h[2] THEN 0 ELSE IF t <= h[3] THEN t - h[2] ELSE HalfLife
  <2>1. 2 \in 0 .. 2 /\ 2 + 1 = 3
    OBVIOUS
  <2> QED BY <2>1, EraSecondsOf
<1>6. Schedule4(t) = 4 * s0 + 2 * s1 + s2
  BY DEF Schedule4
<1> HIDE DEF s0, s1, s2
<1> DEFINE h0 == h[0]
           h1 == h[1]
           h2 == h[2]
           h3 == h[3]
<1>7. 4 * s0 + 2 * s1 + s2 =
        IF t <= h0 THEN 0
        ELSE IF t <= h1 THEN 4 * (t - h0)
        ELSE IF t <= h2 THEN 4 * HalfLife + 2 * (t - h1)
        ELSE IF t <= h3 THEN 6 * HalfLife + (t - h2)
        ELSE 7 * HalfLife
  <2> HIDE DEF h0, h1, h2, h3
  <2>1. h0 \in Nat /\ h1 = h0 + HalfLife /\ h2 = h1 + HalfLife /\ h3 = h2 + HalfLife
    BY <1>1, <1>2 DEF h0, h1, h2, h3
  <2>2. /\ s0 = IF t <= h0 THEN 0 ELSE IF t <= h1 THEN t - h0 ELSE HalfLife
        /\ s1 = IF t <= h1 THEN 0 ELSE IF t <= h2 THEN t - h1 ELSE HalfLife
        /\ s2 = IF t <= h2 THEN 0 ELSE IF t <= h3 THEN t - h2 ELSE HalfLife
    BY <1>3, <1>4, <1>5 DEF h0, h1, h2, h3
  <2> QED BY <2>1, <2>2
<1> QED BY <1>6, <1>7

\* Within an era the schedule grows by its share of the seconds, so dividing
\* and truncating them stays below it.
LEMMA Slope ==
  ASSUME IssuanceTypeOK, Boundaries, configs.is_active,
         NEW era \in 0 .. 2, NEW a \in Nat, NEW b \in Nat,
         configs.last_half_life_updated[era] <= a, a <= b,
         b <= configs.last_half_life_updated[era + 1]
  PROVE  /\ Halved(b - a, era) \in Nat
         /\ 4 * Halved(b - a, era) <= Schedule4(b) - Schedule4(a)
<1> DEFINE d == b - a
           h0 == configs.last_half_life_updated[0]
           h1 == configs.last_half_life_updated[1]
           h2 == configs.last_half_life_updated[2]
           h3 == configs.last_half_life_updated[3]
<1>1. h0 \in Nat /\ h1 = h0 + HalfLife /\ h2 = h1 + HalfLife /\ h3 = h2 + HalfLife
  BY BoundaryTypes DEF Boundaries
<1>2. \A t \in {a, b} :
        Schedule4(t) = IF t <= h0 THEN 0
                       ELSE IF t <= h1 THEN 4 * (t - h0)
                       ELSE IF t <= h2 THEN 4 * HalfLife + 2 * (t - h1)
                       ELSE IF t <= h3 THEN 6 * HalfLife + (t - h2)
                       ELSE 7 * HalfLife
  BY ScheduleOf
<1>3. d \in Nat /\ d = b - a
  OBVIOUS
<1>4. d \div 1 = d /\ d \div 2 \in Nat /\ 2 * (d \div 2) <= d
      /\ d \div 4 \in Nat /\ 4 * (d \div 4) <= d
  BY <1>3
<1>5. /\ era = 0 => h0 <= a /\ b <= h1
      /\ era = 1 => h1 <= a /\ b <= h2
      /\ era = 2 => h2 <= a /\ b <= h3
  OBVIOUS
<1>6. /\ era = 0 => Halved(d, era) = d
      /\ era = 1 => Halved(d, era) = d \div 2
      /\ era = 2 => Halved(d, era) = d \div 4
  BY <1>4 DEF Halved, Divisor
<1> HIDE DEF d, h0, h1, h2, h3
<1>7. CASE era = 0
  BY <1>1, <1>2, <1>3, <1>5, <1>6, <1>7 DEF d
<1>8. CASE era = 1
  <2>1. Schedule4(b) - Schedule4(a) = 2 * d
    BY <1>1, <1>2, <1>3, <1>5, <1>8
  <2> QED BY <1>3, <1>4, <1>6, <1>8, <2>1 DEF d
<1>9. CASE era = 2
  <2>1. Schedule4(b) - Schedule4(a) = d
    BY <1>1, <1>2, <1>3, <1>5, <1>9
  <2> QED BY <1>3, <1>4, <1>6, <1>9, <2>1 DEF d
<1> QED BY <1>7, <1>8, <1>9

-----------------------------------------------------------------------------
\* The loop of issue_lem before era e: it has not begun while e is at most the
\* era of the last fill; after that it stands at the start of era e, or it has
\* found the era that now falls in.  What it has added up is within the schedule.
Accumulator == [secs : Nat, last : Nat, half_life : 0 .. 3]

Gained(acc, t) == 4 * acc.secs <= Schedule4(t) - Schedule4(configs.last_lem_bucket_fill)

Progress(e, acc) ==
  LET h == configs.last_half_life_updated
      c == configs.half_life_count
  IN  /\ acc \in Accumulator
      /\ e <= c => /\ acc.secs = 0
                  /\ acc.last = configs.last_lem_bucket_fill
                  /\ acc.half_life = c
      /\ (e > c /\ now >= h[e]) => /\ acc.last = h[e]
                                  /\ acc.half_life = e
                                  /\ Gained(acc, h[e])
      /\ (e > c /\ now < h[e]) => /\ h[acc.half_life] <= now
                                 /\ acc.half_life < e
                                 /\ now < h[acc.half_life + 1]
                                 /\ Gained(acc, now)

Ready ==
  /\ IssuanceTypeOK
  /\ Boundaries
  /\ EraOfLastFill
  /\ configs.is_active
  /\ configs.half_life_count # 3

\* One iteration of the loop.
LEMMA EraStepProgress ==
  ASSUME Ready, NEW era \in 0 .. 2, NEW acc, Progress(era, acc)
  PROVE  Progress(era + 1, EraStep(era, acc))
<1> DEFINE c == configs.half_life_count
           f == configs.last_lem_bucket_fill
           from == configs.last_half_life_updated[era]
           to == configs.last_half_life_updated[era + 1]
           new == EraStep(era, acc)
<1>1. /\ from \in Nat /\ to \in Nat /\ from <= to
      /\ now \in Nat /\ f \in Nat /\ f <= now
      /\ c \in 0 .. 2 /\ era + 1 \in 0 .. 3
      /\ acc \in Accumulator /\ acc.secs \in Nat /\ acc.last \in Nat
  <2>1. from \in Nat /\ to = from + HalfLife
    BY BoundaryTypes DEF Ready
  <2> QED BY <2>1 DEF Ready, IssuanceTypeOK, config, EraOfLastFill, Progress, Accumulator
<1>2. Schedule4(f) \in Int /\ Schedule4(acc.last) \in Int
      /\ Schedule4(to) \in Int /\ Schedule4(now) \in Int
  <2>1. \A t \in Nat : Schedule4(t) \in Int
    <3> TAKE t \in Nat
    <3> DEFINE h == configs.last_half_life_updated
    <3>1. h[0] \in Nat /\ h[1] \in Nat /\ h[2] \in Nat /\ h[3] \in Nat
      BY BoundaryTypes DEF Ready
    <3> QED BY <3>1, ScheduleOf DEF Ready
  <2> QED BY <1>1, <2>1
<1>3. CASE era < c
  <2>1. new = acc
    BY <1>3 DEF EraStep
  <2> QED BY <1>1, <1>3, <2>1 DEF Progress
<1>4. CASE era >= c /\ now < from
  <2>1. from <= f => FALSE
    BY <1>1, <1>4
  <2>2. era > c
    BY <1>1, <1>4, <2>1 DEF Ready, EraOfLastFill
  <2>3. new = acc
    BY <1>1, <1>4 DEF EraStep
  <2>4. /\ configs.last_half_life_updated[acc.half_life] <= now
        /\ acc.half_life < era
        /\ now < configs.last_half_life_updated[acc.half_life + 1]
        /\ Gained(acc, now)
    BY <1>1, <1>4, <2>2 DEF Progress
  <2>5. now < to /\ acc.half_life \in 0 .. 3
    BY <1>1, <1>4 DEF Accumulator
  <2>6. acc.half_life < era + 1 /\ era + 1 > c /\ ~(now >= to) /\ ~(era + 1 <= c)
    BY <1>1, <2>2, <2>4, <2>5
  <2> HIDE DEF new
  <2> QED BY <1>1, <2>3, <2>4, <2>5, <2>6 DEF Progress, new
<1>5. ASSUME era >= c, from <= now
      PROVE  /\ from <= acc.last /\ acc.last <= to /\ acc.last <= now
             /\ Gained(acc, acc.last)
  <2>1. CASE era = c
    BY <1>1, <1>2, <1>5, <2>1 DEF Progress, Ready, EraOfLastFill, Gained
  <2>2. CASE era > c
    BY <1>1, <1>2, <1>5, <2>2 DEF Progress
  <2> QED BY <1>1, <1>5, <2>1, <2>2
<1>6. CASE era >= c /\ from <= now /\ now < to
  <2>1. new = [acc EXCEPT !.secs = @ + Halved(now - acc.last, era), !.half_life = era]
    BY <1>1, <1>6 DEF EraStep
  <2>2. /\ Halved(now - acc.last, era) \in Nat
        /\ 4 * Halved(now - acc.last, era) <= Schedule4(now) - Schedule4(acc.last)
    BY <1>1, <1>5, <1>6, Slope DEF Ready
  <2>3. /\ new \in Accumulator
        /\ new.secs = acc.secs + Halved(now - acc.last, era)
        /\ new.half_life = era
    <3> DEFINE gain == Halved(now - acc.last, era)
    <3>1. gain \in Nat /\ era \in 0 .. 3
      BY <2>2
    <3>2. new = [acc EXCEPT !.secs = @ + gain, !.half_life = era]
      BY <2>1
    <3> HIDE DEF gain, new
    <3>3. new = [secs |-> acc.secs + gain, last |-> acc.last, half_life |-> era]
      BY <1>1, <3>2 DEF Accumulator
    <3>4. acc.secs + gain \in Nat
      BY <1>1, <3>1
    <3> QED BY <1>1, <3>1, <3>3, <3>4 DEF Accumulator, gain
  <2>4. Gained(new, now)
    BY <1>1, <1>2, <1>5, <1>6, <2>2, <2>3 DEF Gained
  <2> QED BY <1>1, <1>6, <2>3, <2>4 DEF Progress
<1>7. CASE era >= c /\ to <= now
  <2>1. new = [secs |-> acc.secs + Halved(to - acc.last, era), last |-> to,
               half_life |-> era + 1]
    BY <1>1, <1>7 DEF EraStep
  <2>2. /\ Halved(to - acc.last, era) \in Nat
        /\ 4 * Halved(to - acc.last, era) <= Schedule4(to) - Schedule4(acc.last)
    BY <1>1, <1>5, <1>7, Slope DEF Ready
  <2>3. /\ new \in Accumulator
        /\ new.secs = acc.secs + Halved(to - acc.last, era)
        /\ new.last = to /\ new.half_life = era + 1
    BY <1>1, <2>1, <2>2 DEF Accumulator
  <2>4. Gained(new, to)
    BY <1>1, <1>2, <1>5, <1>7, <2>2, <2>3 DEF Gained
  <2> QED BY <1>1, <1>7, <2>3, <2>4 DEF Progress
<1> QED BY <1>1, <1>3, <1>4, <1>6, <1>7

\* The whole loop: it ends in the era of now, within the schedule.
LEMMA LoopResult ==
  ASSUME Ready
  PROVE  LET h == configs.last_half_life_updated
             era == SinceLastFill.half_life
         IN  /\ SinceLastFill.secs \in Nat /\ era \in 0 .. 3
             /\ h[era] <= now
             /\ era # 3 => now < h[era + 1]
             /\ Gained(SinceLastFill, now)
<1> DEFINE h == configs.last_half_life_updated
           start == [secs |-> 0, last |-> configs.last_lem_bucket_fill,
                     half_life |-> configs.half_life_count]
           one == EraStep(0, start)
           two == EraStep(1, one)
           three == EraStep(2, two)
<1>0. SinceLastFill = three
  BY DEF SinceLastFill
<1>1. Progress(0, start)
  BY DEF Progress, Accumulator, Ready, IssuanceTypeOK, config
<1>2. Progress(1, one)
  BY <1>1, EraStepProgress
<1>3. Progress(2, two)
  <2>1. 1 + 1 = 2 /\ 1 \in 0 .. 2
    OBVIOUS
  <2> HIDE DEF one
  <2> QED BY <1>2, <2>1, EraStepProgress
<1>4. Progress(3, three)
  <2>1. 2 + 1 = 3 /\ 2 \in 0 .. 2
    OBVIOUS
  <2> HIDE DEF two
  <2> QED BY <1>3, <2>1, EraStepProgress
<1> HIDE DEF three
<1>5. configs.half_life_count \in 0 .. 2 /\ now \in Nat
  BY DEF Ready, IssuanceTypeOK, config
<1>6. three \in Accumulator /\ three.secs \in Nat /\ three.half_life \in 0 .. 3
  BY <1>4 DEF Progress, Accumulator
<1>7. h[3] \in Nat
  BY BoundaryTypes DEF Ready
<1>8. CASE now >= h[3]
  <2>1. three.half_life = 3 /\ Gained(three, h[3])
    BY <1>4, <1>5, <1>8 DEF Progress
  <2>2. Schedule4(now) = Schedule4(h[3])
    <3>1. h[0] \in Nat /\ h[1] = h[0] + HalfLife /\ h[2] = h[1] + HalfLife
          /\ h[3] = h[2] + HalfLife
      BY BoundaryTypes DEF Ready, Boundaries
    <3>2. \A t \in {now, h[3]} :
            Schedule4(t) = IF t <= h[0] THEN 0
                           ELSE IF t <= h[1] THEN 4 * (t - h[0])
                           ELSE IF t <= h[2] THEN 4 * HalfLife + 2 * (t - h[1])
                           ELSE IF t <= h[3] THEN 6 * HalfLife + (t - h[2])
                           ELSE 7 * HalfLife
      BY <1>5, <1>7, ScheduleOf DEF Ready
    <3> HIDE DEF h
    <3> QED BY <1>5, <1>8, <3>1, <3>2
  <2> QED BY <1>0, <1>6, <1>8, <2>1, <2>2 DEF Gained
<1>9. CASE now < h[3]
  BY <1>0, <1>4, <1>5, <1>6, <1>9 DEF Progress
<1> QED BY <1>5, <1>7, <1>8, <1>9

-----------------------------------------------------------------------------
\* The four buckets get at most half of what is issued.
LEMMA SharesAtMostHalf ==
  ASSUME NEW amount \in Nat
  PROVE  /\ \A b \in Buckets : BucketShare(b, amount) \in Nat
         /\ 2 * (BucketShare("lending_reward", amount) + BucketShare("marketing", amount)
                 + BucketShare("team", amount) + BucketShare("reserved", amount)) <= amount
<1>1. /\ (amount * 3) \div 10 \in Nat /\ 10 * ((amount * 3) \div 10) <= amount * 3
      /\ amount \div 10 \in Nat /\ 10 * (amount \div 10) <= amount
      /\ amount \div 20 \in Nat /\ 20 * (amount \div 20) <= amount
  OBVIOUS
<1>2. /\ BucketShare("lending_reward", amount) = (amount * 3) \div 10
      /\ BucketShare("marketing", amount) = amount \div 10
      /\ BucketShare("team", amount) = amount \div 20
      /\ BucketShare("reserved", amount) = amount \div 20
  BY DEF BucketShare
<1>3. \A b \in Buckets : BucketShare(b, amount) \in Nat
  BY <1>1, <1>2 DEF Buckets
<1> QED BY <1>1, <1>2, <1>3

-----------------------------------------------------------------------------
(***************************************************************************)
(* What issue_lem does, whoever runs it: issuelem, or another action that  *)
(* moves LEM between accounts as well.                                     *)
(***************************************************************************)
\* issue_lem keeps a ledger a ledger, and takes nothing from the contract.
LEMMA IssuedLedger ==
  ASSUME ClockInv, configs.is_active
  PROVE  /\ LemAfterIssue \in [supply : Nat, balance : [LemAccounts -> Nat]]
         /\ LemAfterIssue.balance["self"] >= lem.balance["self"]
         /\ LemAfterIssue.supply = lem.supply + (IF IssuesLem THEN NewToken ELSE 0)
         /\ 2 * (LemAfterIssue.balance["self"] - lem.balance["self"])
              >= LemAfterIssue.supply - lem.supply
<1>1. lem \in [supply : Nat, balance : [LemAccounts -> Nat]]
  BY DEF ClockInv, IssuanceTypeOK
<1>2. CASE ~IssuesLem
  <2>1. LemAfterIssue = lem
    BY <1>2 DEF LemAfterIssue
  <2>2. lem.balance["self"] \in Nat /\ lem.supply \in Nat
    BY <1>1 DEF LemAccounts
  <2> QED BY <1>1, <1>2, <2>1, <2>2
<1>3. CASE IssuesLem
  <2> DEFINE amount == NewToken
             spent == BucketShare("lending_reward", amount) + BucketShare("marketing", amount)
                      + BucketShare("team", amount) + BucketShare("reserved", amount)
  <2>1. amount \in Nat
    <3>1. SinceLastFill.secs \in Nat
      BY <1>3, LoopResult DEF Ready, ClockInv, IssuesLem
    <3>2. Accrued \in Nat
      <4>1. SinceLastFill.secs * Rate \in Nat
        BY <3>1
      <4> QED BY <4>1 DEF Accrued
    <3>3. NewToken \in Int
      BY <1>1, <3>2 DEF NewToken, Capped
    <3> QED BY <1>3, <3>3 DEF IssuesLem
  <2> HIDE DEF amount
  <2>2. /\ \A b \in Buckets : BucketShare(b, amount) \in Nat
        /\ 2 * spent <= amount /\ spent \in Nat
    <3>1. /\ \A b \in Buckets : BucketShare(b, amount) \in Nat
          /\ 2 * spent <= amount
      BY <2>1, SharesAtMostHalf
    <3>2. "lending_reward" \in Buckets /\ "marketing" \in Buckets
          /\ "team" \in Buckets /\ "reserved" \in Buckets
      BY DEF Buckets
    <3> QED BY <3>1, <3>2
  <2>3. LemAfterIssue =
          [supply |-> lem.supply + amount,
           balance |-> [a \in LemAccounts |->
             IF a \in Buckets THEN lem.balance[a] + BucketShare(a, amount)
             ELSE IF a = "self" THEN lem.balance[a] + amount - spent
             ELSE lem.balance[a]]]
    BY <1>3 DEF LemAfterIssue, LemIssued, amount
  <2> HIDE DEF spent
  <2>4. \A a \in LemAccounts : lem.balance[a] \in Nat
    BY <1>1
  <2>5. \A a \in LemAccounts :
          (IF a \in Buckets THEN lem.balance[a] + BucketShare(a, amount)
           ELSE IF a = "self" THEN lem.balance[a] + amount - spent
           ELSE lem.balance[a]) \in Nat
    BY <2>1, <2>2, <2>4
  <2>6. LemAfterIssue \in [supply : Nat, balance : [LemAccounts -> Nat]]
    BY <1>1, <2>1, <2>3, <2>5
  <2>7. /\ LemAfterIssue.balance["self"] >= lem.balance["self"]
        /\ LemAfterIssue.supply = lem.supply + amount
        /\ 2 * (LemAfterIssue.balance["self"] - lem.balance["self"])
             >= LemAfterIssue.supply - lem.supply
    <3>1. "self" \in LemAccounts /\ "self" \notin Buckets
      BY DEF LemAccounts, Buckets
    <3>2. LemAfterIssue.balance["self"] = lem.balance["self"] + amount - spent
      BY <2>3, <3>1
    <3>3. lem.balance["self"] \in Nat /\ lem.supply \in Nat
      BY <1>1, <2>4, <3>1
    <3>4. LemAfterIssue.supply = lem.supply + amount
      BY <2>3
    <3> QED BY <2>1, <2>2, <3>2, <3>3, <3>4
  <2> QED BY <1>3, <2>6, <2>7 DEF amount
<1> QED BY <1>2, <1>3

\* issue_lem leaves the configs row in order, whatever LEM is moved afterwards.
LEMMA IssueKeepsClock ==
  ASSUME ClockInv, configs.is_active, configs' = ConfigAfterIssue, now' = now,
         lem' \in [supply : Nat, balance : [LemAccounts -> Nat]]
  PROVE  ClockInv'
<1>1. CASE ~IssuesLem
  <2>1. configs' = configs
    BY <1>1 DEF ConfigAfterIssue
  <2> QED BY <2>1 DEF ClockInv, IssuanceTypeOK, Boundaries, EraOfLastFill
<1>2. CASE IssuesLem
  <2> DEFINE h == configs.last_half_life_updated
             era == SinceLastFill.half_life
  <2>1. era \in 0 .. 3 /\ h[era] <= now /\ (era # 3 => now < h[era + 1])
    BY <1>2, LoopResult DEF Ready, ClockInv, IssuesLem
  <2>2. configs' = [configs EXCEPT !.half_life_count = era, !.last_lem_bucket_fill = now]
    BY <1>2 DEF ConfigAfterIssue, ConfigFilled
  <2>3. configs \in config /\ now \in Nat
    BY DEF ClockInv, IssuanceTypeOK
  <2> HIDE DEF era
  <2>4. /\ configs' \in config /\ configs'.is_active
        /\ configs'.last_half_life_updated = h
        /\ configs'.half_life_count = era
        /\ configs'.last_lem_bucket_fill = now
    BY <2>1, <2>2, <2>3 DEF config
  <2>5. IssuanceTypeOK'
    BY <2>3, <2>4 DEF IssuanceTypeOK
  <2>6. Boundaries'
    BY <2>4 DEF ClockInv, Boundaries
  <2>7. EraOfLastFill'
    BY <2>1, <2>3, <2>4 DEF EraOfLastFill
  <2> QED BY <2>5, <2>6, <2>7 DEF ClockInv
<1> QED BY <1>1, <1>2

\* LEM that moves without an issue, and steps that touch none of it.
LEMMA LedgerKeepsClock ==
  ASSUME ClockInv, configs' = configs, now' = now,
         lem' \in [supply : Nat, balance : [LemAccounts -> Nat]]
  PROVE  ClockInv'
BY DEF ClockInv, IssuanceTypeOK, Boundaries, EraOfLastFill

\* What an issue mints is within the cap and within the schedule.
LEMMA IssueWithinSchedule ==
  ASSUME MintInv, configs.is_active, IssuesLem
  PROVE  /\ NewToken \in Nat
         /\ lem.supply + NewToken <= LEM_MAX
         /\ 4 * (lem.supply + NewToken) <= Rate * Schedule4(now)
<1> DEFINE secs == SinceLastFill.secs
           due == Schedule4(now) - Schedule4(configs.last_lem_bucket_fill)
           h == configs.last_half_life_updated
<1>1. Ready
  BY DEF Ready, MintInv, ClockInv, IssuesLem
<1>2. /\ lem.supply \in Nat /\ lem.supply <= LEM_MAX /\ now \in Nat
      /\ configs.last_lem_bucket_fill \in Nat
      /\ 4 * lem.supply <= Rate * Schedule4(configs.last_lem_bucket_fill)
  BY DEF MintInv, ClockInv, IssuanceTypeOK, config, SupplyCapped, NeverAheadOfSchedule
<1>3. \A t \in Nat : Schedule4(t) \in Int
  <2>1. h[0] \in Nat /\ h[1] \in Nat /\ h[2] \in Nat /\ h[3] \in Nat
    BY <1>1, BoundaryTypes DEF Ready
  <2> QED BY <1>1, <2>1, ScheduleOf DEF Ready
<1>4. secs \in Nat /\ 4 * secs <= due
  BY <1>1, LoopResult DEF Gained
<1>5. due \in Nat
  BY <1>2, <1>3, <1>4
<1>6. Rate * Schedule4(now) = Rate * Schedule4(configs.last_lem_bucket_fill) + Rate * due
      /\ Rate * Schedule4(configs.last_lem_bucket_fill) \in Int /\ Rate * due \in Int
  BY <1>2, <1>3, <1>5
<1> HIDE DEF due, secs
<1>7. Accrued \in Nat /\ Accrued <= secs * Rate
  <2> DEFINE product == secs * Rate
  <2>1. product \in Nat
    BY <1>4
  <2>2. Accrued = product % U32
    BY DEF Accrued, secs
  <2> HIDE DEF product
  <2>3. product % U32 \in Nat /\ product % U32 <= product
    BY <2>1
  <2> QED BY <2>2, <2>3 DEF product
<1>8. 4 * (secs * Rate) <= Rate * due
  <2>1. PICK d \in Nat : due = 4 * secs + d
    <3>1. due - 4 * secs \in Nat /\ due = 4 * secs + (due - 4 * secs)
      BY <1>4, <1>5
    <3> QED BY <3>1
  <2>2. Rate * due = 4 * (secs * Rate) + Rate * d /\ Rate * d \in Nat
    BY <1>4, <2>1
  <2> QED BY <1>4, <2>2
<1>9. /\ NewToken \in Nat /\ NewToken <= Accrued /\ lem.supply + NewToken <= LEM_MAX
  BY <1>2, <1>7 DEF NewToken, Capped
<1>10. secs * Rate \in Nat
  BY <1>4
<1> DEFINE p == secs * Rate
           q == Rate * due
           r == Rate * Schedule4(configs.last_lem_bucket_fill)
<1>11. /\ p \in Nat /\ q \in Int /\ r \in Int /\ Accrued <= p /\ 4 * p <= q
       /\ 4 * lem.supply <= r /\ Rate * Schedule4(now) = r + q
  BY <1>2, <1>6, <1>7, <1>8, <1>10
<1> HIDE DEF p, q, r
<1>12. 4 * (lem.supply + NewToken) <= r + q
  BY <1>2, <1>7, <1>9, <1>11
<1> QED BY <1>9, <1>11, <1>12

\* What issue_lem mints, for whoever runs it and whoever gets the LEM.
LEMMA IssueKeepsMint ==
  ASSUME MintInv, configs.is_active, configs' = ConfigAfterIssue, now' = now,
         lem' \in [supply : Nat, balance : [LemAccounts -> Nat]],
         lem'.supply = LemAfterIssue.supply
  PROVE  MintInv'
<1>1. ClockInv /\ ClockInv'
  BY IssueKeepsClock DEF MintInv
<1>2. CASE ~IssuesLem
  <2>1. configs' = configs /\ lem'.supply = lem.supply
    BY <1>2 DEF ConfigAfterIssue, LemAfterIssue
  <2> QED BY <1>1, <2>1 DEF MintInv, NothingBeforeInit, SupplyCapped, NeverAheadOfSchedule,
                            Schedule4, EraSeconds
<1>3. CASE IssuesLem
  <2>1. /\ lem.supply + NewToken <= LEM_MAX
        /\ 4 * (lem.supply + NewToken) <= Rate * Schedule4(now)
    BY <1>3, IssueWithinSchedule
  <2>2. lem'.supply = lem.supply + NewToken
    BY <1>1, <1>3, IssuedLedger
  <2>3. /\ configs'.is_active
        /\ configs'.last_half_life_updated = configs.last_half_life_updated
        /\ configs'.last_lem_bucket_fill = now
    <3>1. configs \in config
      BY <1>1 DEF ClockInv, IssuanceTypeOK
    <3>2. configs' = ConfigFilled
      BY <1>3 DEF ConfigAfterIssue
    <3> QED BY <3>1, <3>2 DEF ConfigFilled, config
  <2>4. NothingBeforeInit' /\ SupplyCapped'
    BY <2>1, <2>2, <2>3 DEF NothingBeforeInit, SupplyCapped
  <2>5. NeverAheadOfSchedule'
    BY <2>1, <2>2, <2>3 DEF NeverAheadOfSchedule, Schedule4, EraSeconds
  <2> QED BY <1>1, <2>4, <2>5 DEF MintInv
<1> QED BY <1>2, <1>3

\* LEM that moves without an issue mints nothing.
LEMMA LedgerKeepsMint ==
  ASSUME MintInv, configs' = configs, now' = now,
         lem' \in [supply : Nat, balance : [LemAccounts -> Nat]], lem'.supply = lem.supply
  PROVE  MintInv'
BY LedgerKeepsClock DEF MintInv, NothingBeforeInit, SupplyCapped, NeverAheadOfSchedule,
                        Schedule4, EraSeconds

\* issuelem itself leaves half of what it mints with the contract.
LEMMA IssueKeepsInvariant ==
  ASSUME IInv, configs.is_active, configs' = ConfigAfterIssue, lem' = LemAfterIssue, now' = now
  PROVE  IInv'
<1>1. MintInv /\ ClockInv
  BY DEF IInv, MintInv
<1>2. /\ lem' \in [supply : Nat, balance : [LemAccounts -> Nat]]
      /\ 2 * (lem'.balance["self"] - lem.balance["self"]) >= lem'.supply - lem.supply
  BY <1>1, IssuedLedger
<1>3. MintInv'
  BY <1>1, <1>2, IssueKeepsMint
<1>4. /\ lem.supply \in Nat /\ lem.balance["self"] \in Nat
      /\ lem'.supply \in Nat /\ lem'.balance["self"] \in Nat
  <2>1. "self" \in LemAccounts /\ lem \in [supply : Nat, balance : [LemAccounts -> Nat]]
    BY <1>1 DEF LemAccounts, ClockInv, IssuanceTypeOK
  <2> QED BY <1>2, <2>1
<1>5. HalfStaysForRewards'
  BY <1>2, <1>4 DEF IInv, HalfStaysForRewards
<1> QED BY <1>3, <1>5 DEF IInv

-----------------------------------------------------------------------------
LEMMA InitInvariant ==
  ASSUME IssuanceInit
  PROVE  IInv
<1>1. \A i \in 0 .. 3 : 0 + i * HalfLife \in Nat
  OBVIOUS
<1>2. configs \in config /\ ~configs.is_active /\ now = 0
  <2> DEFINE h == [i \in 0 .. 3 |-> 0 + i * HalfLife]
  <2>1. h \in [0 .. 3 -> Nat]
    BY <1>1
  <2>2. configs = [[is_active |-> TRUE, last_lem_bucket_fill |-> 0,
                    last_half_life_updated |-> h, half_life_count |-> 0]
                     EXCEPT !.is_active = FALSE]
    BY DEF IssuanceInit, NoConfig, NewConfig
  <2> HIDE DEF h
  <2>3. configs = [is_active |-> FALSE, last_lem_bucket_fill |-> 0,
                   last_half_life_updated |-> h, half_life_count |-> 0]
    BY <2>2
  <2> QED BY <2>1, <2>3 DEF config, IssuanceInit
<1>3. lem.supply = 0 /\ lem.balance = [a \in LemAccounts |-> 0]
      /\ lem \in [supply : Nat, balance : [LemAccounts -> Nat]]
  BY DEF IssuanceInit
<1>4. "self" \in LemAccounts
  BY DEF LemAccounts
<1> QED BY <1>2, <1>3, <1>4
        DEF IInv, MintInv, ClockInv, IssuanceTypeOK, Boundaries, NothingBeforeInit, EraOfLastFill,
            SupplyCapped, HalfStaysForRewards, NeverAheadOfSchedule

\* init starts the eras, and nothing has been issued.
LEMMA ConfigStarts ==
  ASSUME MintInv, init
  PROVE  MintInv'
<1>1. now \in Nat /\ lem.supply = 0 /\ lem' = lem /\ now' = now
  BY DEF init, MintInv, ClockInv, IssuanceTypeOK, NothingBeforeInit
<1>2. \A i \in 0 .. 3 : now + i * HalfLife \in Nat
  BY <1>1
<1>3. configs' = [is_active |-> TRUE, last_lem_bucket_fill |-> now,
                  last_half_life_updated |-> [i \in 0 .. 3 |-> now + i * HalfLife],
                  half_life_count |-> 0]
  BY DEF init, NewConfig
<1> DEFINE h == configs'.last_half_life_updated
<1>4. /\ configs' \in config /\ configs'.is_active
      /\ configs'.last_lem_bucket_fill = now /\ configs'.half_life_count = 0
      /\ h = [i \in 0 .. 3 |-> now + i * HalfLife]
  BY <1>1, <1>2, <1>3 DEF config
<1>5. h[0] = now /\ h[1] = h[0] + HalfLife /\ h[2] = h[1] + HalfLife /\ h[3] = h[2] + HalfLife
  BY <1>1, <1>4
<1> HIDE DEF h
<1>6. IssuanceTypeOK'
  BY <1>1, <1>4 DEF MintInv, ClockInv, IssuanceTypeOK
<1>7. Boundaries' /\ NothingBeforeInit'
  BY <1>4, <1>5 DEF Boundaries, NothingBeforeInit, h
<1>8. EraOfLastFill'
  BY <1>1, <1>4, <1>5 DEF EraOfLastFill, h
<1>9. SupplyCapped'
  BY <1>1 DEF MintInv, SupplyCapped
<1>10. NeverAheadOfSchedule'
  <2>1. /\ EraSeconds(now, 0)' = Most(0, Least(now, h[1]) - h[0])
        /\ EraSeconds(now, 1)' = Most(0, Least(now, h[2]) - h[1])
        /\ EraSeconds(now, 2)' = Most(0, Least(now, h[3]) - h[2])
    BY <1>1 DEF EraSeconds, h
  <2>2. /\ Most(0, Least(now, h[1]) - h[0]) = 0
        /\ Most(0, Least(now, h[2]) - h[1]) = 0
        /\ Most(0, Least(now, h[3]) - h[2]) = 0
    BY <1>1, <1>5 DEF Most, Least
  <2>3. Schedule4(now)' = 0
    BY <2>1, <2>2 DEF Schedule4
  <2> QED BY <1>1, <1>4, <2>3 DEF NeverAheadOfSchedule
<1> QED BY <1>6, <1>7, <1>8, <1>9, <1>10 DEF MintInv, ClockInv

\* Time passes: nothing but the clock changes.
LEMMA TickInvariant ==
  ASSUME MintInv, Tick
  PROVE  MintInv'
BY DEF Tick, MintInv, ClockInv, IssuanceTypeOK, Boundaries, NothingBeforeInit, EraOfLastFill,
       SupplyCapped, NeverAheadOfSchedule, Schedule4, EraSeconds, config

\* No operation of the emission mints ahead of the schedule or beyond the cap.
LEMMA EmissionKeepsMint ==
  ASSUME MintInv, IssuanceNext
  PROVE  MintInv'
<1>1. CASE issuelem
  BY <1>1, IssuedLedger, IssueKeepsMint DEF issuelem, MintInv
<1> QED BY <1>1, ConfigStarts, TickInvariant DEF IssuanceNext

\* The row that init makes at time start.
LEMMA NewConfigStarts ==
  ASSUME NEW start \in Nat
  PROVE  LET c == NewConfig(start)
             h == c.last_half_life_updated
         IN  /\ c \in config /\ c.is_active
             /\ c.half_life_count = 0 /\ c.last_lem_bucket_fill = start
             /\ h[0] = start /\ h[1] = h[0] + HalfLife
             /\ h[2] = h[1] + HalfLife /\ h[3] = h[2] + HalfLife
<1> DEFINE h == [i \in 0 .. 3 |-> start + i * HalfLife]
<1>1. \A i \in 0 .. 3 : start + i * HalfLife \in Nat
  OBVIOUS
<1>2. /\ h \in [0 .. 3 -> Nat]
      /\ h[0] = start /\ h[1] = h[0] + HalfLife
      /\ h[2] = h[1] + HalfLife /\ h[3] = h[2] + HalfLife
  BY <1>1
<1>3. NewConfig(start) = [is_active |-> TRUE, last_lem_bucket_fill |-> start,
                          last_half_life_updated |-> h, half_life_count |-> 0]
  BY DEF NewConfig
<1> HIDE DEF h
<1> QED BY <1>2, <1>3 DEF config

\* The emission's own operations: the clock, init and issuelem.
LEMMA EmissionKeepsClock ==
  ASSUME ClockInv, IssuanceNext
  PROVE  ClockInv'
<1>1. CASE Tick
  BY <1>1 DEF Tick, ClockInv, IssuanceTypeOK, Boundaries, EraOfLastFill, config
<1>2. CASE init
  <2> DEFINE h == configs'.last_half_life_updated
  <2>1. now \in Nat /\ now' = now /\ lem' = lem /\ configs' = NewConfig(now)
    BY <1>2 DEF init, ClockInv, IssuanceTypeOK
  <2>2. /\ configs' \in config /\ configs'.is_active
        /\ configs'.half_life_count = 0 /\ configs'.last_lem_bucket_fill = now
        /\ h[0] = now /\ h[1] = h[0] + HalfLife
        /\ h[2] = h[1] + HalfLife /\ h[3] = h[2] + HalfLife
    BY <2>1, NewConfigStarts
  <2>3. IssuanceTypeOK'
    BY <2>1, <2>2 DEF ClockInv, IssuanceTypeOK
  <2> HIDE DEF h
  <2>4. Boundaries'
    BY <2>2 DEF Boundaries, h
  <2>5. EraOfLastFill'
    BY <2>1, <2>2 DEF EraOfLastFill, h
  <2> QED BY <2>3, <2>4, <2>5 DEF ClockInv
<1>3. CASE issuelem
  BY <1>3, IssuedLedger, IssueKeepsClock DEF issuelem
<1> QED BY <1>1, <1>2, <1>3 DEF IssuanceNext

\* Before init there is no row to be in order.
LEMMA InitClock ==
  ASSUME IssuanceInit
  PROVE  ClockInv
BY InitInvariant DEF IInv, MintInv, ClockInv

-----------------------------------------------------------------------------
\* Four times the seconds that truncation may have lost before an era.
Lost == [e \in 0 .. 3 |-> IF e <= 1 THEN 0 ELSE IF e = 2 THEN 2 ELSE 5]

\* What the loop has added up before era e lacks at most Lost[e].
Complete(acc, t, e) ==
  4 * acc.secs >= Schedule4(t) - Schedule4(configs.last_lem_bucket_fill) - Lost[e]

CompleteProgress(e, acc) ==
  e > configs.half_life_count =>
    LET h == configs.last_half_life_updated
    IN  Complete(acc, IF now >= h[e] THEN h[e] ELSE now, e)

\* The 32-bit product of an issue never wraps: issue_lem is called in time.
NoMintWraps == configs.is_active => SinceLastFill.secs * Rate < U32

\* The schedule is a number at every time.
LEMMA ScheduleInt ==
  ASSUME IssuanceTypeOK, Boundaries, configs.is_active, NEW t \in Nat
  PROVE  Schedule4(t) \in Int
<1> DEFINE h == configs.last_half_life_updated
<1>1. h[0] \in Nat /\ h[1] \in Nat /\ h[2] \in Nat /\ h[3] \in Nat
  BY BoundaryTypes
<1> QED BY <1>1, ScheduleOf

\* Dividing the seconds of an era loses at most a division's remainder.
LEMMA SlopeLoss ==
  ASSUME IssuanceTypeOK, Boundaries, configs.is_active,
         NEW era \in 0 .. 2, NEW a \in Nat, NEW b \in Nat,
         configs.last_half_life_updated[era] <= a, a <= b,
         b <= configs.last_half_life_updated[era + 1]
  PROVE  4 * Halved(b - a, era)
           >= Schedule4(b) - Schedule4(a) - (Lost[era + 1] - Lost[era])
<1> DEFINE d == b - a
           h0 == configs.last_half_life_updated[0]
           h1 == configs.last_half_life_updated[1]
           h2 == configs.last_half_life_updated[2]
           h3 == configs.last_half_life_updated[3]
<1>1. h0 \in Nat /\ h1 = h0 + HalfLife /\ h2 = h1 + HalfLife /\ h3 = h2 + HalfLife
  BY BoundaryTypes DEF Boundaries
<1>2. \A t \in {a, b} :
        Schedule4(t) = IF t <= h0 THEN 0
                       ELSE IF t <= h1 THEN 4 * (t - h0)
                       ELSE IF t <= h2 THEN 4 * HalfLife + 2 * (t - h1)
                       ELSE IF t <= h3 THEN 6 * HalfLife + (t - h2)
                       ELSE 7 * HalfLife
  BY ScheduleOf
<1>3. d \in Nat /\ d = b - a
  OBVIOUS
<1>4. d \div 1 = d /\ d \div 2 \in Nat /\ 2 * (d \div 2) >= d - 1
      /\ d \div 4 \in Nat /\ 4 * (d \div 4) >= d - 3
  BY <1>3
<1>5. /\ era = 0 => h0 <= a /\ b <= h1
      /\ era = 1 => h1 <= a /\ b <= h2
      /\ era = 2 => h2 <= a /\ b <= h3
  OBVIOUS
<1>6. /\ era = 0 => Halved(d, era) = d
      /\ era = 1 => Halved(d, era) = d \div 2
      /\ era = 2 => Halved(d, era) = d \div 4
  BY <1>4 DEF Halved, Divisor
<1>7. Lost[0] = 0 /\ Lost[1] = 0 /\ Lost[2] = 2 /\ Lost[3] = 5
  BY DEF Lost
<1> HIDE DEF d, h0, h1, h2, h3
<1>8. CASE era = 0
  <2>1. Schedule4(a) = 4 * (a - h0) /\ Schedule4(b) = 4 * (b - h0)
    BY <1>1, <1>2, <1>5, <1>8
  <2>2. Schedule4(b) - Schedule4(a) = 4 * d
    BY <1>1, <1>3, <2>1
  <2>3. era + 1 = 1
    BY <1>8
  <2> QED BY <1>3, <1>6, <1>7, <1>8, <2>2, <2>3 DEF d
<1>9. CASE era = 1
  <2>1. Schedule4(b) - Schedule4(a) = 2 * d
    BY <1>1, <1>2, <1>3, <1>5, <1>9
  <2>2. era + 1 = 2
    BY <1>9
  <2> QED BY <1>3, <1>4, <1>6, <1>7, <1>9, <2>1, <2>2 DEF d
<1>10. CASE era = 2
  <2>1. Schedule4(b) - Schedule4(a) = d
    BY <1>1, <1>2, <1>3, <1>5, <1>10
  <2>2. era + 1 = 3
    BY <1>10
  <2> QED BY <1>3, <1>4, <1>6, <1>7, <1>10, <2>1, <2>2 DEF d
<1> QED BY <1>8, <1>9, <1>10

\* One iteration of the loop loses no more than one division does.
LEMMA EraStepComplete ==
  ASSUME Ready, NEW era \in 0 .. 2, NEW acc, Progress(era, acc),
         CompleteProgress(era, acc)
  PROVE  CompleteProgress(era + 1, EraStep(era, acc))
<1> DEFINE c == configs.half_life_count
           f == configs.last_lem_bucket_fill
           from == configs.last_half_life_updated[era]
           to == configs.last_half_life_updated[era + 1]
           new == EraStep(era, acc)
           end == IF now >= to THEN to ELSE now
<1>1. /\ from \in Nat /\ to \in Nat /\ from <= to
      /\ now \in Nat /\ f \in Nat /\ f <= now
      /\ c \in 0 .. 2 /\ era + 1 \in 0 .. 3
      /\ acc \in Accumulator /\ acc.secs \in Nat /\ acc.last \in Nat
  <2>1. from \in Nat /\ to = from + HalfLife
    BY BoundaryTypes DEF Ready
  <2> QED BY <2>1 DEF Ready, IssuanceTypeOK, config, EraOfLastFill, Progress, Accumulator
<1>2. Schedule4(f) \in Int /\ Schedule4(acc.last) \in Int
      /\ Schedule4(to) \in Int /\ Schedule4(now) \in Int
  BY <1>1, ScheduleInt DEF Ready
<1>3. /\ Lost[era] \in Nat /\ Lost[era + 1] \in Nat
      /\ Lost[era] <= Lost[era + 1]
  <2>1. CASE era = 0
    BY <2>1 DEF Lost
  <2>2. CASE era = 1
    BY <2>2 DEF Lost
  <2>3. CASE era = 2
    BY <2>3 DEF Lost
  <2> QED BY <2>1, <2>2, <2>3
<1>4. CASE era < c
  BY <1>1, <1>4 DEF CompleteProgress
<1>5. CASE era >= c /\ now < from
  <2>1. era > c
    BY <1>1, <1>5 DEF Ready, EraOfLastFill
  <2>2. new = acc
    BY <1>1, <1>5 DEF EraStep
  <2>3. Complete(acc, now, era)
    BY <1>1, <1>5, <2>1 DEF CompleteProgress
  <2>4. Complete(new, now, era + 1)
    BY <1>1, <1>2, <1>3, <2>2, <2>3 DEF Complete
  <2>5. ~(now >= to)
    BY <1>1, <1>5
  <2> HIDE DEF new
  <2> QED BY <2>4, <2>5 DEF CompleteProgress, new
<1>6. CASE era >= c /\ from <= now
  <2>1. /\ from <= acc.last /\ acc.last <= end /\ end \in Nat /\ end <= to
        /\ 4 * acc.secs >= Schedule4(acc.last) - Schedule4(f) - Lost[era]
    <3>1. CASE era = c
      BY <1>1, <1>2, <1>3, <1>6, <3>1 DEF Progress, Ready, EraOfLastFill
    <3>2. CASE era > c
      <4>1. acc.last = from /\ Complete(acc, from, era)
        BY <1>1, <1>6, <3>2 DEF Progress, CompleteProgress
      <4> QED BY <1>1, <1>2, <1>3, <1>6, <4>1 DEF Complete
    <3> QED BY <1>1, <1>6, <3>1, <3>2
  <2> DEFINE gain == Halved(end - acc.last, era)
  <2>2. /\ gain \in Nat
        /\ 4 * gain >= Schedule4(end) - Schedule4(acc.last) - (Lost[era + 1] - Lost[era])
    <3> HIDE DEF end
    <3> QED BY <1>1, <2>1, Slope, SlopeLoss DEF Ready
  <2>3. new.secs = acc.secs + gain
    BY <1>1, <1>6 DEF EraStep, Accumulator
  <2>4. Schedule4(end) \in Int
    BY <1>2
  <2>5. Complete(new, end, era + 1)
    <3> HIDE DEF end, new, gain
    <3> QED BY <1>1, <1>2, <1>3, <2>1, <2>2, <2>3, <2>4 DEF Complete
  <2> HIDE DEF new
  <2> QED BY <2>5 DEF CompleteProgress, new
<1> QED BY <1>1, <1>4, <1>5, <1>6

\* The whole loop lacks less than two seconds at the full rate.
LEMMA LoopComplete ==
  ASSUME Ready
  PROVE  4 * SinceLastFill.secs
           >= Schedule4(now) - Schedule4(configs.last_lem_bucket_fill) - 5
<1> DEFINE h == configs.last_half_life_updated
           start == [secs |-> 0, last |-> configs.last_lem_bucket_fill,
                     half_life |-> configs.half_life_count]
           one == EraStep(0, start)
           two == EraStep(1, one)
           three == EraStep(2, two)
<1>0. SinceLastFill = three
  BY DEF SinceLastFill
<1>1. Progress(0, start) /\ CompleteProgress(0, start)
  BY DEF Progress, CompleteProgress, Accumulator, Ready, IssuanceTypeOK, config
<1>2. Progress(1, one) /\ CompleteProgress(1, one)
  BY <1>1, EraStepProgress, EraStepComplete
<1>3. Progress(2, two) /\ CompleteProgress(2, two)
  <2>1. 1 + 1 = 2 /\ 1 \in 0 .. 2
    OBVIOUS
  <2> HIDE DEF one
  <2> QED BY <1>2, <2>1, EraStepProgress, EraStepComplete
<1>4. CompleteProgress(3, three)
  <2>1. 2 + 1 = 3 /\ 2 \in 0 .. 2
    OBVIOUS
  <2> HIDE DEF two
  <2> QED BY <1>3, <2>1, EraStepComplete
<1> HIDE DEF three
<1>5. configs.half_life_count \in 0 .. 2 /\ now \in Nat
  BY DEF Ready, IssuanceTypeOK, config
<1>6. h[3] \in Nat
  BY BoundaryTypes DEF Ready
<1>7. Complete(three, IF now >= h[3] THEN h[3] ELSE now, 3)
  BY <1>4, <1>5 DEF CompleteProgress
<1>8. Schedule4(IF now >= h[3] THEN h[3] ELSE now) = Schedule4(now)
  <2>1. h[0] \in Nat /\ h[1] = h[0] + HalfLife /\ h[2] = h[1] + HalfLife
        /\ h[3] = h[2] + HalfLife
    BY BoundaryTypes DEF Ready, Boundaries
  <2>2. \A t \in {now, h[3]} :
          Schedule4(t) = IF t <= h[0] THEN 0
                         ELSE IF t <= h[1] THEN 4 * (t - h[0])
                         ELSE IF t <= h[2] THEN 4 * HalfLife + 2 * (t - h[1])
                         ELSE IF t <= h[3] THEN 6 * HalfLife + (t - h[2])
                         ELSE 7 * HalfLife
    BY <1>5, <1>6, ScheduleOf DEF Ready
  <2> HIDE DEF h
  <2> QED BY <1>5, <1>6, <2>1, <2>2
<1>9. Lost[3] = 5
  BY DEF Lost
<1> QED BY <1>0, <1>7, <1>8, <1>9 DEF Complete

\* An issue that does not wrap mints at least what the loop added up, whoever
\* runs it.
LEMMA IssueExact ==
  ASSUME MintInv, NoMintWraps, configs' = ConfigAfterIssue,
         lem'.supply = LemAfterIssue.supply
  PROVE  IssueIsExact
<1> SUFFICES ASSUME configs.is_active, configs' # configs
             PROVE  \/ lem'.supply = LEM_MAX
                    \/ 4 * (lem'.supply - lem.supply)
                         >= Rate * (Schedule4(now)
                                    - Schedule4(configs.last_lem_bucket_fill) - 5)
  BY DEF IssueIsExact
<1> DEFINE secs == SinceLastFill.secs
           due == Schedule4(now) - Schedule4(configs.last_lem_bucket_fill) - 5
<1>1. IssuesLem /\ lem'.supply = LemIssued(NewToken).supply
  BY DEF ConfigAfterIssue, LemAfterIssue
<1>2. Ready
  BY <1>1 DEF Ready, MintInv, ClockInv, IssuesLem
<1>3. secs \in Nat /\ 4 * secs >= due
  BY <1>2, LoopResult, LoopComplete
<1>4. now \in Nat /\ configs.last_lem_bucket_fill \in Nat /\ lem.supply \in Nat
  BY DEF MintInv, ClockInv, IssuanceTypeOK, config
<1>5. due \in Int
  BY <1>1, <1>4, ScheduleInt DEF MintInv, ClockInv
<1>6. secs * Rate \in Nat
  BY <1>3
<1>7. Accrued = secs * Rate
  BY <1>1, <1>6 DEF NoMintWraps, Accrued
<1>8. lem'.supply = lem.supply + NewToken
  BY <1>1 DEF LemIssued
<1>9. 4 * (secs * Rate) >= Rate * due
  <2> HIDE DEF secs, due
  <2>1. 4 * secs - due \in Nat
    BY <1>3, <1>5
  <2>2. Rate * (4 * secs - due) \in Nat
    BY <2>1
  <2>3. Rate * (4 * secs - due) = 4 * (secs * Rate) - Rate * due
    BY <1>3, <1>5
  <2> QED BY <1>3, <1>5, <2>2, <2>3
<1>10. CASE secs * Rate + lem.supply > LEM_MAX
  BY <1>4, <1>7, <1>8, <1>10 DEF NewToken, Capped
<1>11. CASE ~(secs * Rate + lem.supply > LEM_MAX)
  <2>1. NewToken = secs * Rate
    BY <1>7, <1>11 DEF NewToken, Capped
  <2>2. lem'.supply - lem.supply = secs * Rate
    BY <1>4, <1>6, <1>8, <2>1
  <2> QED BY <1>9, <2>2
<1> QED BY <1>10, <1>11

-----------------------------------------------------------------------------
\* IInv is an inductive invariant of the emission.
THEOREM IssuanceInvariance == IssuanceSpec => []IInv
<1>1. IssuanceInit => IInv
  BY InitInvariant
<1>2. IInv /\ [IssuanceNext]_issuanceVars => IInv'
  <2> SUFFICES ASSUME IInv, [IssuanceNext]_issuanceVars
               PROVE  IInv'
    OBVIOUS
  <2>1. CASE Tick \/ init
    BY <2>1, TickInvariant, ConfigStarts DEF IInv, HalfStaysForRewards, Tick, init
  <2>2. CASE issuelem
    BY <2>2, IssueKeepsInvariant DEF issuelem
  <2>3. CASE UNCHANGED issuanceVars
    <3>1. lem' \in [supply : Nat, balance : [LemAccounts -> Nat]]
      BY <2>3 DEF issuanceVars, IInv, MintInv, ClockInv, IssuanceTypeOK
    <3>2. MintInv'
      BY <2>3, <3>1, LedgerKeepsMint DEF issuanceVars, IInv
    <3> QED BY <2>3, <3>2 DEF issuanceVars, IInv, HalfStaysForRewards
  <2> QED BY <2>1, <2>2, <2>3 DEF IssuanceNext
<1> QED BY <1>1, <1>2, PTL DEF IssuanceSpec

\* The row, the clock and the LEM ledger keep their types: no bucket takes more
\* than issue_lem has just minted.
THEOREM IssuanceTypeCorrect == IssuanceSpec => []IssuanceTypeOK
<1>1. IInv => IssuanceTypeOK
  BY DEF IInv, MintInv, ClockInv
<1> QED BY <1>1, IssuanceInvariance, PTL

\* Whoever calls issue_lem and whenever, LEM is never ahead of the halving
\* schedule, also when the 32-bit product wraps.
THEOREM NeverAhead == IssuanceSpec => []NeverAheadOfSchedule
<1>1. IInv => NeverAheadOfSchedule
  BY DEF IInv, MintInv
<1> QED BY <1>1, IssuanceInvariance, PTL

\* The supply never exceeds LEM_MAX.
THEOREM AlwaysCapped == IssuanceSpec => []SupplyCapped
<1>1. IInv => SupplyCapped
  BY DEF IInv, MintInv
<1> QED BY <1>1, IssuanceInvariance, PTL

\* half_life_count is the era of the last fill.
THEOREM EraCorrect == IssuanceSpec => []EraOfLastFill
<1>1. IInv => EraOfLastFill
  BY DEF IInv, MintInv, ClockInv
<1> QED BY <1>1, IssuanceInvariance, PTL

\* At least half of what was issued stays with the contract.
THEOREM HalfStays == IssuanceSpec => []HalfStaysForRewards
<1>1. IInv => HalfStaysForRewards
  BY DEF IInv
<1> QED BY <1>1, IssuanceInvariance, PTL

\* As long as issue_lem is called before its 32-bit product wraps, an issue mints
\* all that is due since the last fill but for less than two seconds of rounding
\* at the full rate, however many half-lives lie between, unless it reaches the cap.
THEOREM IssuesAreExact == IssuanceSpec /\ []NoMintWraps => EveryIssueIsExact
<1>1. IInv /\ NoMintWraps /\ [IssuanceNext]_issuanceVars => [IssueIsExact]_issuanceVars
  <2> SUFFICES ASSUME IInv, NoMintWraps, IssuanceNext
               PROVE  IssueIsExact
    OBVIOUS
  <2>1. CASE Tick
    BY <2>1 DEF Tick, IssueIsExact
  <2>2. CASE init
    BY <2>2 DEF init, IssueIsExact
  <2>3. CASE issuelem
    BY <2>3, IssueExact DEF IInv, issuelem
  <2> QED BY <2>1, <2>2, <2>3 DEF IssuanceNext
<1> QED BY <1>1, IssuanceInvariance, PTL DEF IssuanceSpec, EveryIssueIsExact

=============================================================================
