------------------------------ MODULE TtsQuota ------------------------------
(***************************************************************************)
(* Generating speech for a licence holder: the global cache, one paid call *)
(* at a time per clip, the reservation of licence characters and of the    *)
(* daily budget before the call, and its refund when the call fails.       *)
(*                                                                         *)
(* Source: cloud-match-server/src/tts-generate.ts.                         *)
(*                                                                         *)
(* Usage, spend, quota and cache are SQLite tables; the calls in flight    *)
(* are the memory of the process.  generate() does not await between its   *)
(* look into the cache and the start of the call, so that Request is one   *)
(* step; the call may last past midnight.                                  *)
(***************************************************************************)
EXTENDS Integers, FiniteSets, FiniteSetsExt

CONSTANTS
    Licenses,
    Clips,            \* cache keys: a voice and a normalised text
    Chars,            \* clip -> characters
    Cost,             \* clip -> price in budget units
    HardBudget,       \* HARD_DAILY_BUDGET_YUAN, in budget units
    Budgets,          \* daily budgets an administrator sets
    DayLimits,        \* daily limits an administrator gives a licence
    MonthLimit,       \* monthly limit of a licence
    Concurrency,      \* globalConcurrency
    DaysPerMonth,
    Grants,           \* changes of the bonus an administrator makes
    MaxBonus,         \* bound on the bonus handed out in one run
    LastDay           \* bound on the days that pass

ASSUME ClipsAssumption ==
    /\ Chars \in [Clips -> Nat \ {0}] /\ Cost \in [Clips -> Nat \ {0}]
    /\ IsFiniteSet(Clips) /\ IsFiniteSet(Licenses)
ASSUME AmountsAssumption ==
    /\ HardBudget \in Nat /\ Budgets \subseteq 0..HardBudget
    /\ DayLimits \subseteq Nat /\ DayLimits # {}
    /\ MonthLimit \in Nat /\ Concurrency \in Nat \ {0} /\ DaysPerMonth \in Nat \ {0}
    /\ Grants \subseteq Int /\ MaxBonus \in Nat /\ LastDay \in Nat

VARIABLES
    today,      \* the day of now(), Beijing time
    dayUsed,    \* tts_license_usage of the days: licence, day -> chars
    monthUsed,  \* tts_license_usage of the months
    spent,      \* tts_daily_spend.cost_micro
    bonus,      \* tts_license_quota.bonus_chars
    dayLimit,   \* tts_license_quota.daily_limit, or the global one
    disabled,   \* licences with tts_license_quota.disabled
    budget,     \* the daily budget in force
    cache,      \* table tts_cache: the clips in it
    jobs,       \* inflight: the calls to the speech service
    granted,    \* history: bonus ever granted and not taken back
    delivered,  \* history: licence, day -> normally charged chars delivered
    billed,     \* history: day -> cost of the calls the service may charge
    strayed,    \* history: days that got the refund of another day's call
    cleared     \* history: licences whose usage of today was reset or refunded
                \* for another day's call

quotaVars == <<dayUsed, monthUsed, spent, bonus>>
adminVars == <<dayLimit, disabled, budget, granted>>
historyVars == <<delivered, billed, strayed, cleared>>
vars == <<today, quotaVars, adminVars, cache, jobs, historyVars>>

-----------------------------------------------------------------------------
Days == 0..LastDay
Month(d) == d \div DaysPerMonth
Months == 0..Month(LastDay)
Sources == {"normal", "bonus"}
Jobs == [license : Licenses, clip : Clips, source : Sources, day : Days]

TypeOK ==
    /\ today \in Days
    /\ dayUsed \in [Licenses -> [Days -> Nat]]
    /\ monthUsed \in [Licenses -> [Months -> Nat]]
    /\ spent \in [Days -> Nat]
    /\ bonus \in [Licenses -> Nat]
    /\ dayLimit \in [Licenses -> DayLimits]
    /\ disabled \subseteq Licenses
    /\ budget \in 0..HardBudget
    /\ cache \subseteq Clips
    /\ jobs \subseteq Jobs
    /\ granted \in [Licenses -> Nat]
    /\ delivered \in [Licenses -> [Days -> Nat]]
    /\ billed \in [Days -> Nat]
    /\ strayed \subseteq Days
    /\ cleared \subseteq Licenses

AtLeastZero(n) == IF n < 0 THEN 0 ELSE n

Init ==
    /\ today = 0
    /\ dayUsed = [l \in Licenses |-> [d \in Days |-> 0]]
    /\ monthUsed = [l \in Licenses |-> [m \in Months |-> 0]]
    /\ spent = [d \in Days |-> 0]
    /\ bonus = [l \in Licenses |-> 0]
    /\ dayLimit \in [Licenses -> DayLimits]
    /\ disabled = {}
    /\ budget = HardBudget
    /\ cache = {}
    /\ jobs = {}
    /\ granted = [l \in Licenses |-> 0]
    /\ delivered = [l \in Licenses |-> [d \in Days |-> 0]]
    /\ billed = [d \in Days |-> 0]
    /\ strayed = {} /\ cleared = {}

-----------------------------------------------------------------------------
(* The reservation *)

Fits(l, n) ==
    /\ dayUsed[l][today] + n <= dayLimit[l]
    /\ monthUsed[l][Month(today)] + n <= MonthLimit

\* The whole clip is charged to one source.
Source(l, n) == IF Fits(l, n) THEN "normal" ELSE "bonus"

Covered(l, n) == Fits(l, n) \/ bonus[l] >= n

\* Variation: the budget is looked at before this clip's cost.
AffordableBefore(c) == spent[today] <= budget

Affordable(c) == spent[today] + c <= budget

\* Variation: a bonus clip is not charged to the bonus.
LeftBonusFree(l, n, source) == bonus[l]

LeftBonus(l, n, source) == IF source = "bonus" THEN bonus[l] - n ELSE bonus[l]

Reserve(l, k, source) ==
    LET n == Chars[k]
        normal == IF source = "normal" THEN n ELSE 0
    IN  /\ dayUsed' = [dayUsed EXCEPT ![l][today] = @ + normal]
        /\ monthUsed' = [monthUsed EXCEPT ![l][Month(today)] = @ + normal]
        /\ bonus' = [bonus EXCEPT ![l] = LeftBonus(l, n, source)]
        /\ spent' = [spent EXCEPT ![today] = @ + Cost[k]]

\* Variation: the clip is looked for among the licence's own calls only.
OwnInFlight(l, k) == \E j \in jobs : j.clip = k /\ j.license = l

InFlight(l, k) == \E j \in jobs : j.clip = k

\* generate() of a clip that is neither cached (a hit is free) nor in flight (the
\* request shares the answer): limits, concurrency, reservation, call.
Request(l, k) ==
    /\ l \notin disabled
    /\ k \notin cache
    /\ ~InFlight(l, k)
    /\ Cardinality(jobs) < Concurrency
    /\ Covered(l, Chars[k])
    /\ Affordable(Cost[k])
    /\ LET source == Source(l, Chars[k]) IN
         /\ Reserve(l, k, source)
         /\ jobs' = jobs \cup {[license |-> l, clip |-> k, source |-> source, day |-> today]}
    /\ billed' = [billed EXCEPT ![today] = @ + Cost[k]]
    /\ UNCHANGED <<today, adminVars, cache, delivered, strayed, cleared>>

\* The audio arrives; storing it may evict the least recently used others.
Deliver(j) ==
    /\ jobs' = jobs \ {j}
    /\ cache' \in {cache \cup {j.clip}, {j.clip}}
    /\ delivered' = [delivered EXCEPT ![j.license][j.day] =
                        @ + (IF j.source = "normal" THEN Chars[j.clip] ELSE 0)]
    /\ UNCHANGED <<today, quotaVars, adminVars, billed, strayed, cleared>>

\* Variation: the refund gives the characters to the other source too.
RefundedBonusAlways(j) == bonus[j.license] + Chars[j.clip]

RefundedBonus(j) ==
    IF j.source = "bonus" THEN bonus[j.license] + Chars[j.clip] ELSE bonus[j.license]

\* Variation: a bonus clip is refunded to the normal usage.
RefundedNormalAlways(j) == Chars[j.clip]

RefundedNormal(j) == IF j.source = "normal" THEN Chars[j.clip] ELSE 0

\* refund(): the periods are those of the moment of the failure.
RefundLicense(j) ==
    LET l == j.license
        n == RefundedNormal(j)
    IN  /\ dayUsed' = [dayUsed EXCEPT ![l][today] = AtLeastZero(@ - n)]
        /\ monthUsed' = [monthUsed EXCEPT ![l][Month(today)] = AtLeastZero(@ - n)]
        /\ bonus' = [bonus EXCEPT ![l] = RefundedBonus(j)]
        /\ cleared' = IF j.day = today THEN cleared ELSE cleared \cup {l}

\* The request never reached the service: the global spend is taken back too.
FailUnsent(j) ==
    /\ jobs' = jobs \ {j}
    /\ RefundLicense(j)
    /\ spent' = [spent EXCEPT ![today] = AtLeastZero(@ - Cost[j.clip])]
    /\ billed' = [billed EXCEPT ![j.day] = @ - Cost[j.clip]]
    /\ strayed' = IF j.day = today THEN strayed ELSE strayed \cup {today}
    /\ UNCHANGED <<today, adminVars, cache, delivered>>

\* Variation: the spend of a call the service may have charged is taken back.
SpentAfterRefunded(j) == [spent EXCEPT ![today] = AtLeastZero(@ - Cost[j.clip])]

SpentAfterFailure(j) == spent

\* Time-out, abort or invalid audio: the service may have charged the call.
FailMidway(j) ==
    /\ jobs' = jobs \ {j}
    /\ RefundLicense(j)
    /\ spent' = SpentAfterFailure(j)
    /\ UNCHANGED <<today, adminVars, cache, delivered, billed, strayed>>

\* The process dies: what was reserved stays reserved.
Crash ==
    /\ jobs # {}
    /\ jobs' = {}
    /\ UNCHANGED <<today, quotaVars, adminVars, cache, historyVars>>

Midnight ==
    /\ today < LastDay
    /\ today' = today + 1
    /\ cleared' = {}
    /\ UNCHANGED <<quotaVars, adminVars, cache, jobs, delivered, billed, strayed>>

-----------------------------------------------------------------------------
(* The administrator *)

SetBudget(b) ==
    /\ budget' = b
    /\ UNCHANGED <<today, quotaVars, dayLimit, disabled, granted, cache, jobs, historyVars>>

SetQuota(l, n, off) ==
    /\ dayLimit' = [dayLimit EXCEPT ![l] = n]
    /\ disabled' = IF off THEN disabled \cup {l} ELSE disabled \ {l}
    /\ UNCHANGED <<today, quotaVars, budget, granted, cache, jobs, historyVars>>

AddBonus(l, delta) ==
    LET after == AtLeastZero(bonus[l] + delta)
    IN  /\ delta > 0 => granted[l] + delta <= MaxBonus
        /\ bonus' = [bonus EXCEPT ![l] = after]
        /\ granted' = [granted EXCEPT ![l] = @ + (after - bonus[l])]
        /\ UNCHANGED <<today, dayUsed, monthUsed, spent, dayLimit, disabled, budget,
                       cache, jobs, historyVars>>

\* Only the usage of one period of the licence is reset.
ResetDay(l) ==
    /\ dayUsed' = [dayUsed EXCEPT ![l][today] = 0]
    /\ cleared' = cleared \cup {l}
    /\ UNCHANGED <<today, monthUsed, spent, bonus, adminVars, cache, jobs,
                   delivered, billed, strayed>>

ResetMonth(l) ==
    /\ monthUsed' = [monthUsed EXCEPT ![l][Month(today)] = 0]
    /\ UNCHANGED <<today, dayUsed, spent, bonus, adminVars, cache, jobs, historyVars>>

Next ==
    \/ \E l \in Licenses, k \in Clips : Request(l, k)
    \/ \E j \in jobs : Deliver(j) \/ FailUnsent(j) \/ FailMidway(j)
    \/ Crash
    \/ Midnight
    \/ \E b \in Budgets : SetBudget(b)
    \/ \E l \in Licenses, n \in DayLimits, off \in BOOLEAN : SetQuota(l, n, off)
    \/ \E l \in Licenses, delta \in Grants : AddBonus(l, delta)
    \/ \E l \in Licenses : ResetDay(l) \/ ResetMonth(l)

Spec == Init /\ [][Next]_vars

-----------------------------------------------------------------------------
(* Properties *)

\* The comment on reserve(): the global daily budget is never exceeded, counting
\* every call the service may have charged.
BudgetNeverExceeded == \A d \in Days : billed[d] <= HardBudget

\* What the code does guarantee: failures, crashes and changes of the budget never
\* let a day exceed it, as long as no call of the day before is refunded to it.
BudgetKeptWithoutStrays ==
    \A d \in Days \ strayed : billed[d] <= HardBudget

\* A clip is paid for once: no two calls for it at a time, and none while the
\* cache has it, whoever asks.
OneCallPerClip ==
    \A j \in jobs : j.clip \notin cache /\ \A i \in jobs : i.clip = j.clip => i = j

InFlightChars(js) == MapThenSumSet(LAMBDA j : Chars[j.clip], js)

\* Bonus characters are never created: what is left, and what calls in flight
\* hold, was granted, through failures, refunds, resets and midnight.
BonusNotCreated ==
    \A l \in Licenses :
        bonus[l] + InFlightChars({j \in jobs : j.license = l /\ j.source = "bonus"})
            <= granted[l]

\* The usage that limits a licence covers all it got delivered today and all it
\* has in flight: a refund takes back its own reservation and nothing else, unless
\* the administrator reset the usage or the refund is of a call of another day.
NotUndercharged ==
    \A l \in Licenses \ cleared :
        dayUsed[l][today] >= delivered[l][today] +
            InFlightChars({j \in jobs : j.license = l /\ j.source = "normal"
                                        /\ j.day = today})

=============================================================================
