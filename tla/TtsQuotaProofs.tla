--------------------------- MODULE TtsQuotaProofs ---------------------------
(***************************************************************************)
(* Theorems about TtsQuota, for every set of licences and clips, every     *)
(* length and price, every budget and every concurrency.                   *)
(***************************************************************************)
EXTENDS TtsQuota, TLAPS, FiniteSetTheorems, WellFoundedInduction

-----------------------------------------------------------------------------
(* The inductive invariants                                                *)

\* The clip of a call is neither cached nor asked for by another call.
CallsOK == jobs \subseteq Jobs /\ OneCallPerClip

\* What a day was charged stays below its cap, and accounts for every call the
\* service may charge to it, unless another day's call was refunded to it.
MoneyOK ==
    /\ today \in Days
    /\ budget \in Int /\ budget <= HardBudget
    /\ spent \in [Days -> Int] /\ billed \in [Days -> Int]
    /\ strayed \subseteq Days
    /\ \A d \in Days : spent[d] <= HardBudget
    /\ \A d \in Days \ strayed : billed[d] <= spent[d]

Inv == CallsOK /\ MoneyOK

\* What the calls under way hold of a licence: of its bonus, of its days.
Held(l) == {j \in jobs : j.license = l /\ j.source = "bonus"}
Pending(l, d) == {j \in jobs : j.license = l /\ j.source = "normal" /\ j.day = d}

\* What a licence was charged; nothing is delivered to a day yet to come, and no
\* call is of one.
QuotaOK ==
    /\ IsFiniteSet(jobs)
    /\ dayUsed \in [Licenses -> [Days -> Nat]] /\ delivered \in [Licenses -> [Days -> Nat]]
    /\ bonus \in [Licenses -> Int] /\ granted \in [Licenses -> Int]
    /\ \A l \in Licenses, d \in Days : d > today => delivered[l][d] = 0
    /\ \A j \in jobs : j.day <= today
    /\ BonusNotCreated /\ NotUndercharged

LEMMA AmountsFacts ==
    /\ \A k \in Clips : Cost[k] \in Int /\ Cost[k] > 0
    /\ HardBudget \in Int /\ HardBudget >= 0 /\ 0 \in Days
    /\ \A b \in Budgets : b \in Int /\ b <= HardBudget
  BY ClipsAssumption, AmountsAssumption DEF Days

LEMMA JobFields ==
    ASSUME CallsOK, NEW j \in jobs
    PROVE  j.license \in Licenses /\ j.clip \in Clips /\ j.day \in Days
  BY DEF CallsOK, Jobs

-----------------------------------------------------------------------------
(* The characters of a set of calls.  The sum is a recursive function on   *)
(* the subsets of the set: it exists, and the order in which it takes the  *)
(* calls does not matter, by least counterexamples.                        *)

LEMMA LeastElement ==
    ASSUME NEW T \in SUBSET Nat, T # {}
    PROVE  \E n \in T : \A m \in T : n <= m
  <1>1. OpToRel(<, Nat) = {ss \in Nat \X Nat : ss[1] < ss[2]}
    BY Zenon DEF OpToRel
  <1>2. \E x \in T : \A y \in T : ~ (<<y, x>> \in OpToRel(<, Nat))
    BY NatLessThanWellFounded, WFMin, Zenon
  <1>3. PICK x \in T : \A y \in T : ~ (<<y, x>> \in {ss \in Nat \X Nat : ss[1] < ss[2]})
    BY <1>1, <1>2, Zenon
  <1>4. ASSUME NEW y \in T PROVE x <= y
    <2>1. <<y, x>> \in Nat \X Nat /\ <<y, x>>[1] = y /\ <<y, x>>[2] = x
      OBVIOUS
    <2>2. ~ (<<y, x>>[1] < <<y, x>>[2])
      BY <1>3, <2>1, Zenon
    <2> QED
      BY <2>1, <2>2
  <1> QED
    BY <1>4

Some(s) == CHOOSE x \in s : TRUE
Weight(j) == Chars[j.clip]
\* f sums up every subset of S that has at most n elements.
SumsUp(f, S, n) ==
    f = [s \in {t \in SUBSET S : Cardinality(t) <= n} |->
            IF s = {} THEN 0 ELSE Weight(Some(s)) + f[s \ {Some(s)}]]

LEMMA SomeFacts ==
    ASSUME NEW S, IsFiniteSet(S), NEW s \in SUBSET S
    PROVE  /\ IsFiniteSet(s) /\ Cardinality(s) \in Nat
           /\ s = {} <=> Cardinality(s) = 0
           /\ s # {} => Some(s) \in s
           /\ \A x \in s : Cardinality(s \ {x}) = Cardinality(s) - 1
  <1>1. IsFiniteSet(s) /\ Cardinality(s) \in Nat
    BY FS_Subset, FS_CardinalityType
  <1>2. s = {} <=> Cardinality(s) = 0
    BY <1>1, FS_EmptySet
  <1>3. \A x \in s : Cardinality(s \ {x}) = Cardinality(s) - 1
    BY <1>1, FS_RemoveElement
  <1> QED
    BY <1>1, <1>2, <1>3 DEF Some

LEMMA SumExists ==
    ASSUME NEW S, IsFiniteSet(S), NEW n \in Nat
    PROVE  \E f : SumsUp(f, S, n)
  <1> DEFINE Bad == {m \in Nat : \A f : ~SumsUp(f, S, m)}
  <1>1. SUFFICES ASSUME Bad # {} PROVE FALSE
    OBVIOUS
  <1>2. PICK m \in Bad : \A k \in Bad : m <= k
    <2>1. Bad \in SUBSET Nat
      OBVIOUS
    <2> HIDE DEF Bad
    <2> QED
      BY <1>1, <2>1, LeastElement
  <1>3. CASE m = 0
    <2> DEFINE f == [s \in {{}} |-> 0]
    <2>1. {t \in SUBSET S : Cardinality(t) <= m} = {{}}
      BY <1>3, SomeFacts
    <2>2. SumsUp(f, S, m)
      BY <2>1 DEF SumsUp
    <2> QED
      BY <2>2, <1>2
  <1>4. CASE m # 0
    <2>1. m - 1 \in Nat /\ m - 1 \notin Bad
      BY <1>2, <1>4
    <2>2. PICK g : SumsUp(g, S, m - 1)
      BY <2>1
    <2> DEFINE D == {t \in SUBSET S : Cardinality(t) <= m}
               f == [s \in D |-> IF s = {} THEN 0 ELSE Weight(Some(s)) + g[s \ {Some(s)}]]
    <2>3. ASSUME NEW s \in D, s # {}
          PROVE  f[s \ {Some(s)}] = g[s \ {Some(s)}]
      <3> DEFINE t == s \ {Some(s)}
      <3>1. Some(s) \in s /\ Cardinality(t) = Cardinality(s) - 1 /\ Cardinality(s) \in Nat
        BY <2>3, SomeFacts
      <3>2. t \in D /\ t \in {u \in SUBSET S : Cardinality(u) <= m - 1}
        BY <3>1, <2>1
      <3>3. g[t] = IF t = {} THEN 0 ELSE Weight(Some(t)) + g[t \ {Some(t)}]
        BY <2>2, <3>2 DEF SumsUp
      <3> HIDE DEF t, D
      <3> QED
        BY <3>2, <3>3 DEF t
    <2>4. f = [s \in D |-> IF s = {} THEN 0 ELSE Weight(Some(s)) + f[s \ {Some(s)}]]
      BY <2>3
    <2>5. SumsUp(f, S, m)
      BY <2>4 DEF SumsUp
    <2> QED
      BY <2>5, <1>2
  <1> QED
    BY <1>3, <1>4

\* The sum the model takes is that function.
LEMMA CharsUnfold ==
    ASSUME NEW S
    PROVE  InFlightChars(S) =
             (CHOOSE f : f = [s \in SUBSET S |->
                 IF s = {} THEN 0 ELSE Weight(Some(s)) + f[s \ {Some(s)}]])[S]
  BY DEF InFlightChars, MapThenSumSet, MapThenFoldSet, Weight, Some

Sums(f, S) ==
    f = [s \in SUBSET S |-> IF s = {} THEN 0 ELSE Weight(Some(s)) + f[s \ {Some(s)}]]

LEMMA CharsAreSums ==
    ASSUME NEW S, IsFiniteSet(S)
    PROVE  \E f : Sums(f, S) /\ InFlightChars(S) = f[S]
  <1>1. Cardinality(S) \in Nat /\ {t \in SUBSET S : Cardinality(t) <= Cardinality(S)} = SUBSET S
    BY FS_Subset, FS_CardinalityType
  <1>2. \E f : Sums(f, S)
    <2>1. PICK f : SumsUp(f, S, Cardinality(S))
      BY <1>1, SumExists
    <2>2. Sums(f, S)
      BY <1>1, <2>1 DEF SumsUp, Sums
    <2> QED
      BY <2>2
  <1>3. Sums(CHOOSE f : Sums(f, S), S)
    BY <1>2, Zenon
  <1>4. InFlightChars(S) = (CHOOSE f : Sums(f, S))[S]
    BY CharsUnfold DEF Sums
  <1> QED
    BY <1>3, <1>4

LEMMA SumUnique ==
    ASSUME NEW S, IsFiniteSet(S), NEW T, IsFiniteSet(T), NEW f, NEW g, Sums(f, S), Sums(g, T),
           NEW s \in SUBSET (S \cap T)
    PROVE  f[s] = g[s]
  <1> DEFINE Bad == {Cardinality(t) : t \in {u \in SUBSET (S \cap T) : f[u] # g[u]}}
  <1>1. SUFFICES ASSUME Bad # {} PROVE FALSE
    OBVIOUS
  <1>2. PICK m \in Bad : \A k \in Bad : m <= k
    <2>1. Bad \in SUBSET Nat
      BY SomeFacts
    <2> HIDE DEF Bad
    <2> QED
      BY <1>1, <2>1, LeastElement
  <1>3. PICK t \in SUBSET (S \cap T) : f[t] # g[t] /\ Cardinality(t) = m
    BY <1>2
  <1>4. /\ f[t] = IF t = {} THEN 0 ELSE Weight(Some(t)) + f[t \ {Some(t)}]
        /\ g[t] = IF t = {} THEN 0 ELSE Weight(Some(t)) + g[t \ {Some(t)}]
    BY <1>3 DEF Sums
  <1>5. t # {}
    BY <1>3, <1>4
  <1> DEFINE u == t \ {Some(t)}
  <1>6. Cardinality(t) \in Nat /\ Cardinality(u) = Cardinality(t) - 1
    BY <1>5, SomeFacts
  <1>7. f[u] # g[u] /\ u \in SUBSET (S \cap T)
    BY <1>3, <1>4, <1>5
  <1>8. Cardinality(u) \in Bad
    BY <1>7
  <1> HIDE DEF u, Bad
  <1>9. m <= Cardinality(u)
    BY <1>2, <1>8
  <1> QED
    BY <1>3, <1>6, <1>9

\* One call more adds its characters: of the call the sum takes first,
LEMMA CharsOfFirst ==
    ASSUME NEW S, IsFiniteSet(S), S # {}
    PROVE  InFlightChars(S) = Weight(Some(S)) + InFlightChars(S \ {Some(S)})
  <1> DEFINE T == S \ {Some(S)}
  <1>1. IsFiniteSet(T)
    BY FS_Subset
  <1>2. PICK f : Sums(f, S) /\ InFlightChars(S) = f[S]
    BY CharsAreSums
  <1>3. PICK g : Sums(g, T) /\ InFlightChars(T) = g[T]
    BY <1>1, CharsAreSums
  <1>4. f[S] = Weight(Some(S)) + f[T]
    BY <1>2 DEF Sums
  <1>5. f[T] = g[T]
    <2>1. T \in SUBSET (S \cap T)
      OBVIOUS
    <2> HIDE DEF T
    <2> QED
      BY <1>1, <1>2, <1>3, <2>1, SumUnique
  <1> QED
    BY <1>2, <1>3, <1>4, <1>5

LEMMA CharsOfNone == InFlightChars({}) = 0
  <1>1. IsFiniteSet({})
    BY FS_EmptySet
  <1>2. PICK f : Sums(f, {}) /\ InFlightChars({}) = f[{}]
    BY <1>1, CharsAreSums
  <1> QED
    BY <1>2 DEF Sums

LEMMA CharsNat ==
    ASSUME NEW S \in SUBSET Jobs, IsFiniteSet(S)
    PROVE  InFlightChars(S) \in Nat
  <1> DEFINE Bad == {Cardinality(t) : t \in {u \in SUBSET S : InFlightChars(u) \notin Nat}}
  <1>1. SUFFICES ASSUME Bad # {} PROVE FALSE
    OBVIOUS
  <1>2. PICK m \in Bad : \A k \in Bad : m <= k
    <2>1. Bad \in SUBSET Nat
      BY SomeFacts
    <2> HIDE DEF Bad
    <2> QED
      BY <1>1, <2>1, LeastElement
  <1>3. PICK t \in SUBSET S : InFlightChars(t) \notin Nat /\ Cardinality(t) = m
    BY <1>2
  <1>4. t # {}
    BY <1>3, CharsOfNone
  <1> DEFINE u == t \ {Some(t)}
  <1>5. IsFiniteSet(t) /\ Cardinality(t) \in Nat /\ Cardinality(u) = Cardinality(t) - 1 /\ Some(t) \in t
    BY <1>4, SomeFacts
  <1>6. InFlightChars(t) = Weight(Some(t)) + InFlightChars(u)
    BY <1>4, <1>5, CharsOfFirst
  <1>7. Weight(Some(t)) \in Nat
    BY <1>5, ClipsAssumption DEF Weight, Jobs
  <1>8. Cardinality(u) \in Bad
    BY <1>3, <1>6, <1>7
  <1> HIDE DEF u, Bad
  <1>9. m <= Cardinality(u)
    BY <1>2, <1>8
  <1> QED
    BY <1>3, <1>5, <1>9

\* and of any other.
LEMMA CharsOfOne ==
    ASSUME NEW S \in SUBSET Jobs, IsFiniteSet(S), NEW j \in S
    PROVE  InFlightChars(S) = InFlightChars(S \ {j}) + Chars[j.clip]
  <1> DEFINE Splits(t) == \A x \in t : InFlightChars(t) = InFlightChars(t \ {x}) + Weight(x)
             Bad == {Cardinality(t) : t \in {u \in SUBSET S : ~Splits(u)}}
  <1>1. SUFFICES ASSUME Bad # {} PROVE FALSE
    BY DEF Weight
  <1>2. PICK m \in Bad : \A k \in Bad : m <= k
    <2>1. Bad \in SUBSET Nat
      BY SomeFacts
    <2> HIDE DEF Bad
    <2> QED
      BY <1>1, <2>1, LeastElement
  <1>3. PICK t \in SUBSET S : ~Splits(t) /\ Cardinality(t) = m
    BY <1>2
  <1>4. PICK x \in t : InFlightChars(t) # InFlightChars(t \ {x}) + Weight(x)
    BY <1>3
  <1> DEFINE y == Some(t)
  <1>5. IsFiniteSet(t) /\ y \in t /\ \A z \in t : Weight(z) \in Nat
    BY SomeFacts, ClipsAssumption DEF Weight, Jobs
  <1>6. InFlightChars(t) = Weight(y) + InFlightChars(t \ {y})
    BY <1>5, CharsOfFirst
  <1>7. \A z \in t : /\ InFlightChars(t \ {z}) \in Nat /\ Splits(t \ {z})
    <2> TAKE z \in t
    <2>1. Cardinality(t \ {z}) = Cardinality(t) - 1 /\ Cardinality(t) \in Nat
      BY SomeFacts
    <2>2. Cardinality(t \ {z}) \notin Bad
      BY <1>2, <1>3, <2>1
    <2>3. t \ {z} \in SUBSET Jobs /\ IsFiniteSet(t \ {z})
      BY <1>5, FS_Subset
    <2> QED
      BY <2>2, <2>3, CharsNat
  <1>8. x # y
    <2>1. InFlightChars(t \ {y}) \in Nat /\ Weight(y) \in Nat
      BY <1>5, <1>7
    <2>2. InFlightChars(t) = InFlightChars(t \ {y}) + Weight(y)
      <3> HIDE DEF y
      <3> QED
        BY <1>6, <2>1
    <2> QED
      BY <1>4, <2>2
  <1>9. InFlightChars(t \ {y}) = InFlightChars((t \ {y}) \ {x}) + Weight(x)
    BY <1>5, <1>7, <1>8
  <1>10. InFlightChars(t \ {x}) = InFlightChars((t \ {x}) \ {y}) + Weight(y)
    BY <1>5, <1>7, <1>8
  <1>11. (t \ {x}) \ {y} = (t \ {y}) \ {x} /\ InFlightChars((t \ {y}) \ {x}) \in Nat
    <2>1. (t \ {y}) \ {x} \in SUBSET Jobs /\ IsFiniteSet((t \ {y}) \ {x})
      BY <1>5, FS_Subset
    <2> QED
      BY <2>1, CharsNat
  <1> HIDE DEF y, Splits, Bad
  <1> QED
    BY <1>4, <1>5, <1>6, <1>9, <1>10, <1>11

-----------------------------------------------------------------------------
(* Steps                                                                   *)

LEMMA RequestStep ==
    ASSUME Inv, NEW l \in Licenses, NEW k \in Clips, Request(l, k)
    PROVE  Inv'
  <1>1. CallsOK'
    <2> DEFINE j == [license |-> l, clip |-> k, source |-> Source(l, Chars[k]), day |-> today]
    <2>1. j \in Jobs /\ j.clip = k
      BY DEF Inv, MoneyOK, Jobs, Sources, Source
    <2>2. jobs' = jobs \cup {j} /\ cache' = cache
      BY DEF Request
    <2>3. k \notin cache /\ \A i \in jobs : i.clip # k
      BY DEF Request, InFlight
    <2> HIDE DEF j
    <2> QED
      BY <2>1, <2>2, <2>3 DEF Inv, CallsOK, OneCallPerClip
  <1>2. MoneyOK'
    <2>1. /\ spent' = [spent EXCEPT ![today] = @ + Cost[k]]
          /\ billed' = [billed EXCEPT ![today] = @ + Cost[k]]
          /\ spent[today] + Cost[k] <= budget
          /\ UNCHANGED <<today, budget, strayed>>
      BY DEF Request, Reserve, Affordable, adminVars
    <2> QED
      BY <2>1, AmountsFacts DEF Inv, MoneyOK
  <1> QED
    BY <1>1, <1>2 DEF Inv

LEMMA DeliverStep ==
    ASSUME Inv, NEW j \in jobs, Deliver(j)
    PROVE  Inv'
  <1>1. CallsOK'
    <2>1. jobs' = jobs \ {j} /\ cache' \subseteq cache \cup {j.clip}
      BY DEF Deliver
    <2> QED
      BY <2>1 DEF Inv, CallsOK, OneCallPerClip
  <1>2. MoneyOK'
    BY DEF Deliver, Inv, MoneyOK, quotaVars, adminVars
  <1> QED
    BY <1>1, <1>2 DEF Inv

\* The whole reservation of a call of today is taken back; one of another day
\* makes today one of the days that strayed.
LEMMA FailUnsentStep ==
    ASSUME Inv, NEW j \in jobs, FailUnsent(j)
    PROVE  Inv'
  <1>1. CallsOK'
    BY DEF FailUnsent, Inv, CallsOK, OneCallPerClip
  <1>2. MoneyOK'
    <2> DEFINE c == Cost[j.clip]
    <2>1. c \in Int /\ c > 0 /\ j.day \in Days
      BY JobFields, AmountsFacts DEF Inv
    <2>2. /\ spent' = [spent EXCEPT ![today] = AtLeastZero(@ - c)]
          /\ billed' = [billed EXCEPT ![j.day] = @ - c]
          /\ strayed' = IF j.day = today THEN strayed ELSE strayed \cup {today}
          /\ UNCHANGED <<today, budget>>
      BY DEF FailUnsent, adminVars
    <2> HIDE DEF c
    <2>3. AtLeastZero(spent[today] - c) \in Int /\ AtLeastZero(spent[today] - c) <= HardBudget
          /\ AtLeastZero(spent[today] - c) >= spent[today] - c
      BY <2>1, AmountsFacts DEF AtLeastZero, Inv, MoneyOK
    <2>4. /\ spent' \in [Days -> Int] /\ billed' \in [Days -> Int] /\ strayed' \subseteq Days
          /\ \A d \in Days : spent'[d] <= HardBudget
      BY <2>1, <2>2, <2>3 DEF Inv, MoneyOK
    <2>5. ASSUME NEW d \in Days \ strayed' PROVE billed'[d] <= spent'[d]
      <3>1. d \notin strayed /\ billed[d] <= spent[d] /\ billed[d] \in Int /\ spent[d] \in Int
        BY <2>2 DEF Inv, MoneyOK
      <3>2. CASE d = today
        BY <2>1, <2>2, <2>3, <3>1, <3>2 DEF Inv, MoneyOK
      <3>3. CASE d # today
        BY <2>1, <2>2, <3>1, <3>3 DEF Inv, MoneyOK
      <3> QED
        BY <3>2, <3>3
    <2> QED
      BY <2>2, <2>4, <2>5 DEF Inv, MoneyOK
  <1> QED
    BY <1>1, <1>2 DEF Inv

LEMMA OtherStep ==
    ASSUME Inv,
           \/ \E j \in jobs : FailMidway(j)
           \/ Crash \/ Midnight
           \/ \E b \in Budgets : SetBudget(b)
           \/ \E l \in Licenses, n \in DayLimits, off \in BOOLEAN : SetQuota(l, n, off)
           \/ \E l \in Licenses, delta \in Grants : AddBonus(l, delta)
           \/ \E l \in Licenses : ResetDay(l) \/ ResetMonth(l)
           \/ UNCHANGED vars
    PROVE  Inv'
  <1>1. jobs' \subseteq jobs /\ cache' = cache
    BY DEF FailMidway, Crash, Midnight, SetBudget, SetQuota, AddBonus, ResetDay, ResetMonth,
       vars
  <1>2. CallsOK'
    BY <1>1 DEF Inv, CallsOK, OneCallPerClip
  <1>3. UNCHANGED <<spent, billed, strayed>>
    BY DEF FailMidway, SpentAfterFailure, Crash, Midnight, SetBudget, SetQuota, AddBonus,
       ResetDay, ResetMonth, vars, quotaVars, historyVars
  <1>4. today' \in Days
    BY AmountsAssumption DEF FailMidway, Crash, Midnight, SetBudget, SetQuota, AddBonus,
       ResetDay, ResetMonth, vars, Inv, MoneyOK, Days
  <1>5. budget' \in Int /\ budget' <= HardBudget
    BY AmountsFacts DEF FailMidway, Crash, Midnight, SetBudget, SetQuota, AddBonus,
       ResetDay, ResetMonth, vars, adminVars, Inv, MoneyOK
  <1>6. MoneyOK'
    BY <1>3, <1>4, <1>5 DEF Inv, MoneyOK
  <1> QED
    BY <1>2, <1>6 DEF Inv

-----------------------------------------------------------------------------
(* Steps of the quota                                                      *)

LEMMA CharsLength == \A k \in Clips : Chars[k] \in Nat
  BY ClipsAssumption

\* What is held when a call comes and when one goes.
LEMMA JobComes ==
    ASSUME CallsOK, QuotaOK, NEW j \in Jobs, j \notin jobs, jobs' = jobs \cup {j},
           NEW l \in Licenses, NEW d \in Days
    PROVE  /\ IsFiniteSet(jobs')
           /\ InFlightChars(Held(l)) \in Nat /\ InFlightChars(Pending(l, d)) \in Nat
           /\ InFlightChars(Held(l)') = InFlightChars(Held(l))
                + (IF j.license = l /\ j.source = "bonus" THEN Chars[j.clip] ELSE 0)
           /\ InFlightChars(Pending(l, d)') = InFlightChars(Pending(l, d))
                + (IF j.license = l /\ j.source = "normal" /\ j.day = d THEN Chars[j.clip] ELSE 0)
  <1>1. IsFiniteSet(jobs) /\ IsFiniteSet(jobs') /\ jobs' \subseteq Jobs
    <2>1. IsFiniteSet(jobs)
      BY DEF QuotaOK
    <2>2. IsFiniteSet(jobs \cup {j})
      BY <2>1, FS_AddElement
    <2> QED
      BY <2>1, <2>2 DEF CallsOK
  <1>2. ASSUME NEW S, NEW T, S \subseteq jobs, T \subseteq jobs', j \notin S,
               T = S \/ T = S \cup {j}
        PROVE  /\ InFlightChars(S) \in Nat
               /\ InFlightChars(T) = InFlightChars(S) + (IF j \in T THEN Chars[j.clip] ELSE 0)
    <2>1. S \in SUBSET Jobs /\ T \in SUBSET Jobs /\ IsFiniteSet(S) /\ IsFiniteSet(T)
      BY <1>1, <1>2, FS_Subset DEF CallsOK
    <2>2. InFlightChars(S) \in Nat
      BY <2>1, CharsNat
    <2>3. CASE T = S
      BY <1>2, <2>2, <2>3
    <2>4. CASE j \in T
      <3>1. T \ {j} = S
        BY <1>2, <2>4
      <3>2. InFlightChars(T) = InFlightChars(T \ {j}) + Chars[j.clip]
        BY <2>1, <2>4, CharsOfOne
      <3> QED
        BY <2>2, <2>4, <3>1, <3>2
    <2> QED
      BY <1>2, <2>3, <2>4
  <1>3. /\ Held(l) \subseteq jobs /\ Held(l)' \subseteq jobs' /\ j \notin Held(l)
        /\ Held(l)' = Held(l) \/ Held(l)' = Held(l) \cup {j}
        /\ j \in Held(l)' <=> (j.license = l /\ j.source = "bonus")
    BY DEF Held
  <1>4. /\ Pending(l, d) \subseteq jobs /\ Pending(l, d)' \subseteq jobs' /\ j \notin Pending(l, d)
        /\ Pending(l, d)' = Pending(l, d) \/ Pending(l, d)' = Pending(l, d) \cup {j}
        /\ j \in Pending(l, d)' <=> (j.license = l /\ j.source = "normal" /\ j.day = d)
    BY DEF Pending
  <1>5. /\ InFlightChars(Held(l)) \in Nat
        /\ InFlightChars(Held(l)')
             = InFlightChars(Held(l)) + (IF j \in Held(l)' THEN Chars[j.clip] ELSE 0)
    BY <1>2, <1>3
  <1>6. /\ InFlightChars(Pending(l, d)) \in Nat
        /\ InFlightChars(Pending(l, d)')
             = InFlightChars(Pending(l, d)) + (IF j \in Pending(l, d)' THEN Chars[j.clip] ELSE 0)
    BY <1>2, <1>4
  <1> QED
    BY <1>1, <1>3, <1>4, <1>5, <1>6

LEMMA JobGoes ==
    ASSUME CallsOK, QuotaOK, NEW j \in jobs, jobs' = jobs \ {j},
           NEW l \in Licenses, NEW d \in Days
    PROVE  /\ IsFiniteSet(jobs')
           /\ InFlightChars(Held(l)') \in Nat /\ InFlightChars(Pending(l, d)') \in Nat
           /\ InFlightChars(Held(l)) = InFlightChars(Held(l)')
                + (IF j.license = l /\ j.source = "bonus" THEN Chars[j.clip] ELSE 0)
           /\ InFlightChars(Pending(l, d)) = InFlightChars(Pending(l, d)')
                + (IF j.license = l /\ j.source = "normal" /\ j.day = d THEN Chars[j.clip] ELSE 0)
  <1>1. IsFiniteSet(jobs) /\ IsFiniteSet(jobs') /\ jobs \subseteq Jobs
    BY FS_Subset DEF CallsOK, QuotaOK
  <1>2. ASSUME NEW S, S \subseteq jobs
        PROVE  /\ InFlightChars(S \ {j}) \in Nat
               /\ InFlightChars(S) = InFlightChars(S \ {j}) + (IF j \in S THEN Chars[j.clip] ELSE 0)
    <2>1. S \in SUBSET Jobs /\ IsFiniteSet(S) /\ S \ {j} \in SUBSET Jobs /\ IsFiniteSet(S \ {j})
      BY <1>1, <1>2, FS_Subset
    <2>2. InFlightChars(S \ {j}) \in Nat
      BY <2>1, CharsNat
    <2>3. CASE j \notin S
      <3>1. S \ {j} = S
        BY <2>3
      <3>2. InFlightChars(S) = InFlightChars(S \ {j})
        BY <3>1, Zenon
      <3> QED
        BY <2>2, <2>3, <3>2
    <2>4. CASE j \in S
      BY <2>1, <2>2, <2>4, CharsOfOne
    <2> QED
      BY <2>3, <2>4
  <1>3. /\ Held(l) \subseteq jobs /\ Held(l)' = Held(l) \ {j}
        /\ j \in Held(l) <=> (j.license = l /\ j.source = "bonus")
    BY DEF Held
  <1>4. /\ Pending(l, d) \subseteq jobs /\ Pending(l, d)' = Pending(l, d) \ {j}
        /\ j \in Pending(l, d) <=> (j.license = l /\ j.source = "normal" /\ j.day = d)
    BY DEF Pending
  <1>5. /\ InFlightChars(Held(l) \ {j}) \in Nat
        /\ InFlightChars(Held(l))
             = InFlightChars(Held(l) \ {j}) + (IF j \in Held(l) THEN Chars[j.clip] ELSE 0)
    BY <1>2, <1>3
  <1>6. /\ InFlightChars(Pending(l, d) \ {j}) \in Nat
        /\ InFlightChars(Pending(l, d))
             = InFlightChars(Pending(l, d) \ {j}) + (IF j \in Pending(l, d) THEN Chars[j.clip] ELSE 0)
    BY <1>2, <1>4
  <1> QED
    BY <1>1, <1>3, <1>4, <1>5, <1>6

\* The two properties in these words.
LEMMA QuotaWords ==
    /\ BonusNotCreated <=> \A l \in Licenses : bonus[l] + InFlightChars(Held(l)) <= granted[l]
    /\ NotUndercharged <=>
         \A l \in Licenses \ cleared :
            dayUsed[l][today] >= delivered[l][today] + InFlightChars(Pending(l, today))
  BY DEF BonusNotCreated, NotUndercharged, Held, Pending

LEMMA QuotaWordsNext ==
    /\ BonusNotCreated' <=> \A l \in Licenses : bonus'[l] + InFlightChars(Held(l)') <= granted'[l]
    /\ NotUndercharged' <=>
         \A l \in Licenses \ cleared' :
            dayUsed'[l][today'] >= delivered'[l][today'] + InFlightChars(Pending(l, today)')
  BY DEF BonusNotCreated, NotUndercharged, Held, Pending

LEMMA RequestQuota ==
    ASSUME Inv, QuotaOK, NEW l \in Licenses, NEW k \in Clips, Request(l, k)
    PROVE  QuotaOK'
  <1> DEFINE src == Source(l, Chars[k])
             j == [license |-> l, clip |-> k, source |-> src, day |-> today]
             n == Chars[k]
  <1>1. /\ j \in Jobs /\ j.license = l /\ j.clip = k /\ j.source = src /\ j.day = today
        /\ src \in {"normal", "bonus"} /\ today \in Days
    BY DEF Inv, MoneyOK, Jobs, Sources, Source
  <1>2. j \notin jobs /\ jobs' = jobs \cup {j}
    BY DEF Request, InFlight
  <1>3. /\ dayUsed' = [dayUsed EXCEPT ![l][today] = @ + (IF src = "normal" THEN n ELSE 0)]
        /\ bonus' = [bonus EXCEPT ![l] = IF src = "bonus" THEN bonus[l] - n ELSE bonus[l]]
        /\ UNCHANGED <<today, granted, delivered, cleared>>
    BY DEF Request, Reserve, LeftBonus, adminVars
  <1>4. n \in Nat
    BY CharsLength
  <1> HIDE DEF j, src, n
  <1>5. /\ dayUsed' \in [Licenses -> [Days -> Nat]] /\ delivered' \in [Licenses -> [Days -> Nat]]
        /\ bonus' \in [Licenses -> Int] /\ granted' \in [Licenses -> Int]
    BY <1>1, <1>3, <1>4 DEF QuotaOK
  <1>6. /\ \A m \in Licenses, d \in Days : d > today' => delivered'[m][d] = 0
        /\ \A i \in jobs' : i.day <= today'
    BY <1>1, <1>2, <1>3 DEF QuotaOK, Days
  <1>7. IsFiniteSet(jobs')
    BY <1>1, <1>2, JobComes DEF Inv
  <1>8. ASSUME NEW m \in Licenses
        PROVE  bonus'[m] + InFlightChars(Held(m)') <= granted'[m]
    <2>1. /\ InFlightChars(Held(m)) \in Nat
          /\ InFlightChars(Held(m)') = InFlightChars(Held(m))
               + (IF l = m /\ src = "bonus" THEN n ELSE 0)
      BY <1>1, <1>2, JobComes DEF Inv, n
    <2>2. bonus[m] + InFlightChars(Held(m)) <= granted[m] /\ bonus[m] \in Int /\ granted[m] \in Int
      BY QuotaWords DEF QuotaOK
    <2>3. bonus'[m] = bonus[m] - (IF l = m /\ src = "bonus" THEN n ELSE 0) /\ granted'[m] = granted[m]
      BY <1>3, <1>4, <2>2 DEF QuotaOK
    <2> QED
      BY <1>4, <2>1, <2>2, <2>3
  <1>9. ASSUME NEW m \in Licenses \ cleared'
        PROVE  dayUsed'[m][today'] >= delivered'[m][today'] + InFlightChars(Pending(m, today)')
    <2>1. /\ InFlightChars(Pending(m, today)) \in Nat
          /\ InFlightChars(Pending(m, today)') = InFlightChars(Pending(m, today))
               + (IF l = m /\ src = "normal" THEN n ELSE 0)
      <3> PICK d : d = today
        OBVIOUS
      <3>1. d \in Days /\ Pending(m, today) = Pending(m, d) /\ Pending(m, today)' = Pending(m, d)'
        BY <1>1, <1>3 DEF Pending
      <3>2. /\ InFlightChars(Pending(m, d)) \in Nat
            /\ InFlightChars(Pending(m, d)') = InFlightChars(Pending(m, d))
                + (IF j.license = m /\ j.source = "normal" /\ j.day = d THEN Chars[j.clip] ELSE 0)
        BY <1>1, <1>2, <3>1, JobComes DEF Inv
      <3> QED
        BY <1>1, <3>1, <3>2 DEF n
    <2>2. /\ dayUsed[m][today] >= delivered[m][today] + InFlightChars(Pending(m, today))
          /\ dayUsed[m][today] \in Nat /\ delivered[m][today] \in Nat
      BY <1>1, <1>3, QuotaWords DEF QuotaOK
    <2>3. /\ dayUsed'[m][today'] = dayUsed[m][today] + (IF l = m /\ src = "normal" THEN n ELSE 0)
          /\ delivered'[m][today'] = delivered[m][today]
      BY <1>1, <1>3, <1>4, <2>2 DEF QuotaOK
    <2> QED
      BY <1>4, <2>1, <2>2, <2>3
  <1>10. BonusNotCreated' /\ NotUndercharged'
    BY <1>8, <1>9, QuotaWordsNext
  <1> QED
    BY <1>5, <1>6, <1>7, <1>10 DEF QuotaOK

LEMMA DeliverQuota ==
    ASSUME Inv, QuotaOK, NEW j \in jobs, Deliver(j)
    PROVE  QuotaOK'
  <1> DEFINE n == IF j.source = "normal" THEN Chars[j.clip] ELSE 0
  <1>1. /\ j.license \in Licenses /\ j.clip \in Clips /\ j.day \in Days /\ today \in Days
        /\ Chars[j.clip] \in Nat /\ n \in Nat /\ j.day <= today
    BY JobFields, CharsLength DEF Inv, MoneyOK, QuotaOK
  <1>2. /\ jobs' = jobs \ {j}
        /\ delivered' = [delivered EXCEPT ![j.license][j.day] = @ + n]
        /\ UNCHANGED <<today, dayUsed, bonus, granted, cleared>>
    BY DEF Deliver, quotaVars, adminVars
  <1>3. Chars[j.clip] = n \/ j.source # "normal"
    OBVIOUS
  <1>4. j.source = "normal" \/ n = 0
    OBVIOUS
  <1> HIDE DEF n
  <1>5. /\ dayUsed' \in [Licenses -> [Days -> Nat]] /\ delivered' \in [Licenses -> [Days -> Nat]]
        /\ bonus' \in [Licenses -> Int] /\ granted' \in [Licenses -> Int]
    BY <1>1, <1>2 DEF QuotaOK
  <1>6. /\ \A m \in Licenses, d \in Days : d > today' => delivered'[m][d] = 0
        /\ \A i \in jobs' : i.day <= today'
    BY <1>1, <1>2 DEF QuotaOK, Days
  <1>7. IsFiniteSet(jobs')
    BY <1>1, <1>2, JobGoes DEF Inv
  <1>8. ASSUME NEW m \in Licenses
        PROVE  bonus'[m] + InFlightChars(Held(m)') <= granted'[m]
    <2>1. /\ InFlightChars(Held(m)') \in Nat
          /\ InFlightChars(Held(m)) = InFlightChars(Held(m)')
               + (IF j.license = m /\ j.source = "bonus" THEN Chars[j.clip] ELSE 0)
      BY <1>1, <1>2, JobGoes DEF Inv
    <2>2. bonus[m] + InFlightChars(Held(m)) <= granted[m] /\ bonus[m] \in Int /\ granted[m] \in Int
      BY QuotaWords DEF QuotaOK
    <2> QED
      BY <1>1, <1>2, <2>1, <2>2
  <1>9. ASSUME NEW m \in Licenses \ cleared'
        PROVE  dayUsed'[m][today'] >= delivered'[m][today'] + InFlightChars(Pending(m, today)')
    <2> DEFINE mine == j.license = m /\ j.day = today
    <2>1. /\ InFlightChars(Pending(m, today)') \in Nat
          /\ InFlightChars(Pending(m, today)) = InFlightChars(Pending(m, today)')
               + (IF mine THEN n ELSE 0)
      <3> PICK d : d = today
        OBVIOUS
      <3>1. d \in Days /\ Pending(m, today) = Pending(m, d) /\ Pending(m, today)' = Pending(m, d)'
        BY <1>1, <1>2 DEF Pending
      <3>2. /\ InFlightChars(Pending(m, d)') \in Nat
            /\ InFlightChars(Pending(m, d)) = InFlightChars(Pending(m, d)')
                + (IF j.license = m /\ j.source = "normal" /\ j.day = d THEN Chars[j.clip] ELSE 0)
        BY <1>1, <1>2, <3>1, JobGoes DEF Inv
      <3> QED
        BY <1>3, <1>4, <3>1, <3>2
    <2>2. /\ dayUsed[m][today] >= delivered[m][today] + InFlightChars(Pending(m, today))
          /\ dayUsed[m][today] \in Nat /\ delivered[m][today] \in Nat
      BY <1>1, <1>2, QuotaWords DEF QuotaOK
    <2>3. /\ dayUsed'[m][today'] = dayUsed[m][today]
          /\ delivered'[m][today'] = delivered[m][today] + (IF mine THEN n ELSE 0)
      BY <1>1, <1>2, <2>2 DEF QuotaOK
    <2> HIDE DEF mine
    <2> QED
      BY <1>1, <2>1, <2>2, <2>3
  <1>10. BonusNotCreated' /\ NotUndercharged'
    BY <1>8, <1>9, QuotaWordsNext
  <1> QED
    BY <1>5, <1>6, <1>7, <1>10 DEF QuotaOK

\* A refund takes back what the call held, or clears the licence.
LEMMA RefundQuota ==
    ASSUME Inv, QuotaOK, NEW j \in jobs, jobs' = jobs \ {j}, RefundLicense(j),
           UNCHANGED <<today, granted, delivered>>
    PROVE  QuotaOK'
  <1> DEFINE n == IF j.source = "normal" THEN Chars[j.clip] ELSE 0
             b == IF j.source = "bonus" THEN Chars[j.clip] ELSE 0
  <1>1. /\ j.license \in Licenses /\ j.clip \in Clips /\ j.day \in Days /\ today \in Days
        /\ Chars[j.clip] \in Nat /\ n \in Nat /\ b \in Nat /\ j.day <= today
    BY JobFields, CharsLength DEF Inv, MoneyOK, QuotaOK
  <1>2. /\ dayUsed' = [dayUsed EXCEPT ![j.license][today] = AtLeastZero(@ - n)]
        /\ bonus' = [bonus EXCEPT ![j.license] =
                       IF j.source = "bonus" THEN bonus[j.license] + Chars[j.clip]
                       ELSE bonus[j.license]]
        /\ cleared' = IF j.day = today THEN cleared ELSE cleared \cup {j.license}
    BY DEF RefundLicense, RefundedNormal, RefundedBonus
  <1>3. bonus' = [bonus EXCEPT ![j.license] = bonus[j.license] + b]
    <2>1. bonus[j.license] \in Int
      BY <1>1 DEF QuotaOK
    <2>2. (IF j.source = "bonus" THEN bonus[j.license] + Chars[j.clip] ELSE bonus[j.license])
            = bonus[j.license] + b
      BY <1>1, <2>1
    <2> QED
      BY <1>2, <2>2
  <1>4. /\ n = IF j.source = "normal" THEN Chars[j.clip] ELSE 0
        /\ b = IF j.source = "bonus" THEN Chars[j.clip] ELSE 0
    OBVIOUS
  <1> HIDE DEF n, b
  <1>5. /\ dayUsed' \in [Licenses -> [Days -> Nat]] /\ delivered' \in [Licenses -> [Days -> Nat]]
        /\ bonus' \in [Licenses -> Int] /\ granted' \in [Licenses -> Int]
    <2>1. \A x \in Int : AtLeastZero(x) \in Nat
      BY DEF AtLeastZero
    <2>2. dayUsed[j.license][today] - n \in Int
      BY <1>1 DEF QuotaOK
    <2> QED
      BY <1>1, <1>2, <1>3, <2>1, <2>2 DEF QuotaOK
  <1>6. /\ \A m \in Licenses, d \in Days : d > today' => delivered'[m][d] = 0
        /\ \A i \in jobs' : i.day <= today'
    BY DEF QuotaOK
  <1>7. IsFiniteSet(jobs')
    BY <1>1, JobGoes DEF Inv
  <1>8. ASSUME NEW m \in Licenses
        PROVE  bonus'[m] + InFlightChars(Held(m)') <= granted'[m]
    <2>1. /\ InFlightChars(Held(m)') \in Nat
          /\ InFlightChars(Held(m)) = InFlightChars(Held(m)') + (IF j.license = m THEN b ELSE 0)
      BY <1>1, <1>4, JobGoes DEF Inv
    <2>2. bonus[m] + InFlightChars(Held(m)) <= granted[m] /\ bonus[m] \in Int /\ granted[m] \in Int
      BY QuotaWords DEF QuotaOK
    <2>3. bonus'[m] = bonus[m] + (IF j.license = m THEN b ELSE 0) /\ granted'[m] = granted[m]
      BY <1>1, <1>3, <2>2 DEF QuotaOK
    <2> QED
      BY <1>1, <2>1, <2>2, <2>3
  <1>9. ASSUME NEW m \in Licenses \ cleared'
        PROVE  dayUsed'[m][today'] >= delivered'[m][today'] + InFlightChars(Pending(m, today)')
    <2>1. /\ InFlightChars(Pending(m, today)') \in Nat
          /\ InFlightChars(Pending(m, today)) = InFlightChars(Pending(m, today)')
               + (IF j.license = m /\ j.day = today THEN n ELSE 0)
      <3> PICK d : d = today
        OBVIOUS
      <3>1. d \in Days /\ Pending(m, today) = Pending(m, d) /\ Pending(m, today)' = Pending(m, d)'
        BY <1>1 DEF Pending
      <3>2. /\ InFlightChars(Pending(m, d)') \in Nat
            /\ InFlightChars(Pending(m, d)) = InFlightChars(Pending(m, d)')
                + (IF j.license = m /\ j.source = "normal" /\ j.day = d THEN Chars[j.clip] ELSE 0)
        BY <1>1, <3>1, JobGoes DEF Inv
      <3> QED
        BY <1>4, <3>1, <3>2
    <2>2. /\ dayUsed[m][today] >= delivered[m][today] + InFlightChars(Pending(m, today))
          /\ dayUsed[m][today] \in Nat /\ delivered[m][today] \in Nat
      BY <1>1, <1>2, QuotaWords DEF QuotaOK
    <2>3. CASE j.license = m
      <3>1. j.day = today
        BY <1>2, <2>3
      <3>2. dayUsed'[m][today'] = AtLeastZero(dayUsed[m][today] - n) /\ delivered'[m][today'] = delivered[m][today]
        BY <1>1, <1>2, <2>2, <2>3 DEF QuotaOK
      <3>3. AtLeastZero(dayUsed[m][today] - n) >= dayUsed[m][today] - n
        BY <1>1, <2>2 DEF AtLeastZero
      <3>4. AtLeastZero(dayUsed[m][today] - n) \in Int
        BY <1>1, <2>2 DEF AtLeastZero
      <3> QED
        BY <1>1, <2>1, <2>2, <2>3, <3>1, <3>2, <3>3, <3>4
    <2>4. CASE j.license # m
      <3>1. dayUsed'[m][today'] = dayUsed[m][today] /\ delivered'[m][today'] = delivered[m][today]
        BY <1>1, <1>2, <2>4 DEF QuotaOK
      <3> QED
        BY <2>1, <2>2, <2>4, <3>1
    <2> QED
      BY <2>3, <2>4
  <1>10. BonusNotCreated' /\ NotUndercharged'
    BY <1>8, <1>9, QuotaWordsNext
  <1> QED
    BY <1>5, <1>6, <1>7, <1>10 DEF QuotaOK

LEMMA FailQuota ==
    ASSUME Inv, QuotaOK, NEW j \in jobs, FailUnsent(j) \/ FailMidway(j)
    PROVE  QuotaOK'
  <1>1. jobs' = jobs \ {j} /\ RefundLicense(j) /\ UNCHANGED <<today, granted, delivered>>
    BY DEF FailUnsent, FailMidway, adminVars
  <1> QED
    BY <1>1, RefundQuota

LEMMA CrashQuota == ASSUME Inv, QuotaOK, Crash PROVE QuotaOK'
  <1>1. jobs' = {} /\ UNCHANGED <<today, dayUsed, bonus, granted, delivered, cleared>>
    BY DEF Crash, quotaVars, adminVars, historyVars
  <1>2. IsFiniteSet(jobs') /\ \A m \in Licenses : Held(m)' = {} /\ Pending(m, today)' = {}
    BY <1>1, FS_EmptySet DEF Held, Pending
  <1>3. ASSUME NEW m \in Licenses
        PROVE  /\ InFlightChars(Held(m)) \in Nat /\ InFlightChars(Pending(m, today)) \in Nat
    <2>1. /\ Held(m) \in SUBSET Jobs /\ IsFiniteSet(Held(m))
          /\ Pending(m, today) \in SUBSET Jobs /\ IsFiniteSet(Pending(m, today))
      BY FS_Subset DEF Held, Pending, Inv, CallsOK, QuotaOK
    <2> QED
      BY <2>1, CharsNat
  <1>4. ASSUME NEW m \in Licenses
        PROVE  bonus'[m] + InFlightChars(Held(m)') <= granted'[m]
    <2>1. bonus[m] + InFlightChars(Held(m)) <= granted[m] /\ bonus[m] \in Int /\ granted[m] \in Int
      BY QuotaWords DEF QuotaOK
    <2> QED
      BY <1>1, <1>2, <1>3, <2>1, CharsOfNone
  <1>5. ASSUME NEW m \in Licenses \ cleared'
        PROVE  dayUsed'[m][today'] >= delivered'[m][today'] + InFlightChars(Pending(m, today)')
    <2>1. /\ dayUsed[m][today] >= delivered[m][today] + InFlightChars(Pending(m, today))
          /\ dayUsed[m][today] \in Nat /\ delivered[m][today] \in Nat
      BY <1>1, QuotaWords DEF QuotaOK, Inv, MoneyOK
    <2>2. InFlightChars(Pending(m, today)') = 0 /\ InFlightChars(Pending(m, today)) \in Nat
      BY <1>2, <1>3, CharsOfNone
    <2>3. dayUsed[m][today] >= delivered[m][today] + 0
      BY <2>1, <2>2
    <2> QED
      BY <1>1, <2>2, <2>3
  <1>6. BonusNotCreated' /\ NotUndercharged'
    BY <1>4, <1>5, QuotaWordsNext
  <1> QED
    BY <1>1, <1>2, <1>6 DEF QuotaOK

\* Nothing is charged to the new day yet.
LEMMA MidnightQuota == ASSUME Inv, QuotaOK, Midnight PROVE QuotaOK'
  <1>1. /\ today' = today + 1 /\ UNCHANGED <<jobs, dayUsed, bonus, granted, delivered>>
        /\ today \in Int /\ today' \in Days
    BY AmountsAssumption DEF Midnight, quotaVars, adminVars, Inv, MoneyOK, Days
  <1>2. \A m \in Licenses : Held(m)' = Held(m) /\ Pending(m, today)' = {}
    BY <1>1 DEF Held, Pending, QuotaOK, Inv, CallsOK, Jobs, Days
  <1>3. BonusNotCreated'
    BY <1>1, <1>2, QuotaWords, QuotaWordsNext DEF QuotaOK
  <1>4. NotUndercharged'
    <2> SUFFICES ASSUME NEW m \in Licenses
                 PROVE  dayUsed'[m][today'] >= delivered'[m][today'] + InFlightChars(Pending(m, today)')
      BY QuotaWordsNext
    <2> PICK d : d = today'
      OBVIOUS
    <2>1. d \in Days /\ d > today /\ InFlightChars(Pending(m, today)') = 0
      BY <1>1, <1>2, CharsOfNone
    <2>2. delivered[m][d] = 0 /\ dayUsed[m][d] \in Nat
      BY <2>1 DEF QuotaOK
    <2> QED
      BY <1>1, <2>1, <2>2
  <1>5. /\ \A m \in Licenses, d \in Days : d > today' => delivered'[m][d] = 0
        /\ \A j \in jobs' : j.day <= today'
    BY <1>1 DEF QuotaOK, Days, Inv, CallsOK, Jobs
  <1> QED
    BY <1>1, <1>3, <1>4, <1>5 DEF QuotaOK

LEMMA AdminQuota ==
    ASSUME Inv, QuotaOK,
           \/ \E b \in Budgets : SetBudget(b)
           \/ \E l \in Licenses, n \in DayLimits, off \in BOOLEAN : SetQuota(l, n, off)
           \/ \E l \in Licenses, delta \in Grants : AddBonus(l, delta)
           \/ \E l \in Licenses : ResetDay(l) \/ ResetMonth(l)
           \/ UNCHANGED vars
    PROVE  QuotaOK'
  <1>1. UNCHANGED <<today, jobs, delivered>>
    BY DEF SetBudget, SetQuota, AddBonus, ResetDay, ResetMonth, vars, historyVars
  <1>2. \A m \in Licenses : Held(m)' = Held(m) /\ Pending(m, today)' = Pending(m, today)
    BY <1>1 DEF Held, Pending
  <1>3. /\ dayUsed' \in [Licenses -> [Days -> Nat]] /\ cleared \subseteq cleared'
        /\ \A m \in Licenses \ cleared' : dayUsed'[m] = dayUsed[m]
    <2>1. CASE \E l \in Licenses : ResetDay(l)
      <3>1. PICK l \in Licenses : dayUsed' = [dayUsed EXCEPT ![l][today] = 0] /\ cleared' = cleared \cup {l}
        BY <2>1 DEF ResetDay
      <3> QED
        BY <3>1 DEF QuotaOK, Inv, MoneyOK
    <2>2. CASE ~ \E l \in Licenses : ResetDay(l)
      <3>1. UNCHANGED <<dayUsed, cleared>>
        BY <2>2 DEF SetBudget, SetQuota, AddBonus, ResetMonth, vars, quotaVars, historyVars
      <3> QED
        BY <3>1 DEF QuotaOK
    <2> QED
      BY <2>1, <2>2
  <1>4. /\ bonus' \in [Licenses -> Int] /\ granted' \in [Licenses -> Int]
        /\ \A m \in Licenses : granted'[m] - bonus'[m] = granted[m] - bonus[m]
    <2>1. CASE \E l \in Licenses, delta \in Grants : AddBonus(l, delta)
      <3>1. PICK l \in Licenses, delta \in Grants : AddBonus(l, delta)
        BY <2>1
      <3> DEFINE after == AtLeastZero(bonus[l] + delta)
      <3>2. /\ bonus' = [bonus EXCEPT ![l] = after]
            /\ granted' = [granted EXCEPT ![l] = @ + (after - bonus[l])]
        BY <3>1 DEF AddBonus
      <3>3. after \in Int
        BY AmountsAssumption DEF QuotaOK, AtLeastZero
      <3> HIDE DEF after
      <3> QED
        BY <3>2, <3>3 DEF QuotaOK
    <2>2. CASE ~ \E l \in Licenses, delta \in Grants : AddBonus(l, delta)
      <3>1. UNCHANGED <<bonus, granted>>
        BY <2>2 DEF SetBudget, SetQuota, ResetDay, ResetMonth, vars, quotaVars, adminVars
      <3> QED
        BY <3>1 DEF QuotaOK
    <2> QED
      BY <2>1, <2>2
  <1>5. ASSUME NEW m \in Licenses
        PROVE  bonus'[m] + InFlightChars(Held(m)') <= granted'[m]
    <2>1. InFlightChars(Held(m)) \in Nat
      <3>1. Held(m) \in SUBSET Jobs /\ IsFiniteSet(Held(m))
        BY FS_Subset DEF Held, Inv, CallsOK, QuotaOK
      <3> QED
        BY <3>1, CharsNat
    <2>2. /\ bonus[m] + InFlightChars(Held(m)) <= granted[m] /\ bonus[m] \in Int /\ granted[m] \in Int
          /\ bonus'[m] \in Int /\ granted'[m] \in Int
      BY <1>4, QuotaWords DEF QuotaOK
    <2>3. granted'[m] - bonus'[m] = granted[m] - bonus[m] /\ Held(m)' = Held(m)
      BY <1>2, <1>4
    <2> QED
      BY <2>1, <2>2, <2>3
  <1>6. ASSUME NEW m \in Licenses \ cleared'
        PROVE  dayUsed'[m][today'] >= delivered'[m][today'] + InFlightChars(Pending(m, today)')
    BY <1>1, <1>2, <1>3, QuotaWords DEF QuotaOK
  <1>7. BonusNotCreated' /\ NotUndercharged'
    BY <1>5, <1>6, QuotaWordsNext
  <1> QED
    BY <1>1, <1>3, <1>4, <1>7 DEF QuotaOK

-----------------------------------------------------------------------------
(* Theorems                                                                *)

\* What generate() and its failures rely on: the calls under way and the money of
\* each day.
THEOREM InvHolds == Spec => []Inv
  <1>1. Init => Inv
    BY AmountsFacts DEF Init, Inv, CallsOK, OneCallPerClip, MoneyOK
  <1>2. Inv /\ [Next]_vars => Inv'
    BY RequestStep, DeliverStep, FailUnsentStep, OtherStep DEF Next
  <1> QED
    BY <1>1, <1>2, PTL DEF Spec

\* generate() pays for a clip once: at most one call for it is under way, and none
\* while it is cached, through failures, evictions and crashes.
THEOREM OneCallPerClipHolds == Spec => []OneCallPerClip
  <1>1. Inv => OneCallPerClip
    BY DEF Inv, CallsOK
  <1> QED
    BY <1>1, InvHolds, PTL

\* reserve() and refund() keep every day within the hard budget, for any prices,
\* any concurrency and any changes of the budget, except a day to which the call
\* of an earlier day was refunded.
THEOREM BudgetKeptWithoutStraysHolds == Spec => []BudgetKeptWithoutStrays
  <1>1. Inv => BudgetKeptWithoutStrays
    <2> SUFFICES ASSUME Inv, NEW d \in Days \ strayed PROVE billed[d] <= HardBudget
      BY DEF BudgetKeptWithoutStrays
    <2>1. billed[d] \in Int /\ spent[d] \in Int
      BY DEF Inv, MoneyOK
    <2> QED
      BY <2>1, AmountsFacts DEF Inv, MoneyOK
  <1> QED
    BY <1>1, InvHolds, PTL

\* The accounts of the licences follow the calls under way.
THEOREM QuotaHolds == Spec => []QuotaOK
  <1>1. Init => Inv /\ QuotaOK
    <2> SUFFICES ASSUME Init PROVE Inv /\ QuotaOK
      OBVIOUS
    <2>1. Inv
      BY AmountsFacts DEF Init, Inv, CallsOK, OneCallPerClip, MoneyOK
    <2>2. IsFiniteSet(jobs) /\ \A l \in Licenses : Held(l) = {} /\ Pending(l, today) = {}
      BY FS_EmptySet DEF Init, Held, Pending
    <2>3. \A l \in Licenses : InFlightChars(Held(l)) = 0 /\ InFlightChars(Pending(l, today)) = 0
      BY <2>2, CharsOfNone
    <2>4. \A l \in Licenses : /\ bonus[l] = 0 /\ granted[l] = 0
                              /\ dayUsed[l][today] = 0 /\ delivered[l][today] = 0
      BY AmountsFacts DEF Init
    <2>5. BonusNotCreated /\ NotUndercharged
      BY <2>3, <2>4, QuotaWords
    <2> QED
      BY <2>1, <2>2, <2>5 DEF Init, QuotaOK
  <1>2. Inv /\ QuotaOK /\ [Next]_vars => QuotaOK'
    BY RequestQuota, DeliverQuota, FailQuota, CrashQuota, MidnightQuota, AdminQuota DEF Next
  <1> QED
    BY <1>1, <1>2, InvHolds, PTL DEF Spec

\* reserve() and refund() never create bonus characters: what is left of the bonus
\* and what calls under way hold of it was granted, through failures, resets of the
\* usage and midnight.
THEOREM BonusNotCreatedHolds == Spec => []BonusNotCreated
  <1>1. QuotaOK => BonusNotCreated
    BY DEF QuotaOK
  <1> QED
    BY <1>1, QuotaHolds, PTL

\* The usage of today covers what was delivered and what is under way: a refund
\* takes back its own reservation only, as long as it is not of another day.
THEOREM NotUnderchargedHolds == Spec => []NotUndercharged
  <1>1. QuotaOK => NotUndercharged
    BY DEF QuotaOK
  <1> QED
    BY <1>1, QuotaHolds, PTL

=============================================================================
