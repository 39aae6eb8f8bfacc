------------------------------ MODULE Forecast ------------------------------
(***************************************************************************)
(* What a forecast says: the attendance rates learned from the mess's      *)
(* reconciled meals, and the servings recommended for a meal whose votes   *)
(* are counted (model.js, loadHistory and generateForecast of              *)
(* forecasting.service.js).  When a forecast may be made is the business   *)
(* of MealLifecycle.                                                       *)
(*                                                                         *)
(* Rates are fractions, where the code has floating-point numbers.  The    *)
(* outcomes it learns from grow and are corrected while it waits, and a    *)
(* supervisor may ask for another version.                                 *)
(***************************************************************************)
EXTENDS Integers, FiniteSetsExt

CONSTANTS
  Past,        \* the days of earlier meals of this type
  Special,     \* those that were holidays or special events
  Turnout,     \* how a meal may turn out: students and attendees by group
  Counts,      \* the votes counted at the cutoff of the meal to come
  Tonight,     \* its day
  Beliefs      \* settings.forecast: priors, the quantile z of the service
               \* level, the window in days and the most meals learned from

Group == {"YES", "NO", "UNVOTED"}

Total(f) == f["YES"] + f["NO"] + f["UNVOTED"]

ASSUME ForecastAssumption ==
  /\ Past \subseteq Nat /\ IsFiniteSet(Past) /\ Special \subseteq Past /\ Tonight \in Nat
  /\ Counts \in [Group -> Nat]
  /\ Turnout \subseteq [students : [Group -> Nat], attended : [Group -> Nat]]
  /\ \A o \in Turnout, g \in Group : o.attended[g] <= o.students[g]
  /\ Beliefs \subseteq [priors : [Group -> [rate : Nat \X (Nat \ {0}), strength : Nat]],
                       z : Nat, window : Nat, most : Nat]
  /\ \A b \in Beliefs, g \in Group : b.priors[g].rate[1] <= b.priors[g].rate[2]

VARIABLES
  outcomes,  \* of the meals reconciled so far; the others have none
  policy,    \* settings.forecast
  forecast   \* the latest row of forecasts; earlier rows stay as they are

forecastVars == <<outcomes, policy, forecast>>

NoForecast == [method |-> "NONE"]

ForecastInit ==
  /\ outcomes = <<>>
  /\ policy \in Beliefs
  /\ forecast = NoForecast

-----------------------------------------------------------------------------
(* Fractions, in lowest terms so that they stay small. *)

Gcd[p \in Nat \X Nat] == IF p[2] = 0 THEN p[1] ELSE Gcd[<<p[2], p[1] % p[2]>>]
Fraction(n, d) == <<n \div Gcd[<<n, d>>], d \div Gcd[<<n, d>>]>>
Plus(p, q) == Fraction(p[1] * q[2] + q[1] * p[2], p[2] * q[2])
Times(p, q) == Fraction(p[1] * q[1], p[2] * q[2])
Over(p, q) == Fraction(p[1] * q[2], p[2] * q[1])
Whole(n) == <<n, 1>>
Rest(p) == <<p[2] - p[1], p[2]>>
AtMost(p, q) == p[1] * q[2] <= q[1] * p[2]
Ceil(p) == (p[1] + p[2] - 1) \div p[2]

\* Math.round: a half is rounded up.
Rounded(p) == (2 * p[1] + p[2]) \div (2 * p[2])

SumOver(f(_)) ==
  Plus(f("YES"), Plus(f("NO"), f("UNVOTED")))

-----------------------------------------------------------------------------
(* The history. *)

\* A day can be learned from when its meal is reconciled, was an ordinary one
\* and lies in the window.
Learnable(day) ==
  /\ day \in DOMAIN outcomes \ Special
  /\ day < Tonight /\ day + policy.window >= Tonight

\* ORDER BY service_date DESC LIMIT.
History ==
  {day \in Past : Learnable(day)
     /\ Cardinality({d \in Past : Learnable(d) /\ d > day}) < policy.most}

LoadHistory ==
  LET students(g) == [d \in History |-> outcomes[d].students[g]]
      attended(g) == [d \in History |-> outcomes[d].attended[g]]
  IN [slotCount |-> Cardinality(History),
      total |-> [g \in Group |-> SumFunctionOnSet(students(g), History)],
      attended |-> [g \in Group |-> SumFunctionOnSet(attended(g), History)]]

-----------------------------------------------------------------------------
(* The model.  Beta distributions: prior strength plus observations. *)

\* A defect to be caught: who attended counts against attending as well.
PosteriorOfAll(prior, attended, total) ==
  LET alpha == Plus(Times(prior.rate, Whole(prior.strength)), Whole(attended))
      sum == Plus(alpha, Plus(Times(Rest(prior.rate), Whole(prior.strength)), Whole(total)))
  IN IF sum[1] = 0
     THEN [mean |-> prior.rate, variance |-> Whole(0)]
     ELSE [mean |-> Over(alpha, sum), variance |-> Whole(0)]

Posterior(prior, attended, total) ==
  LET alpha == Plus(Times(prior.rate, Whole(prior.strength)), Whole(attended))
      beta == Plus(Times(Rest(prior.rate), Whole(prior.strength)), Whole(total - attended))
      sum == Plus(alpha, beta)
  IN IF sum[1] = 0
     THEN [mean |-> prior.rate, variance |-> Whole(0)]
     ELSE [mean |-> Over(alpha, sum),
           variance |-> Over(Times(alpha, beta), Times(Times(sum, sum), Plus(sum, Whole(1))))]

\* A number of servings that reaches mean + z * sd.
Reaches(servings, mean, variance, z) ==
  LET above == servings * mean[2] - mean[1] IN
  /\ AtMost(mean, Whole(servings))
  /\ AtMost(Times(Whole(z * z), variance), <<above * above, mean[2] * mean[2]>>)

\* The least, but no more than there are students.
Recommended(mean, variance, z) ==
  LET eligible == Total(Counts) IN
  Min({eligible} \cup {k \in 0..eligible : Reaches(k, mean, variance, z)})

ForecastAttendance(history) ==
  LET post == [g \in Group |-> Posterior(policy.priors[g], history.attended[g], history.total[g])]
      expected(g) == Times(Whole(Counts[g]), post[g].mean)
      spread(g) ==
        Plus(Times(expected(g), Rest(post[g].mean)),
             Times(Whole(Counts[g] * Counts[g]), post[g].variance))
      mean == SumOver(expected)
      servings == Recommended(mean, SumOver(spread), policy.z)
  IN [method |-> IF history.slotCount >= 3 THEN "HISTORY" ELSE "PRIOR",
      rates |-> [g \in Group |-> post[g].mean],
      predicted |-> Rounded(Times(mean, Whole(100))),
      servings |-> servings,
      buffer |-> Max({0, servings - Ceil(mean)}),
      history |-> history,
      priors |-> policy.priors]

ConservativeFallback(history) ==
  LET predicted == Counts["YES"] + Counts["UNVOTED"] IN
  [method |-> "FALLBACK",
   rates |-> [g \in Group |-> IF g = "NO" THEN Whole(0) ELSE Whole(1)],
   predicted |-> 100 * predicted,
   servings |-> predicted,
   buffer |-> 0,
   history |-> history,
   priors |-> policy.priors]

-----------------------------------------------------------------------------
(* The actions. *)

\* reconcile: a student who joined after the cutoff and was served counts among
\* those who did not vote (computeRows).
ReconcileMeal(day) ==
  /\ day \notin DOMAIN outcomes
  /\ \E o \in Turnout :
       outcomes' = [d \in DOMAIN outcomes \cup {day} |-> IF d = day THEN o ELSE outcomes[d]]
  /\ UNCHANGED <<policy, forecast>>

\* correctOutcome: one student was there after all, or was not.
CorrectMeal(day, g) ==
  /\ \E n \in {outcomes[day].attended[g] - 1, outcomes[day].attended[g] + 1} :
       outcomes' = [outcomes EXCEPT ![day].attended[g] = n]
  /\ outcomes'[day] \in Turnout
  /\ UNCHANGED <<policy, forecast>>

SaveBeliefs ==
  /\ policy' \in Beliefs
  /\ UNCHANGED <<outcomes, forecast>>

\* generateForecast; should the model throw, the fallback takes its place.
GenerateForecast ==
  /\ forecast' \in {ForecastAttendance(LoadHistory), ConservativeFallback(LoadHistory)}
  /\ UNCHANGED <<outcomes, policy>>

ForecastNext ==
  \/ \E day \in Past : ReconcileMeal(day)
  \/ \E day \in DOMAIN outcomes, g \in Group : CorrectMeal(day, g)
  \/ SaveBeliefs
  \/ GenerateForecast

ForecastSpec == ForecastInit /\ [][ForecastNext]_forecastVars

-----------------------------------------------------------------------------

Between(p, q, r) == (AtMost(p, q) /\ AtMost(q, r)) \/ (AtMost(r, q) /\ AtMost(q, p))

\* A group's rate lies between what was assumed of it and what was seen of it,
\* and is the one or the other where there is nothing else to go by.
RatesAreLearned ==
  \A g \in Group :
    LET total == forecast.history.total[g]
        seen == <<forecast.history.attended[g], total>>
        assumed == forecast.priors[g].rate
        weight == forecast.priors[g].strength
    IN Between(IF weight = 0 /\ total > 0 THEN seen ELSE assumed, forecast.rates[g],
               IF total = 0 THEN assumed ELSE seen)

\* Whatever the priors, the record and the service level: as many servings are
\* recommended as students are expected, and no more than there are; and the
\* buffer is the difference to the expected number, rounded up.
ForecastIsSound ==
  forecast # NoForecast =>
    /\ 0 <= forecast.predicted /\ forecast.predicted <= 100 * forecast.servings
    /\ forecast.servings <= Total(Counts)
    /\ 100 * (forecast.servings - forecast.buffer) - forecast.predicted \in 0..100
    /\ forecast.method # "FALLBACK" => RatesAreLearned
=============================================================================
