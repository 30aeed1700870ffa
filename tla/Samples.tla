------------------------------- MODULE Samples --------------------------------
(***************************************************************************)
(* The sample statistics of internal/finance: statistics.go,               *)
(* peer_association.go and analysis_complete.go.  Values are fractions, so *)
(* rounding and the checks for NaN and infinity are abstracted; a value    *)
(* that needs a square root (volatility, correlation) is given squared.    *)
(***************************************************************************)
EXTENDS Decimals

Rank(s) == SortSeq(s, Below)
LowerOrEqual(s, x) == Cardinality({i \in DOMAIN s : AtMost(s[i], x)})

Square(p) == Multiply(p, p)
Mean(s) == Divide(Total(s), Whole(Len(s)))

MiddleOf(sorted, middle) ==
  IF Len(sorted) % 2 = 1 THEN sorted[middle + 1]
  ELSE Divide(Add(sorted[middle], sorted[middle + 1]), Whole(2))
Median(s) == MiddleOf(Rank(s), Len(s) \div 2)

TotalReturn(start, end, distributions) ==
  Checked(~Negative(end) /\ ~Negative(distributions),
          OverPositive(Subtract(Add(end, distributions), start), start))

Returns(prices) ==
  [i \in 1 .. Len(prices) - 1 |-> Subtract(Divide(prices[i + 1], prices[i]), One)]

Covariance(left, right, ddof) ==
  LET product(i) == Multiply(Subtract(left[i], Mean(left)), Subtract(right[i], Mean(right)))
  IN Checked(Len(left) = Len(right) /\ Len(left) >= 2 /\ ddof >= 0 /\ Len(left) > ddof,
             Divide(Total([i \in DOMAIN left |-> product(i)]), Whole(Len(left) - ddof)))
Variance(s, ddof) == Covariance(s, s, ddof)

VolatilitySquared(returns, periods, ddof) ==
  Checked(Positive(periods), Multiply(Variance(returns, ddof), periods))

\* Stability: the squared coefficient of variation; NoValue stands for infinity.
StabilitySquared(s) == Checked(Len(s) >= 3, Divide(Variance(s, 1), Square(Mean(s))))

Highest(s) == Last(Rank(s))

Drawdown(wealth) ==
  LET fall(i) == Subtract(Divide(wealth[i], Highest(SubSeq(wealth, 1, i))), One)
      series == [i \in DOMAIN wealth |-> fall(i)]
      valid == wealth # << >> /\ \A i \in DOMAIN wealth : Positive(wealth[i])
  IN [series |-> series, maximum |-> Checked(valid, Rank(Append(series, Zero))[1])]

Beta(security, benchmark, ddof) ==
  Divide(Covariance(security, benchmark, ddof), Variance(benchmark, ddof))

CorrelationSquared(left, right, ddof) ==
  Divide(Square(Covariance(left, right, ddof)),
         Multiply(Variance(left, ddof), Variance(right, ddof)))

RollingCorrelation(left, right, window) ==
  [i \in 1 .. Len(left) - window + 1 |->
     CorrelationSquared(SubSeq(left, i, i + window - 1), SubSeq(right, i, i + window - 1), 1)]

NoAssociation == [slope |-> NoValue, intercept |-> NoValue, fit |-> NoValue]

\* The least-squares line through the pairs whose covariance and variances are given.
LineThrough(left, right, common, leftVar, rightVar) ==
  IF leftVar = Zero \/ rightVar = Zero THEN NoAssociation
  ELSE [slope |-> Divide(common, leftVar),
        intercept |-> Subtract(Mean(right), Multiply(Divide(common, leftVar), Mean(left))),
        fit |-> Divide(Square(common), Multiply(leftVar, rightVar))]

Associated(left, right, minimum) ==
  IF Len(left) < minimum \/ minimum < 3 THEN NoAssociation
  ELSE LineThrough(left, right, Covariance(left, right, 0), Variance(left, 0), Variance(right, 0))

LaggedAssociation(x, y, lag, minimum) ==
  IF Len(x) # Len(y) \/ lag < 0 \/ lag >= Len(x) THEN NoAssociation
  ELSE Associated(SubSeq(x, 1, Len(x) - lag), SubSeq(y, lag + 1, Len(y)), minimum)

AroundMedian(peers, subject, middle) ==
  [median |-> middle,
   mad |-> Median([i \in DOMAIN peers |-> Absolute(Subtract(peers[i], middle))]),
   percentile |-> Divide(Whole(LowerOrEqual(peers, subject)), Whole(Len(peers)))]

PeerStatistics(peers, subject, minimum) ==
  IF minimum < 3 \/ Len(peers) < minimum
  THEN [median |-> NoValue, percentile |-> NoValue, mad |-> NoValue]
  ELSE AroundMedian(peers, subject, Median(peers))

DuPont(netIncome, revenue, assets, equity) ==
  LET valid == Positive(revenue) /\ Positive(assets) /\ Positive(equity)
      margin == Divide(netIncome, revenue)
      turnover == Divide(revenue, assets)
      leverage == Divide(assets, equity)
  IN Checked(valid, Multiply(Multiply(margin, turnover), leverage))

--------------------------------------------------------------------------------
(* Peer cohorts.  An observation has a company, an age in days (negative   *)
(* for the future) and says whether its currency, period and definition    *)
(* are those of the policy.                                                *)

\* As Tolerated, but a repeated company keeps its first observation instead of none.
ToleratedFirst(list, o, maxAge) ==
  /\ o.age \in 0 .. maxAge /\ o.matches
  /\ \E i \in DOMAIN list : /\ list[i] = o
                            /\ \A j \in 1 .. i - 1 : list[j].company # o.company

\* An observation of a list is kept when its company is reported once, it is not
\* from the future nor stale, and it matches the policy.
Tolerated(list, o, maxAge) ==
  /\ Cardinality({i \in DOMAIN list : list[i].company = o.company}) = 1
  /\ o.age \in 0 .. maxAge /\ o.matches

Winsorized(values, share) ==
  LET order == Rank(values)
      at(p) == order[((Len(order) - 1) * p[1]) \div p[2] + 1]
      low == at(share)
      high == at(Subtract(One, share))
  IN [i \in DOMAIN values |->
        IF Below(values[i], low) THEN low
        ELSE IF Below(high, values[i]) THEN high ELSE values[i]]

\* The checks of the policy that are about numbers.
PolicyHolds(minimum, maxAge, share) ==
  minimum >= 3 /\ maxAge >= 0 /\ ~Negative(share) /\ Below(share, <<1, 2>>)

\* GovernPeerCohort: the values kept; << >> for the error it returns on an invalid
\* policy or when the sample is too small.
GovernPeerCohort(list, minimum, maxAge, share) ==
  LET byCompany(o, p) == o.company < p.company \/ (o.company = p.company /\ o.age > p.age)
      kept == SelectSeq(SortSeq(list, byCompany), LAMBDA o : Tolerated(list, o, maxAge))
      values == [i \in DOMAIN kept |-> kept[i].value]
  IN IF ~PolicyHolds(minimum, maxAge, share) \/ Len(values) < minimum THEN << >>
     ELSE Winsorized(values, share)

Interpolated(s, left, weight) ==
  IF weight = Zero THEN s[left + 1]
  ELSE Add(Multiply(s[left + 1], Subtract(One, weight)), Multiply(s[left + 2], weight))
AtPosition(s, position) ==
  Interpolated(s, position[1] \div position[2],
               Decimal(position[1] % position[2], position[2]))
Quantile(s, p) == AtPosition(s, Multiply(p, Whole(Len(s) - 1)))

BandOf(s, current) ==
  [minimum |-> s[1], maximum |-> Last(s),
   quartile |-> [k \in 1 .. 3 |-> Quantile(s, Decimal(k, 4))],
   percentile |-> Divide(Whole(LowerOrEqual(s, current)), Whole(Len(s)))]
HistoricalBand(history, current) == BandOf(Rank(history), current)

\* TrainTestLaggedAssociation over pairs in time order; a missing value is NoValue.
Untrained == [slope |-> NoValue, error |-> NoValue]

\* What the line of the training window misses on the pairs after it.
Tested(driver, outcome, trained, train) ==
  IF train.slope = NoValue THEN Untrained
  ELSE [slope |-> train.slope,
        error |-> Mean([k \in 1 .. Len(driver) - trained |->
                    Square(Subtract(Add(train.intercept, Multiply(train.slope, driver[trained + k])),
                                    outcome[trained + k]))])]

TrainedOn(driver, outcome, trained, minimum) ==
  IF trained < minimum \/ trained >= Len(driver) THEN Untrained
  ELSE Tested(driver, outcome, trained,
              LaggedAssociation(SubSeq(driver, 1, trained), SubSeq(outcome, 1, trained), 0, minimum))

Paired(pairs, lag, minimum, cutoff, at) ==
  TrainedOn([k \in DOMAIN at |-> pairs[at[k]].driver],
            [k \in DOMAIN at |-> pairs[at[k] + lag].outcome],
            Cardinality({k \in DOMAIN at : at[k] + lag <= cutoff}), minimum)

TrainTest(pairs, lag, minimum, cutoff) ==
  Paired(pairs, lag, minimum, cutoff,
    SelectSeq([i \in 1 .. Len(pairs) - lag |-> i],
              LAMBDA i : pairs[i].driver # NoValue /\ pairs[i + lag].outcome # NoValue))
=============================================================================
