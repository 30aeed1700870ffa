-------------------------------- MODULE Engine --------------------------------
(***************************************************************************)
(* The calculation engine: Execute of internal/engine/executor.go checks a *)
(* request, runs its operation (Dispatch) and answers a receipt or a       *)
(* failure.  The four reverse valuations search for an answer by halving   *)
(* an interval; each iteration is a step.                                  *)
(*                                                                         *)
(* A request is an operation, its inputs x and the set of its flaws.       *)
(***************************************************************************)
EXTENDS Dispatch

VARIABLE bench

MaxIterations == 5  \* the code tries 256 times
Tolerance == <<1, 50>>  \* the code's is 1e-8
Gap == <<1, 8>>  \* what keeps an interval open: 0.01, 1e-10 and 1e-6 in the code

Searches == {"reverse_dcf", "reverse_revenue_growth", "reverse_operating_margin",
             "reverse_reinvestment_rate"}

\* The checks of calculate, in order, and the code each one fails with.
Checks == << [flaw |-> "contract", code |-> "invalid_request"],
             [flaw |-> "unregistered", code |-> "unauthorized_capability"],
             [flaw |-> "role", code |-> "unauthorized_capability"],
             [flaw |-> "version", code |-> "invalid_request"],
             [flaw |-> "assumption", code |-> "invalid_request"],
             [flaw |-> "output", code |-> "invalid_request"],
             [flaw |-> "duplicate", code |-> "invalid_request"],
             [flaw |-> "inputs", code |-> "invalid_request"],
             [flaw |-> "currency", code |-> "currency_mismatch"],
             [flaw |-> "period", code |-> "period_mismatch"],
             [flaw |-> "unit", code |-> "unit_mismatch"],
             [flaw |-> "future", code |-> "invalid_request"] >>
Flaws == {Checks[i].flaw : i \in DOMAIN Checks}

Refusal(flaws) == SelectSeq(Checks, LAMBDA c : c.flaw \in flaws)[1].code

EngineInit == bench = [phase |-> "idle"]

Submit(request) ==
  /\ bench.phase = "idle"
  /\ bench' = [phase |-> "requested", request |-> request]

Reply(outcome) == bench' = [phase |-> "done", request |-> bench.request, result |-> outcome]

Requested == bench.phase = "requested"

Refuse ==
  /\ Requested /\ bench.request.flaws # {}
  /\ Reply(Failed(Refusal(bench.request.flaws)))

Execute ==
  /\ Requested /\ bench.request.flaws = {} /\ bench.request.op \notin Searches
  /\ Reply(Outcome(bench.request.op, bench.request.x))

--------------------------------------------------------------------------------
(* Reverse valuations *)

Searchable(op, x) ==
  /\ Positive(x.target) /\ x.years >= 1
  /\ op = "reverse_revenue_growth" =>
       Positive(x.base) /\ UnitRate(x.tax) /\ UnitRate(x.reinvestment)

Interval(op, x) ==
  CASE op = "reverse_dcf" -> <<Subtract(Gap, One), Subtract(x.rate, Gap)>>
    [] op = "reverse_revenue_growth" -> <<<<-1, 2>>, One>>
    [] op = "reverse_operating_margin" -> <<Zero, <<4, 5>>>>
    [] op = "reverse_reinvestment_rate" -> <<Zero, Subtract(One, Gap)>>

\* The value grows with what is searched, but for the reinvestment rate.
Increasing(op) == op # "reverse_reinvestment_rate"

StartSearch ==
  /\ Requested /\ bench.request.flaws = {} /\ bench.request.op \in Searches
  /\ LET r == bench.request IN
     IF Searchable(r.op, r.x)
     THEN bench' = [phase |-> "searching", request |-> r, iteration |-> 1,
                    low |-> Interval(r.op, r.x)[1], high |-> Interval(r.op, r.x)[2]]
     ELSE Reply(Failed("invalid_request"))

Searching == bench.phase = "searching"
Candidate == Divide(Add(bench.low, bench.high), Whole(2))
CandidateValue == ValueAt(bench.request.op, bench.request.x, Candidate)
Found(value) == AtMost(Absolute(Subtract(value, bench.request.x.target)), Tolerance)

\* The direction of a growing value for every search.
LowerHalfAlways(value) == Compare(value, bench.request.x.target) > 0

\* The half kept: below the candidate when the value is too high and grows with it.
LowerHalf(value) == (Compare(value, bench.request.x.target) > 0) = Increasing(bench.request.op)

SearchEnds(value) ==
  \/ value = NoValue /\ Reply(Failed("invalid_request"))
  \/ value # NoValue /\ Found(value) /\ Reply(Output(Candidate))

SearchNarrows(value) ==
  /\ value # NoValue /\ ~Found(value)
  /\ IF bench.iteration = MaxIterations
     THEN Reply(Failed("non_convergent"))
     ELSE bench' = [bench EXCEPT !.iteration = @ + 1,
                      !.high = IF LowerHalf(value) THEN Candidate ELSE @,
                      !.low = IF LowerHalf(value) THEN @ ELSE Candidate]

Search ==
  /\ Searching
  /\ \E value \in {CandidateValue} : SearchEnds(value) \/ SearchNarrows(value)

EngineNext(requests) ==
  \/ \E r \in requests : Submit(r)
  \/ Refuse
  \/ Execute
  \/ StartSearch
  \/ Search

--------------------------------------------------------------------------------
(* Properties *)

\* A reverse valuation never drops an answer: as long as it searches, every
\* input of its interval that gives exactly the target value still lies in the
\* interval that is left, and the one it answers gives the target within the
\* tolerance.  The four searches move the ends of the interval in directions
\* that depend on how the value changes (reverseFCFFAssumption, ReverseDCF,
\* ReverseRevenueGrowth).
SearchKeepsTheAnswer ==
  /\ Searching =>
       LET r == bench.request
           start == Interval(r.op, r.x)
           points == {p \in {<<k, 8>> : k \in -8 .. 8} :
                        AtMost(start[1], p) /\ AtMost(p, start[2])}
       IN \A p \in points :
            ValueAt(r.op, r.x, Decimal(p[1], p[2])) = r.x.target
              => AtMost(bench.low, p) /\ AtMost(p, bench.high)
  /\ bench.phase = "done" /\ bench.request.op \in Searches /\ bench.result.code = "ok" =>
       LET r == bench.request
       IN AtMost(Absolute(Subtract(ValueAt(r.op, r.x, bench.result.outputs[1]), r.x.target)),
                 Tolerance)

Operations == UNION {Reported, Ratios, Flows, Qualities, Payouts, CashFlows, Bridges, Multiples,
                     Worths, Comparisons, Associations, Markets}
Calculated(ops) ==
  bench.phase = "done" /\ bench.request.op \in ops /\ bench.request.flaws = {}

\* What every operation answers on the same inputs.
Figures(x) == [op \in Operations |-> Outcome(op, x)]
Value(of, op) == of[op].outputs[1]
Valued(of, ops) == \A op \in ops : of[op].code = "ok"

\* The figures of one set of statements agree with each other, whichever formula
\* computed them.  When the totals are the sums of their parts, the two approaches
\* to invested capital reconcile exactly when the balance sheet does; the cash
\* flow to equity is the cash flow to the firm with the borrowing counted as
\* negative reinvestment; growth is the reinvestment over the capital, and implies
\* the return it came from; the payout yields add up; leverage is the incremental
\* margin over the margin; what falls due is ordered by its horizon.
StatementsAgree(x, of) ==
  /\ /\ x.assets = Total(<<x.operating_assets, x.cash, x.non_operating_assets>>)
     /\ x.liabilities = Add(x.operating_liabilities, x.debt)
     => (Valued(of, {"balance_sheet_identity"}) <=> Valued(of, {"invested_capital"}))
  /\ Value(of, "fcfe") =
       FCFFFromNOPAT(x.net_income,
         Reinvestment(Value(of, "net_capex"), x.change_in_working_capital,
                      Negate(x.net_borrowing)))
  /\ Valued(of, {"roic", "reinvestment_rate"}) =>
       LET g == FundamentalGrowth(Value(of, "roic"), Value(of, "reinvestment_rate")) IN
       /\ g = Divide(x.reinvestment, x.average_invested_capital)
       /\ ImpliedReturnOnCapital(g, Value(of, "reinvestment_rate")) \in {NoValue, Value(of, "roic")}
       /\ SustainableEquityGrowth(Value(of, "roic"), Value(of, "reinvestment_rate")) \in {NoValue, g}
  /\ Valued(of, {"net_payout_yield"}) =>
       /\ Value(of, "net_payout_yield") = Add(Value(of, "buyback_yield"), Value(of, "dividend_yield"))
       /\ Value(of, "shareholder_yield") =
            Add(Value(of, "net_payout_yield"),
                Divide(x.net_debt_reduction, x.market_capitalization))
  /\ LET leverage == OperatingLeverage(x.operating_income, x.operating_income_prior,
                                       x.revenue_current, x.revenue_prior)
     IN Valued(of, {"incremental_margin"}) /\ leverage # NoValue =>
          leverage = Divide(Value(of, "incremental_margin"),
                            Margin(x.operating_income_prior, x.revenue_prior))
  /\ LET owed == AnalyzeDebtMaturities([i \in DOMAIN x.forecast |->
                   [year |-> i, amount |-> x.forecast[i]]])
     IN owed.total # NoValue =>
          /\ AtMost(owed.oneYear, owed.threeYears) /\ AtMost(owed.threeYears, owed.total)
          /\ AtMost(owed.nearTermShare, One)
          /\ AtMost(One, owed.weightedYear)
          /\ AtMost(owed.weightedYear, Whole(Len(x.forecast)))
          /\ (owed.weightedYear = One) <=> (owed.oneYear = owed.total)

\* Valuations that describe the same company agree: the two bridges to equity
\* value; the two discounted cash flow models and the exit multiple that stands
\* for the same perpetuity; a scenario, the cell of a grid and the impact in a
\* tornado of the same assumptions; the warnings of the sanity checks and of the
\* model, which the checks refuse to judge just when the forecast and the
\* terminal value differ in sign; unlevering and relevering a beta; a yield
\* and the multiple it is the inverse of.  The cost of capital lies between its
\* parts, and a grid over rising axes is monotone both ways.
ValuationsAgree(x, of) ==
  /\ Valued(of, {"enterprise_to_equity_detailed"}) =>
       Value(of, "enterprise_to_equity_detailed") =
         EnterpriseToEquity(x.enterprise_value, Value(of, "net_debt"),
           Subtract(x.investments, Add(x.minority_interest, x.option_value)),
           x.diluted_shares).equity
  /\ Valued(of, {"multistage_dcf_perpetuity"}) =>
       LET last == Last(x.forecast)
           exit == MultiStageDCF(x.forecast, x.discount_rate,
                     ExitValue(last, Divide(Add(One, x.terminal_growth),
                                            Subtract(x.discount_rate, x.terminal_growth))))
           share == of["multistage_dcf_perpetuity"].outputs[2]
           twice == Multiply(x.discount_rate, Whole(2))
           tornado == DCFTornado(x.forecast, x.discount_rate, x.terminal_growth,
                        "discount_rate", Divide(Add(x.discount_rate, x.terminal_growth), Whole(2)),
                        twice)
           doubled == DCFScenarios(x.forecast,
                        [high |-> [rate |-> twice, growth |-> x.terminal_growth]]).high
           parts == of["fcff_dcf"].outputs
           sanity == ValuationSanityChecks(share, x.terminal_growth,
                       x.terminal_growth, One, One, Zero, One, Zero)
       IN /\ Value(of, "multistage_dcf_perpetuity") = Value(of, "fcff_dcf")
          /\ exit.enterprise \in {NoValue, Value(of, "fcff_dcf")}
          /\ tornado.highImpact # NoValue =>
               Add(Value(of, "fcff_dcf"), tornado.highImpact) = doubled.enterprise
          /\ (\A i \in DOMAIN x.forecast : Positive(x.forecast[i])) /\ tornado.lowImpact # NoValue =>
               Positive(tornado.lowImpact) /\ Negative(tornado.highImpact)
          /\ sanity.valid = ~Negative(Multiply(parts[2], parts[3]))
          /\ sanity.valid =>
               /\ sanity.warnings \subseteq {"terminal_share"}
               /\ (sanity.warnings # {}) = MultiStageDCF(x.forecast, x.discount_rate,
                    PerpetuityValue(last, x.discount_rate, x.terminal_growth)).warned
  /\ Valued(of, {"unlever_beta"}) =>
       ReleverBeta(Value(of, "unlever_beta"), x.debt, x.equity, x.tax_rate) = x.beta
  /\ Valued(of, {"price_to_earnings", "earnings_yield"}) =>
       /\ Multiply(Value(of, "price_to_earnings"), Value(of, "earnings_yield")) = One
       /\ \A level \in {"equity", "enterprise"} :
            TypedMultiple("price_to_earnings", level, x.market_capitalization, x.net_income)
              = Checked(level = "equity", Value(of, "price_to_earnings"))
  /\ Valued(of, {"wacc"}) /\ x.tax_rate = Zero =>
       LET w == Value(of, "wacc")
       IN \/ AtMost(x.cost_of_equity, w) /\ AtMost(w, x.cost_of_debt)
          \/ AtMost(x.cost_of_debt, w) /\ AtMost(w, x.cost_of_equity)
  /\ Valued(of, {"sensitivity_matrix"}) /\ (\A i \in DOMAIN x.forecast : Positive(x.forecast[i])) =>
       LET flags == of["sensitivity_matrix"].outputs
       IN flags[3] = One /\ flags[4] = One

AllFormulasAgree(x, of) == StatementsAgree(x, of) /\ ValuationsAgree(x, of)

\* Of a request for a formula.
FormulasAgree ==
  Calculated(UNION {Reported, Ratios, Flows, Qualities, Payouts, CashFlows, Bridges, Multiples, Worths}) =>
    AllFormulasAgree(bench.request.x, Figures(bench.request.x))

\* What SamplesAgree says of one request.
SampleFiguresAgree(x, of) ==
  /\ Valued(of, {"beta", "lagged_association"}) /\ x.lag = 0 =>
       LET fit == of["lagged_association"].outputs[3] IN
       /\ Value(of, "beta") = Value(of, "lagged_association")
       /\ AtMost(fit, One)
       /\ RollingCorrelation(x.xs, x.ys, Len(x.xs)) = <<fit>>
  /\ Valued(of, {"drawdown"}) =>
       LET falls == {Subtract(Divide(x.xs[p[2]], x.xs[p[1]]), One) :
                       p \in {q \in (DOMAIN x.xs) \X (DOMAIN x.xs) : q[1] <= q[2]}}
           growth == [i \in DOMAIN Returns(x.xs) |-> Add(One, Returns(x.xs)[i])]
       IN /\ Value(of, "drawdown") \in falls
          /\ \A f \in falls : AtMost(Value(of, "drawdown"), f)
          /\ FoldLeft(Multiply, x.xs[1], growth) = Last(x.xs)
  /\ Len(x.xs) >= 5 =>
       LET band == HistoricalBand(x.xs, x.subject)
           marks == <<band.minimum>> \o band.quartile \o <<band.maximum>>
       IN /\ \A i \in 1 .. 4 : AtMost(marks[i], marks[i + 1])
          /\ <<band.quartile[2], band.percentile>> =
               SubSeq(of["peer_statistics"].outputs, 1, 2)
          /\ (StabilitySquared(x.xs) = Zero) = (band.minimum = band.maximum)
  /\ LET kept == GovernPeerCohort(x.cohort, 3, 5, Zero)
         trimmed == GovernPeerCohort(x.cohort, 3, 5, <<1, 4>>)
         once(o) == Cardinality({i \in DOMAIN x.cohort : x.cohort[i].company = o.company}) = 1
     IN /\ kept = GovernPeerCohort(Reverse(x.cohort), 3, 5, Zero)
        /\ kept = GovernPeerCohort(SelectSeq(x.cohort, once), 3, 5, Zero)
        /\ trimmed = GovernPeerCohort(Reverse(x.cohort), 3, 5, <<1, 4>>)
        /\ Len(trimmed) = Len(kept)
        /\ ToSet(trimmed) \subseteq ToSet(kept)
        /\ \A i, j \in DOMAIN kept : AtMost(kept[i], kept[j]) => AtMost(trimmed[i], trimmed[j])
  /\ Len(x.xs) = Len(x.ys) /\ Len(x.xs) >= 5 =>
       LET pairs == [i \in DOMAIN x.xs |-> [driver |-> x.xs[i], outcome |-> x.ys[i]]]
           later == [pairs EXCEPT ![Len(pairs)].outcome = Add(@, One)]
           cutoff == Len(pairs) - 1
       IN TrainTest(pairs, x.lag, 3, cutoff).slope = TrainTest(later, x.lag, 3, cutoff).slope
\* The statistics of one sample agree: a beta is the slope of the association
\* with the benchmark, whose fit is the correlation over the whole window; the
\* maximum drawdown is the worst fall from any earlier value; returns compound to
\* the ratio of the last price to the first; the quartiles are in order around
\* the median the peers are given; a cohort does not depend on the order of its
\* observations, nor on those of a company that is reported more than once; its
\* winsorised values are some of its values, as many and in the same order; what
\* follows the training window of an association does not change its slope.
SamplesAgree ==
  Calculated(Markets) =>
  SampleFiguresAgree(bench.request.x, Figures(bench.request.x))

\* The figures of every request the engine has calculated agree with each other, formulas
\* and statistics alike (dispatch).
FiguresAgree == FormulasAgree /\ SamplesAgree
=============================================================================
