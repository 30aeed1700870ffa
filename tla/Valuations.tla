------------------------------ MODULE Valuations ------------------------------
(***************************************************************************)
(* The valuation formulas of internal/finance: discounted cash flows, the  *)
(* bridges from enterprise to equity value, betas, multiples, and the      *)
(* value a reverse search compares with its target.  Mid-year discounting  *)
(* (a power with a fractional exponent) is left out.                       *)
(***************************************************************************)
EXTENDS Statements

CAPM(riskFree, beta, premium) == Add(riskFree, Multiply(beta, premium))

WACC(equity, debt, costOfEquity, costOfDebt, taxRate) ==
  LET capital == Add(equity, debt)
      debtPart == Multiply(Multiply(Divide(debt, capital), costOfDebt),
                           Subtract(One, taxRate))
  IN Checked(~Negative(equity) /\ ~Negative(debt) /\ UnitRate(taxRate),
             Add(Multiply(Divide(equity, capital), costOfEquity), debtPart))

RealRate(nominal, inflation) ==
  Subtract(Divide(Add(One, nominal), Add(One, inflation)), One)
YieldCurveSpread(longYield, shortYield) == Subtract(longYield, shortYield)

\* The factor both betas use: one plus the after-tax debt to equity ratio.
Leverage(debt, equity, taxRate) ==
  Checked(Positive(equity) /\ UnitRate(taxRate),
          Add(One, Multiply(Subtract(One, taxRate), Divide(debt, equity))))
UnleverBeta(beta, debt, equity, taxRate) ==
  Divide(beta, Leverage(debt, equity, taxRate))
ReleverBeta(beta, debt, equity, taxRate) ==
  Multiply(beta, Leverage(debt, equity, taxRate))

PeerMultiple(market, metric) == Divide(market, metric)
PriceMultiple(marketValue, denominator) == OverPositive(marketValue, denominator)
MarketYield(flow, marketValue) == OverPositive(flow, marketValue)

Levels == [price_to_earnings |-> "equity", price_to_book |-> "equity",
           price_to_fcfe |-> "equity", ev_to_revenue |-> "enterprise",
           ev_to_ebitda |-> "enterprise", ev_to_ebit |-> "enterprise"]
TypedMultiple(kind, level, numerator, denominator) ==
  Checked(Levels[kind] = level, OverPositive(numerator, denominator))

EnterpriseToEquity(enterprise, netDebt, nonOperating, shares) ==
  LET equity == Add(Subtract(enterprise, netDebt), nonOperating)
  IN [equity |-> Checked(shares # Zero, equity), perShare |-> Divide(equity, shares)]

\* The minority interest counted as an asset.
EquityWithMinority(enterprise, debt, cash, investments, minority, options, shares) ==
  LET equity == Subtract(Add(Add(Add(Subtract(enterprise, debt), cash), investments),
                             minority), options)
  IN [equity |-> Checked(Positive(shares), equity),
      perShare |-> Checked(Positive(shares), Divide(equity, shares))]

DetailedEnterpriseToEquity(enterprise, debt, cash, investments, minority, options, shares) ==
  LET equity == Subtract(Subtract(Add(Add(Subtract(enterprise, debt), cash), investments),
                                  minority), options)
      valid == /\ \A p \in {debt, cash, investments, minority, options} : ~Negative(p)
               /\ Positive(shares)
  IN [equity |-> Checked(valid, equity), perShare |-> Checked(valid, Divide(equity, shares))]

--------------------------------------------------------------------------------
(* Discounted cash flows *)

PresentValues(flows, rate) ==
  [i \in DOMAIN flows |-> Divide(flows[i], Power(Add(One, rate), i))]

PerpetuityValue(lastFlow, rate, growth) ==
  Checked(Below(growth, rate),
          Divide(Multiply(lastFlow, Add(One, growth)), Subtract(rate, growth)))

ExitValue(metric, multiple) ==
  Checked(~Negative(metric) /\ Positive(multiple), Multiply(metric, multiple))

\* The sum both models end with; a rate of -1 or less is refused.
DiscountedParts(valid, explicit, present) ==
  [explicit |-> Checked(valid, explicit), terminal |-> Checked(valid, present),
   enterprise |-> Checked(valid, Add(explicit, present))]
Discounted(flows, rate, terminal) ==
  DiscountedParts(flows # << >> /\ Below(Whole(-1), rate),
                  Total(PresentValues(flows, rate)),
                  Divide(terminal, Power(Add(One, rate), Len(flows))))

FCFFDCF(flows, rate, growth) ==
  Discounted(flows, rate, PerpetuityValue(Last(flows), rate, growth))

\* A valuation of zero is an error here, and not in FCFFDCF.
TerminalShare(enterprise, share) ==
  [enterprise |-> Checked(share # NoValue, enterprise), share |-> share,
   warned |-> share # NoValue /\ Below(<<3, 4>>, share)]
Staged(value) == TerminalShare(value.enterprise, Divide(value.terminal, value.enterprise))
MultiStageDCF(flows, rate, terminal) == Staged(Discounted(flows, rate, terminal))

PerpetuityDCF(flows, rate, growth) ==
  MultiStageDCF(flows, rate, PerpetuityValue(Last(flows), rate, growth))

DividendDiscountModel(dividends, costOfEquity, growth) ==
  PerpetuityDCF(dividends, costOfEquity, growth)

\* A share or a reinvestment outside of the unit interval is an error, not a warning.
ValuationSanityChecks(share, growth, economy, margin, history, reinvestment, returns, rate) ==
  LET gap(p, q) == Absolute(Subtract(p, q))
  IN [valid |-> UnitRate(share) /\ UnitRate(reinvestment),
      warnings |-> {w \in {"terminal_share", "economy", "margin", "growth"} :
        \/ w = "terminal_share" /\ Below(<<3, 4>>, share)
        \/ w = "economy" /\ Below(economy, growth)
        \/ w = "margin" /\ Below(<<1, 10>>, gap(margin, history))
        \/ w = "growth" /\ Below(<<1, 50>>, gap(Multiply(reinvestment, returns), rate))}]

\* DCFGrid: a row for each rate and a column for each growth, with the two flags.
GridOf(cell) ==
  [ok |-> \A c \in DOMAIN cell : cell[c] # NoValue,
   fallsWithRate |-> \A c \in DOMAIN cell : c[1] > 1 => Below(cell[c], cell[c[1] - 1, c[2]]),
   growsWithGrowth |-> \A c \in DOMAIN cell : c[2] > 1 => Below(cell[c[1], c[2] - 1], cell[c])]
DCFGrid(flows, rates, growths) ==
  GridOf([i \in DOMAIN rates, j \in DOMAIN growths |->
            FCFFDCF(flows, rates[i], growths[j]).enterprise])

\* DCFTornado: what the low and the high value of one input do to the base value.
Impacts(ordered, value) ==
  [lowImpact |-> Checked(ordered, Subtract(value[1], value[2])),
   highImpact |-> Checked(ordered, Subtract(value[3], value[2]))]
TornadoOver(flows, rates, growths, points) ==
  Impacts(Below(points[1], points[2]) /\ Below(points[2], points[3]),
          [i \in 1 .. 3 |-> PerpetuityDCF(flows, rates[i], growths[i]).enterprise])
DCFTornado(flows, rate, growth, input, low, high) ==
  IF input = "discount_rate"
  THEN TornadoOver(flows, <<low, rate, high>>, <<growth, growth, growth>>, <<low, rate, high>>)
  ELSE TornadoOver(flows, <<rate, rate, rate>>, <<low, growth, high>>, <<low, growth, high>>)

DCFScenarios(flows, scenarios) ==
  [s \in DOMAIN scenarios |-> PerpetuityDCF(flows, scenarios[s].rate, scenarios[s].growth)]

--------------------------------------------------------------------------------
(* Reverse expectations *)

FCFFFromRevenuePath(revenue, growth, margin, taxRate, reinvestment, years) ==
  LET factor == Multiply(Multiply(margin, Subtract(One, taxRate)),
                         Subtract(One, reinvestment))
  IN [i \in 1 .. years |-> Multiply(Multiply(revenue, Power(Add(One, growth), i)), factor)]

RevenuePathValue(b, growth, margin, reinvestment) ==
  PerpetuityDCF(FCFFFromRevenuePath(b.base, growth, margin, b.tax, reinvestment, b.years),
                b.rate, b.growth).enterprise

\* The value a search of kind k gives a candidate x, for the inputs b.
ValueAt(k, b, x) ==
  IF k = "reverse_dcf" THEN FCFFDCF([i \in 1 .. b.years |-> b.base], b.rate, x).enterprise
  ELSE RevenuePathValue(b, IF k = "reverse_revenue_growth" THEN x ELSE b.revenueGrowth,
                           IF k = "reverse_operating_margin" THEN x ELSE b.margin,
                           IF k = "reverse_reinvestment_rate" THEN x ELSE b.reinvestment)
=============================================================================
