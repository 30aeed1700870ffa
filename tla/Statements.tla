------------------------------ MODULE Statements ------------------------------
(***************************************************************************)
(* The formulas over reported figures: internal/finance/formulas.go,       *)
(* returns.go, quality.go and financial_complete.go.  A formula returns a  *)
(* number, NoValue for an error, or a record of numbers.                   *)
(***************************************************************************)
EXTENDS Decimals

Growth(current, prior) == Divide(Subtract(current, prior), prior)
Margin(numerator, revenue) == Divide(numerator, revenue)
FreeCashFlow(operatingCashFlow, capex) == Subtract(operatingCashFlow, capex)
NetDebt(debt, cash) == Subtract(debt, cash)
Dilution(currentShares, priorShares) == Growth(currentShares, priorShares)

BalanceSheetIdentity(assets, liabilities, equity, tolerance) ==
  LET difference == Subtract(assets, Add(liabilities, equity))
  IN [difference |-> difference,
      within |-> AtMost(Absolute(difference), tolerance)]

QualityOfEarnings(operatingCashFlow, netIncome) ==
  [gap |-> Checked(netIncome # Zero, Subtract(operatingCashFlow, netIncome)),
   conversion |-> Divide(operatingCashFlow, netIncome)]

--------------------------------------------------------------------------------
(* Capital and returns *)

NOPAT(operatingIncome, taxRate) ==
  Checked(UnitRate(taxRate), Multiply(operatingIncome, Subtract(One, taxRate)))

InvestedCapital(operatingAssets, operatingLiabilities, debt, equity, cash, nonOperating) ==
  LET operating == Subtract(operatingAssets, operatingLiabilities)
      financing == Subtract(Subtract(Add(debt, equity), cash), nonOperating)
  IN [operating |-> operating, financing |-> financing,
      difference |-> Subtract(operating, financing)]

AverageInvestedCapital(beginning, ending) ==
  Checked(Positive(beginning) /\ Positive(ending),
          Divide(Add(beginning, ending), Whole(2)))

OperatingWorkingCapital(receivables, inventory, otherAssets, payables, otherLiabilities) ==
  Subtract(Add(Add(receivables, inventory), otherAssets),
           Add(payables, otherLiabilities))

ChangeInWorkingCapital(ending, beginning) == Subtract(ending, beginning)
NetCapitalExpenditure(capex, depreciation) == Subtract(capex, depreciation)
Reinvestment(netCapex, workingCapital, acquisitions) ==
  Add(Add(netCapex, workingCapital), acquisitions)
FCFFFromNOPAT(nopat, reinvestment) == Subtract(nopat, reinvestment)

FCFE(netIncome, capex, depreciation, workingCapital, netBorrowing) ==
  Add(Subtract(Subtract(netIncome, NetCapitalExpenditure(capex, depreciation)),
               workingCapital),
      netBorrowing)

ROIC(nopat, capital) == OverPositive(nopat, capital)
IncrementalROIC(nopatChange, capitalChange) == OverPositive(nopatChange, capitalChange)
ROCE(ebit, assets, currentLiabilities) ==
  OverPositive(ebit, Subtract(assets, currentLiabilities))
ValueCreationSpread(roic, wacc) == Subtract(roic, wacc)
ReinvestmentRate(reinvestment, nopat) == OverPositive(reinvestment, nopat)
FundamentalGrowth(returnOnCapital, rate) == Multiply(returnOnCapital, rate)
SustainableEquityGrowth(returnOnEquity, retention) ==
  Checked(UnitRate(retention), Multiply(returnOnEquity, retention))
ImpliedReturnOnCapital(growth, rate) ==
  Checked(UnitRate(rate) /\ rate # Zero, Divide(growth, rate))

--------------------------------------------------------------------------------
(* Margins, liquidity and payout *)

ProfitMargin(numerator, revenue) == OverPositive(numerator, revenue)
IncrementalMargin(profit, priorProfit, revenue, priorRevenue) ==
  OverPositive(Subtract(profit, priorProfit), Subtract(revenue, priorRevenue))
OperatingLeverage(income, priorIncome, revenue, priorRevenue) ==
  Divide(Growth(income, priorIncome), Growth(revenue, priorRevenue))
AccrualIntensity(netIncome, operatingCashFlow, averageAssets) ==
  OverPositive(Subtract(netIncome, operatingCashFlow), averageAssets)

CashConversionCycle(dso, dio, dpo) == Subtract(Add(dso, dio), dpo)

QuickRatio(cash, securities, receivables, currentLiabilities) ==
  OverPositive(Add(Add(cash, securities), receivables), currentLiabilities)
CashRatio(cash, securities, currentLiabilities) ==
  OverPositive(Add(cash, securities), currentLiabilities)
NetDebtToEBITDA(netDebt, ebitda) == OverPositive(netDebt, ebitda)
TypedCashConversion(operatingCashFlow, denominator) ==
  OverPositive(operatingCashFlow, denominator)

BuybackYield(netRepurchases, marketCap) == OverPositive(netRepurchases, marketCap)
DividendYield(dividends, marketCap) == OverPositive(dividends, marketCap)
\* The buybacks alone, the dividends forgotten.
PayoutOfBuybacks(netRepurchases, dividends, marketCap) ==
  OverPositive(netRepurchases, marketCap)
NetPayoutYield(netRepurchases, dividends, marketCap) ==
  OverPositive(Add(netRepurchases, dividends), marketCap)
ShareholderYield(netRepurchases, dividends, debtReduction, marketCap) ==
  OverPositive(Add(Add(netRepurchases, dividends), debtReduction), marketCap)

CapitalAllocationBridge(sources, uses, reportedChange, tolerance) ==
  LET implied == Subtract(Total(sources), Total(uses))
      gap == Subtract(implied, reportedChange)
  IN [implied |-> Checked(~Negative(tolerance), implied),
      gap |-> Checked(~Negative(tolerance), gap),
      within |-> AtMost(Absolute(gap), tolerance)]

\* Maturities are pairs [year |-> .., amount |-> ..], years counted from the as-of year.
AnalyzeDebtMaturities(maturities) ==
  LET due(horizon) == Total([i \in DOMAIN maturities |->
                        IF maturities[i].year <= horizon THEN maturities[i].amount ELSE Zero])
      total == Total([i \in DOMAIN maturities |-> maturities[i].amount])
      weighted == Total([i \in DOMAIN maturities |->
                     Multiply(maturities[i].amount, Whole(maturities[i].year))])
      valid == /\ \A i \in DOMAIN maturities :
                    maturities[i].year >= 0 /\ ~Negative(maturities[i].amount)
               /\ \A i, j \in DOMAIN maturities :
                    i # j => maturities[i].year # maturities[j].year
               /\ Positive(total)
  IN [total |-> Checked(valid, total), oneYear |-> Checked(valid, due(1)),
      threeYears |-> Checked(valid, due(3)),
      nearTermShare |-> Checked(valid, Divide(due(3), total)),
      weightedYear |-> Checked(valid, Divide(weighted, total))]
=============================================================================
