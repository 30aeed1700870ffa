------------------------------- MODULE Dispatch -------------------------------
(***************************************************************************)
(* dispatch of internal/engine/dispatch.go: what each registered operation *)
(* computes from its named inputs x.  An outcome is a code and the outputs *)
(* of the receipt.                                                         *)
(***************************************************************************)
EXTENDS Valuations, Samples

Cent == <<1, 100>>

Failed(code) == [code |-> code, outputs |-> << >>]
Success(values) ==
  IF \E i \in DOMAIN values : values[i] = NoValue THEN Failed("invalid_request")
  ELSE [code |-> "ok", outputs |-> values]
Output(value) == Success(<<value>>)

\* An operation whose figures must reconcile fails with the invariant it checks.
Reconciled(holds, values) ==
  LET outcome == Success(values)
  IN IF outcome.code = "ok" /\ ~holds THEN Failed("invariant_failed") ELSE outcome

ReportedOutcome(op, x) ==
  CASE op = "balance_sheet_identity" ->
         LET r == BalanceSheetIdentity(x.assets, x.liabilities, x.equity, Cent)
         IN Reconciled(r.within, <<r.difference>>)
    [] op = "revenue_growth" -> Output(Growth(x.revenue_current, x.revenue_prior))
    [] op = "margin" -> Output(Margin(x.numerator, x.revenue))
    [] op = "free_cash_flow" -> Output(FreeCashFlow(x.operating_cash_flow, x.capital_expenditure))
    [] op = "cash_conversion" -> Output(Divide(x.operating_cash_flow, x.net_income))
    [] op = "capex_intensity" -> Output(Margin(x.capital_expenditure, x.revenue))
    [] op = "net_debt" -> Output(NetDebt(x.debt, x.cash))
    [] op = "dilution" -> Output(Dilution(x.shares_current, x.shares_prior))

RatioOutcome(op, x) ==
  CASE op = "roic_proxy" -> Output(Divide(x.nopat, x.invested_capital))
    [] op = "current_ratio" -> Output(Divide(x.current_assets, x.current_liabilities))
    [] op = "debt_to_equity" -> Output(Divide(x.debt, x.equity))
    [] op = "earnings_per_share" -> Output(Divide(x.net_income, x.diluted_shares))
    [] op = "quality_of_earnings" ->
         LET r == QualityOfEarnings(x.operating_cash_flow, x.net_income)
         IN Success(<<r.gap, r.conversion>>)
    [] op = "nopat" -> Output(NOPAT(x.operating_income, x.tax_rate))
    [] op = "invested_capital" ->
         LET r == InvestedCapital(x.operating_assets, x.operating_liabilities,
                                  x.debt, x.equity, x.cash, x.non_operating_assets)
         IN Reconciled(AtMost(Absolute(r.difference), Cent),
                       <<r.operating, r.financing, r.difference>>)
    [] op = "average_invested_capital" ->
         Output(AverageInvestedCapital(x.invested_capital_beginning, x.invested_capital))
    [] op = "operating_working_capital" ->
         Output(OperatingWorkingCapital(x.accounts_receivable, x.inventory, x.other_assets,
                                        x.accounts_payable, x.other_liabilities))

FlowOutcome(op, x) ==
  CASE op = "change_in_working_capital" ->
         Output(ChangeInWorkingCapital(x.working_capital, x.working_capital_beginning))
    [] op = "net_capex" -> Output(NetCapitalExpenditure(x.capital_expenditure, x.depreciation))
    [] op = "reinvestment" ->
         Output(Reinvestment(x.net_capex, x.change_in_working_capital, x.acquisitions))
    [] op = "fcff_from_nopat" -> Output(FCFFFromNOPAT(x.nopat, x.reinvestment))
    [] op = "fcfe" -> Output(FCFE(x.net_income, x.capital_expenditure, x.depreciation,
                                  x.change_in_working_capital, x.net_borrowing))
    [] op = "roic" -> Output(ROIC(x.nopat, x.average_invested_capital))
    [] op = "incremental_roic" ->
         Output(IncrementalROIC(x.change_in_nopat, x.change_in_invested_capital))
    [] op = "roce" -> Output(ROCE(x.ebit, x.total_assets, x.current_liabilities))
    [] op = "value_creation_spread" -> Output(ValueCreationSpread(x.roic, x.wacc))

QualityOutcome(op, x) ==
  CASE op = "reinvestment_rate" -> Output(ReinvestmentRate(x.reinvestment, x.nopat))
    [] op = "fundamental_growth" -> Output(FundamentalGrowth(x.return_on_capital, x.reinvestment_rate))
    [] op = "operating_margin" -> Output(ProfitMargin(x.operating_income, x.revenue))
    [] op = "incremental_margin" ->
         Output(IncrementalMargin(x.operating_income, x.operating_income_prior,
                                  x.revenue_current, x.revenue_prior))
    [] op = "accrual_intensity" ->
         Output(AccrualIntensity(x.net_income, x.operating_cash_flow, x.average_assets))
    [] op = "cash_conversion_cycle" -> Output(CashConversionCycle(x.dso, x.dio, x.dpo))
    [] op = "quick_ratio" ->
         Output(QuickRatio(x.cash, x.securities, x.accounts_receivable, x.current_liabilities))
    [] op = "cash_ratio" -> Output(CashRatio(x.cash, x.securities, x.current_liabilities))
    [] op = "interest_coverage" -> Output(OverPositive(x.ebit, x.interest_expense))
    [] op = "net_debt_to_ebitda" -> Output(NetDebtToEBITDA(x.net_debt, x.ebitda))
    [] op \in {"cash_conversion_ebitda", "cash_conversion_operating_profit"} ->
         Output(TypedCashConversion(x.operating_cash_flow,
                  IF op = "cash_conversion_ebitda" THEN x.ebitda ELSE x.operating_income))

PayoutOutcome(op, x) ==
  CASE op = "buyback_yield" -> Output(BuybackYield(x.net_repurchases, x.market_capitalization))
    [] op = "dividend_yield" -> Output(DividendYield(x.dividends_paid, x.market_capitalization))
    [] op = "net_payout_yield" ->
         Output(NetPayoutYield(x.net_repurchases, x.dividends_paid, x.market_capitalization))
    [] op = "shareholder_yield" ->
         Output(ShareholderYield(x.net_repurchases, x.dividends_paid, x.net_debt_reduction,
                                 x.market_capitalization))
    [] op = "capital_allocation_bridge" ->
         LET r == CapitalAllocationBridge(
                    <<x.operating_cash_flow, x.debt_issuance, x.equity_issuance, x.asset_sales>>,
                    <<x.capital_expenditure, x.acquisitions, x.debt_repayment,
                      x.dividends_paid, x.net_repurchases>>,
                    x.change_in_cash, Cent)
         IN Reconciled(r.within, <<r.implied, r.gap>>)
    [] op = "capm" -> Output(CAPM(x.risk_free_rate, x.beta, x.premium))
    [] op = "unlever_beta" -> Output(UnleverBeta(x.beta, x.debt, x.equity, x.tax_rate))
    [] op = "relever_beta" -> Output(ReleverBeta(x.beta, x.debt, x.equity, x.tax_rate))

StagedOutcome(r) == Success(<<r.enterprise, r.share>>)

CashFlowOutcome(op, x) ==
  CASE op = "multistage_dcf_perpetuity" ->
         StagedOutcome(PerpetuityDCF(x.forecast, x.discount_rate, x.terminal_growth))
    [] op = "multistage_dcf_exit" ->
         StagedOutcome(MultiStageDCF(x.forecast, x.discount_rate,
                                     ExitValue(x.exit_metric, x.exit_multiple)))
    [] op = "dividend_discount" ->
         StagedOutcome(DividendDiscountModel(x.forecast, x.discount_rate, x.terminal_growth))

BridgeOutcome(op, x) ==
  CASE op = "implied_roic" ->
         Output(ImpliedReturnOnCapital(x.growth_rate, x.reinvestment_rate))
    [] op = "enterprise_to_equity_detailed" ->
         LET r == DetailedEnterpriseToEquity(x.enterprise_value, x.debt, x.cash, x.investments,
                    x.minority_interest, x.option_value, x.diluted_shares)
         IN Success(<<r.equity, r.perShare>>)

MultipleOutcome(op, x) ==
  CASE op = "ev_to_ebitda" -> Output(PriceMultiple(x.enterprise_value, x.ebitda))
    [] op = "ev_to_revenue" -> Output(PriceMultiple(x.enterprise_value, x.revenue))
    [] op = "ev_to_ebit" -> Output(PriceMultiple(x.enterprise_value, x.ebit))
    [] op = "price_to_earnings" -> Output(PriceMultiple(x.market_capitalization, x.net_income))
    [] op = "price_to_book" -> Output(PriceMultiple(x.market_capitalization, x.equity))
    [] op = "price_to_fcf" -> Output(PriceMultiple(x.market_capitalization, x.fcfe))
    [] op = "fcf_yield" -> Output(MarketYield(x.fcfe, x.market_capitalization))
    [] op = "earnings_yield" -> Output(MarketYield(x.net_income, x.market_capitalization))
    [] op = "dupont" ->
         Output(DuPont(x.net_income, x.revenue, x.average_assets, x.equity))

ValuationOutcome(op, x) ==
  CASE op = "fcff_dcf" ->
         LET r == FCFFDCF(x.forecast, x.discount_rate, x.terminal_growth)
         IN Success(<<r.enterprise, r.explicit, r.terminal>>)
    [] op = "enterprise_to_equity" ->
         LET r == EnterpriseToEquity(x.enterprise_value, x.net_debt, x.non_operating_assets,
                                     x.diluted_shares)
         IN Success(<<r.equity, r.perShare>>)
    [] op = "peer_multiple" -> Output(PeerMultiple(x.market_capitalization, x.net_income))
    [] op = "wacc" -> Output(WACC(x.equity, x.debt, x.cost_of_equity, x.cost_of_debt, x.tax_rate))
    [] op = "real_rate" -> Output(RealRate(x.nominal_rate, x.inflation))
    [] op = "yield_curve" -> Output(YieldCurveSpread(x.long_yield, x.short_yield))

GridOutcome(x, r) ==
  IF r.ok THEN Success(<<Whole(Len(x.discount_rates)), Whole(Len(x.growth_rates)),
                         Whole(IF r.fallsWithRate THEN 1 ELSE 0),
                         Whole(IF r.growsWithGrowth THEN 1 ELSE 0)>>)
  ELSE Failed("invalid_request")

ComparisonOutcome(op, x) ==
  CASE op = "sensitivity_matrix" ->
         GridOutcome(x, DCFGrid(x.forecast, x.discount_rates, x.growth_rates))
    [] op = "period_aligned" ->
         IF \A i \in DOMAIN x.fiscal_periods : x.fiscal_periods[i] = x.fiscal_periods[1] THEN Output(One)
         ELSE Failed("incomparable_inputs")

PeerOutcome(r) == Success(<<r.median, r.percentile, r.mad>>)
LagOutcome(r) == Success(<<r.slope, r.intercept, r.fit>>)

AssociationOutcome(op, x) ==
  CASE op = "peer_statistics" ->
         PeerOutcome(PeerStatistics(x.xs, x.subject, 3))
    [] op = "lagged_association" ->
         LagOutcome(LaggedAssociation(x.xs, x.ys, x.lag, 3))

MarketOutcome(op, x) ==
  CASE op = "total_return" -> Output(TotalReturn(x.xs[1], Last(x.xs), x.distributions))
    [] op = "volatility" -> Output(VolatilitySquared(x.xs, x.periods, 1))
    [] op = "drawdown" ->
         LET r == Drawdown(x.xs) IN Success(<<r.maximum>> \o r.series)
    [] op = "beta" -> Output(Beta(x.ys, x.xs, 1))
    [] op = "rolling_correlation" ->
         IF Len(x.xs) # Len(x.ys) \/ x.lag + 2 > Len(x.xs) THEN Failed("invalid_request")
         ELSE Success(RollingCorrelation(x.xs, x.ys, x.lag + 2))

Reported == {"balance_sheet_identity", "revenue_growth", "margin", "free_cash_flow",
             "cash_conversion", "capex_intensity", "net_debt", "dilution"}
Ratios == {"roic_proxy", "current_ratio", "debt_to_equity", "earnings_per_share",
           "quality_of_earnings", "nopat", "invested_capital", "average_invested_capital",
           "operating_working_capital"}
Flows == {"change_in_working_capital", "net_capex", "reinvestment", "fcff_from_nopat", "fcfe",
          "roic", "incremental_roic", "roce", "value_creation_spread"}
Qualities == {"reinvestment_rate", "fundamental_growth", "operating_margin",
              "incremental_margin", "accrual_intensity", "cash_conversion_cycle", "quick_ratio",
              "cash_ratio", "interest_coverage", "net_debt_to_ebitda", "cash_conversion_ebitda",
              "cash_conversion_operating_profit"}
Payouts == {"buyback_yield", "dividend_yield", "net_payout_yield", "shareholder_yield",
            "capital_allocation_bridge", "capm", "unlever_beta", "relever_beta"}
CashFlows == {"multistage_dcf_perpetuity", "multistage_dcf_exit", "dividend_discount"}
Bridges == {"implied_roic", "enterprise_to_equity_detailed"}
Multiples == {"ev_to_ebitda", "ev_to_revenue", "ev_to_ebit", "price_to_earnings",
              "price_to_book", "price_to_fcf", "fcf_yield", "earnings_yield", "dupont"}
Worths == {"fcff_dcf", "enterprise_to_equity", "peer_multiple", "wacc", "real_rate",
           "yield_curve"}
Comparisons == {"sensitivity_matrix", "period_aligned"}
Associations == {"peer_statistics", "lagged_association"}
Markets == {"total_return", "volatility", "drawdown", "beta", "rolling_correlation"}

Outcome(op, x) ==
  CASE op \in Reported -> ReportedOutcome(op, x)
    [] op \in Ratios -> RatioOutcome(op, x)
    [] op \in Flows -> FlowOutcome(op, x)
    [] op \in Qualities -> QualityOutcome(op, x)
    [] op \in Payouts -> PayoutOutcome(op, x)
    [] op \in CashFlows -> CashFlowOutcome(op, x)
    [] op \in Bridges -> BridgeOutcome(op, x)
    [] op \in Multiples -> MultipleOutcome(op, x)
    [] op \in Worths -> ValuationOutcome(op, x)
    [] op \in Comparisons -> ComparisonOutcome(op, x)
    [] op \in Associations -> AssociationOutcome(op, x)
    [] op \in Markets -> MarketOutcome(op, x)
=============================================================================
