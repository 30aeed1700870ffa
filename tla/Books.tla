-------------------------------- MODULE Books ---------------------------------
(***************************************************************************)
(* The requests the engine is checked on.  Every book has every input; a   *)
(* group varies the inputs its operations relate and leaves the others at  *)
(* the values of Plain.  All of them are bounds of the model.              *)
(***************************************************************************)
EXTENDS Engine

W(s) == {Whole(n) : n \in s}
Series(ns) == [i \in DOMAIN ns |-> Whole(ns[i])]

PlainFigures ==
  {"accounts_payable", "accounts_receivable", "acquisitions", "asset_sales",
   "average_assets", "average_invested_capital", "beta", "capital_expenditure", "change_in_cash",
   "change_in_invested_capital", "change_in_nopat", "change_in_working_capital", "cost_of_debt",
   "cost_of_equity", "current_assets", "current_liabilities", "debt_issuance", "debt_repayment",
   "depreciation", "diluted_shares", "dio", "distributions", "dividends_paid", "dpo", "dso",
   "ebit", "ebitda", "enterprise_value", "equity_issuance", "exit_metric", "exit_multiple",
   "fcfe", "growth_rate", "inflation", "interest_expense", "inventory", "invested_capital",
   "invested_capital_beginning", "investments", "long_yield", "market_capitalization",
   "minority_interest", "net_borrowing", "net_capex", "net_debt", "net_debt_reduction",
   "net_income", "net_repurchases", "nominal_rate", "nopat", "numerator", "operating_cash_flow",
   "operating_income", "operating_income_prior", "option_value", "other_assets",
   "other_liabilities", "periods", "premium", "reinvestment", "reinvestment_rate",
   "return_on_capital", "revenue", "revenue_current", "revenue_prior", "risk_free_rate", "roic",
   "securities", "shares_current", "shares_prior", "short_yield", "subject", "tax_rate",
   "total_assets", "wacc", "working_capital", "working_capital_beginning"}

Plain ==
  [f \in PlainFigures |-> One]
  @@ [operating_assets |-> Whole(2), operating_liabilities |-> One, debt |-> One, equity |-> One,
      cash |-> One, non_operating_assets |-> Zero, assets |-> Whole(3), liabilities |-> Whole(2)]
  @@ [forecast |-> Series(<<1, 2>>), discount_rate |-> <<1, 2>>, terminal_growth |-> Zero,
      discount_rates |-> <<<<1, 2>>, One>>, growth_rates |-> <<Zero, <<1, 4>>>>,
      fiscal_periods |-> <<1, 1>>, xs |-> Series(<<1, 2, 1>>), ys |-> Series(<<1, 3>>), lag |-> 0,
      cohort |-> << >>]

Request(op, x) == [op |-> op, x |-> x, flaws |-> {}]

Everything ==
  {Request(op, [Plain EXCEPT !.revenue = p, !.net_income = q, !.xs = s, !.fiscal_periods = <<1, t>>]) :
     op \in Reported \cup Ratios \cup Flows \cup Qualities \cup Payouts \cup CashFlows \cup Bridges
              \cup Multiples \cup Worths \cup Comparisons \cup Associations \cup Markets,
     p \in W({0, 2}), q \in W({-1, 1}), s \in {Series(<<1, 2, 1>>), Series(<<1, 3>>)}, t \in 1 .. 2}

Ledgers ==
  {Request("invested_capital",
           [Plain EXCEPT !.operating_assets = o, !.operating_liabilities = w, !.debt = d,
                         !.equity = e, !.cash = c, !.non_operating_assets = n,
                         !.assets = Total(<<o, c, n>>), !.liabilities = Add(w, d)]) :
     o \in W(1 .. 3), w \in W(0 .. 1), d \in W(0 .. 2), e \in W(0 .. 2), c \in W(0 .. 1),
     n \in W(0 .. 1)}

FlowBooks ==
  {Request("fcfe", [Plain EXCEPT !.net_income = i, !.capital_expenditure = c, !.depreciation = d,
                    !.change_in_working_capital = w, !.net_borrowing = b]) :
     i \in W(-1 .. 1), c \in W(0 .. 2), d \in W(0 .. 2), w \in W(-1 .. 1), b \in W(-1 .. 1)}

ReturnBooks ==
  {Request("roic", [Plain EXCEPT !.nopat = n, !.average_invested_capital = c, !.reinvestment = r,
                    !.net_repurchases = s, !.dividends_paid = d, !.net_debt_reduction = e,
                    !.market_capitalization = m]) :
     n \in W(-1 .. 2), c \in W(0 .. 3), r \in W(-1 .. 2),
     s \in W(-1 .. 1), d \in W(0 .. 1), e \in W(-1 .. 1), m \in W(0 .. 2)}

BridgeBooks ==
  {Request("enterprise_to_equity_detailed",
           [Plain EXCEPT !.enterprise_value = v, !.debt = d, !.cash = c, !.investments = i,
            !.minority_interest = m, !.option_value = o, !.diluted_shares = n]) :
     v \in W(0 .. 3), d \in W(-1 .. 2), c \in W(0 .. 1), i \in W(0 .. 1), m \in W(0 .. 1),
     o \in W(0 .. 1), n \in W(0 .. 2)}

FlowPaths == {Series(<<a, b>>) : a \in -1 .. 2, b \in -1 .. 2} \cup {Series(<<a>>) : a \in 1 .. 2}

CashFlowBooks ==
  {Request("multistage_dcf_perpetuity",
           [Plain EXCEPT !.forecast = f, !.discount_rate = r, !.terminal_growth = g,
            !.growth_rates = <<g, <<1, 3>>>>]) :
     f \in FlowPaths, r \in {<<1, 4>>, <<1, 2>>, One}, g \in {<<-1, 2>>, Zero, <<1, 4>>}}

CapitalBooks ==
  {Request("wacc", [Plain EXCEPT !.equity = e, !.debt = d, !.cost_of_equity = c, !.cost_of_debt = k,
                    !.tax_rate = t, !.beta = b, !.net_income = i]) :
     e \in W(0 .. 2), d \in W(-1 .. 2), c \in {<<1, 10>>, <<1, 5>>}, k \in {<<1, 20>>, <<3, 10>>},
     t \in {Zero, <<1, 4>>, One}, b \in W(0 .. 1), i \in W(-1 .. 1)}

SampleBooks ==
  {Request("beta", [Plain EXCEPT !.xs = Series(v), !.ys = Series(u), !.lag = l, !.subject = Whole(2)]) :
     v \in [1 .. 5 -> {1, 2, 4}], u \in {<<1, 1, 2, 3, 1>>, <<3, 1, 1, 2, 2>>}, l \in 0 .. 1}

\* Three companies a policy keeps, and two observations more: of one of them again,
\* of others, from the future, at and past the age limit, of another definition.
Peer(company, value, age, matches) ==
  [company |-> company, value |-> Whole(value), age |-> age, matches |-> matches]
Observations ==
  {Peer(1, 4, 0, TRUE), Peer(1, 0, 5, TRUE), Peer(1, 0, 6, TRUE), Peer(4, 0, 5, TRUE),
   Peer(4, 4, 6, TRUE), Peer(4, 4, -1, TRUE), Peer(4, 4, 0, FALSE), Peer(5, 4, 0, TRUE),
   Peer(5, 2, 5, TRUE)}
CohortBooks ==
  {Request("drawdown", [Plain EXCEPT !.cohort = <<c, Peer(2, v[1], 0, TRUE), d, Peer(1, v[2], 0, TRUE),
                                                  Peer(3, v[3], 0, TRUE)>>]) :
     v \in [1 .. 3 -> {1, 3}], c \in Observations, d \in Observations}

FlawedBooks ==
  {[op |-> "margin", x |-> Plain, flaws |-> f] :
     f \in {g \in SUBSET Flaws : Cardinality(g) \in 1 .. 2}}

--------------------------------------------------------------------------------
Assumptions(b, r, g, years) ==
  [base |-> b, rate |-> r, growth |-> g, tax |-> Zero, reinvestment |-> <<1, 4>>,
   margin |-> <<1, 2>>, revenueGrowth |-> <<1, 4>>, years |-> years]

Guesses == {<<k, 8>> : k \in {-4, 0, 1, 2, 4, 6}}

SearchRequests ==
  {[op |-> op, x |-> b @@ [target |-> t], flaws |-> {}] :
     op \in Searches,
     b \in {Assumptions(v, r, Zero, n) : v \in W({-1, 2, 4}), r \in {<<1, 2>>, One}, n \in 0 .. 2},
     t \in W({0, 100})}
  \cup
  {r \in {[op |-> op, x |-> b @@ [target |-> ValueAt(op, b, g)], flaws |-> {}] :
            op \in Searches,
            b \in {Assumptions(v, r, Zero, n) : v \in W({-1, 2, 4}), r \in {<<3, 2>>, One}, n \in 1 .. 2},
            g \in Guesses} : r.x.target # NoValue}

EngineRequests ==
  UNION {Everything, Ledgers, FlowBooks, ReturnBooks, BridgeBooks, CashFlowBooks, CapitalBooks,
         SampleBooks, CohortBooks, FlawedBooks, SearchRequests}
=============================================================================
