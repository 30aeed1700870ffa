------------------------------- MODULE Activation -------------------------------
(***************************************************************************)
(* From a company's filings to what SignalForge computes of them.  Two     *)
(* commands read the same frozen metrics and facts: accounting authority   *)
(* (BuildTechnology20AccountingAuthority) says which facts may stand for   *)
(* each input, and financial activation (BuildCompanyFinancialActivation)  *)
(* runs the operations and keeps a receipt, a contextual receipt or an     *)
(* abstention of each.  One company; three of its operations, which take   *)
(* every path of the code.                                                 *)
(***************************************************************************)
EXTENDS Filings

CONSTANTS
  MaxFilings,   \* of the company, a bound of the exploration
  LastYear,     \* fiscal years reported, a bound of the exploration
  MaxNow        \* years that pass, a bound of the exploration

ASSUME CalendarAssumption ==
  MaxFilings \in Nat /\ LastYear \in Nat /\ MaxNow \in Nat \ {0, 1}

VARIABLE study   \* the issuer, its ledger, the year, and the as-of date the commands ran for (0: not yet)

Years == 1 .. LastYear
FreshYears == 2   \* 760 days after a year's end are over in the third year

CompanyOperations == {"revenue_growth", "capex_intensity", "free_cash_flow"}
InputsOf(op) ==
  CASE op = "revenue_growth" -> {"revenue"}
    [] op = "capex_intensity" -> {"capex", "revenue"}
    [] op = "free_cash_flow" -> {"ocf", "capex"}

--------------------------------------------------------------------------------
\* The registry and the professional decision: every issuer has the canonical concepts,
\* some an accepted alias or a concept for display only.
Disposition(issuer, concept) ==
  CASE concept = "Revenues" -> IF issuer.revenueAlias THEN "reviewed_alias" ELSE "rejected"
    [] concept = "ProductiveAssets" -> issuer.productiveAssets
    [] OTHER -> "canonical"

Numerical(issuer, concept) == Disposition(issuer, concept) \in {"canonical", "reviewed_alias"}
Contextual(issuer, concept) == Disposition(issuer, concept) = "context_only"
AliasRankingEligible(issuer, concept) == Numerical(issuer, concept)   \* mutant of RankingEligible
RankingEligible(issuer, concept) == Disposition(issuer, concept) = "canonical"

SelectionRank(issuer, concept) ==
  CASE Disposition(issuer, concept) = "canonical" -> 3
    [] Disposition(issuer, concept) = "reviewed_alias" -> 2
    [] Disposition(issuer, concept) = "context_only" -> 1
    [] OTHER -> 0

--------------------------------------------------------------------------------
\* Accounting authority: the facts of an active annual filing that carry the metric's
\* value, the latest of each concept and period.
LookAheadUsable(ledger, metric, asOf) ==                            \* mutant of Usable
  asOf - metric.year <= FreshYears
Usable(ledger, metric, asOf) ==
  /\ Available(ledger, metric.from, asOf)
  /\ asOf - metric.year <= FreshYears

SourceCandidates(ledger, metrics, asOf) ==
  UNION {{f \in metric.sources : /\ f.value = metric.value
                                 /\ f.from \in Active(ledger, asOf)}
         : metric \in {m \in metrics : Usable(ledger, m, asOf)}}

ActiveAnnualSources(ledger, metrics, asOf) ==
  LET candidates == SourceCandidates(ledger, metrics, asOf)
  IN  {f \in candidates : \A g \in candidates :
         g.metric = f.metric /\ g.concept = f.concept /\ g.year = f.year => g.from <= f.from}

\* What an input may be computed from: the best mapping among its sources.
InputDisposition(issuer, sources) ==
  LET best == CHOOSE f \in sources : \A g \in sources :
                SelectionRank(issuer, g.concept) <= SelectionRank(issuer, f.concept)
  IN  IF sources = {} THEN "unavailable" ELSE Disposition(issuer, best.concept)

\* A source under anything but its canonical concept is an exception for a reviewer, even
\* where the input has a better one; a missing input is none.
Exceptions(issuer, sources) ==
  {f \in sources : Disposition(issuer, f.concept) # "canonical"}

Packet(issuer, ledger, metrics, asOf) ==
  LET sources == ActiveAnnualSources(ledger, metrics, asOf)
  IN  [inputs |-> [metric \in {"revenue", "capex", "ocf"} |->
                     InputDisposition(issuer, {f \in sources : f.metric = metric})],
       sources |-> sources,
       state |-> IF Exceptions(issuer, sources) = {} THEN "data_ready" ELSE "limited"]

--------------------------------------------------------------------------------
\* Financial activation: the facts an input may rest on are those of a periodic filing
\* that carry the metric's value; the best mapping wins, and which of several equal facts
\* is taken depends on their hashes.
AnyValueFacts(ledger, metric) ==                           \* mutant of PeriodicFacts
  {f \in metric.sources : ledger[f.from].form \in Annual}
PeriodicFacts(ledger, metric) ==
  {f \in metric.sources : f.value = metric.value /\ ledger[f.from].form \in Annual}

LatestFacts(issuer, ledger, metric) ==                          \* mutant of Evidence
  {f \in PeriodicFacts(ledger, metric) : \A g \in PeriodicFacts(ledger, metric) : g.from <= f.from}
Evidence(issuer, ledger, metric) ==
  {f \in PeriodicFacts(ledger, metric) : \A g \in PeriodicFacts(ledger, metric) :
     SelectionRank(issuer, g.concept) <= SelectionRank(issuer, f.concept)}

ItemOf(issuer, ledger, metric) ==
  LET evidence == Evidence(issuer, ledger, metric)
  IN  [metric |-> metric.metric, year |-> metric.year, value |-> metric.value, evidence |-> evidence,
       concept |-> (CHOOSE f \in evidence : TRUE).concept, filed |-> ledger[metric.from].accepted]

Eligible(issuer, ledger, metrics, asOf) ==
  {ItemOf(issuer, ledger, m) :
     m \in {n \in metrics : Usable(ledger, n, asOf) /\ PeriodicFacts(ledger, n) # {}}}

OfMetric(items, metric) == {i \in items : i.metric = metric}
Item(items, metric, year) == CHOOSE i \in OfMetric(items, metric) : i.year = year
YearsOf(items, metric) == {i.year : i \in OfMetric(items, metric)}

\* The latest two years of revenue, or every input of the latest year that has them all;
\* the empty function if there is none.
SelectInputs(items, op) ==
  IF op = "revenue_growth"
    THEN LET years == YearsOf(items, "revenue")
             current == Max(years)
             prior == Max(years \ {current})
         IN  IF Cardinality(years) < 2 THEN << >>
             ELSE [input \in {"revenue_current", "revenue_prior"} |->
                     Item(items, "revenue", IF input = "revenue_current" THEN current ELSE prior)]
    ELSE LET years == {y \in Years : \A metric \in InputsOf(op) : y \in YearsOf(items, metric)}
         IN  IF years = {} THEN << >>
             ELSE [metric \in InputsOf(op) |-> Item(items, metric, Max(years))]

\* The engine fails a division by zero.
Computes(op, inputs) ==
  CASE op = "revenue_growth" -> inputs["revenue_prior"].value # 0
    [] op = "capex_intensity" -> inputs["revenue"].value # 0
    [] OTHER -> TRUE

ReceiptsOf(items, ops) ==
  LET selected == [op \in ops |-> SelectInputs(items, op)]
      done == {op \in ops : selected[op] # << >> /\ Computes(op, selected[op])}
  IN  [op \in done |-> selected[op]]

Report(issuer, ledger, frozen, asOf) ==
  LET items == Eligible(issuer, ledger, Normalized(ledger, frozen), asOf)
      numerical == {i \in items : Numerical(issuer, i.concept)}
      contextual == {i \in items : Contextual(issuer, i.concept)}
      displayed == contextual \cup {i \in numerical : i.metric # "capex"}
  IN  [receipts |-> ReceiptsOf(numerical, CompanyOperations),
       contextual |-> ReceiptsOf(displayed, IF OfMetric(contextual, "capex") = {} THEN {}
                                          ELSE {"capex_intensity", "free_cash_flow"}),
       numerical |-> numerical, context |-> contextual,
       concepts |-> [metric \in {"revenue", "capex", "ocf"} |->
                       {i.concept : i \in OfMetric(numerical, metric)}],
       contextConcepts |-> [metric \in {"revenue", "capex", "ocf"} |->
                              {i.concept : i \in OfMetric(contextual, metric)}]]

--------------------------------------------------------------------------------
\* Issuers differ in the concepts accepted for them.
Issuers ==
  {[revenueAlias |-> TRUE, productiveAssets |-> "context_only"],
   [revenueAlias |-> FALSE, productiveAssets |-> "reviewed_alias"],
   [revenueAlias |-> FALSE, productiveAssets |-> "rejected"]}

\* What a filing about a year reports: an original the year and sometimes the one before
\* it, an amendment nothing or a restatement, a current report an early figure.
ContentsOf(form, y) ==
  LET Cash == Line("ocf", "OperatingCash", y, 1)
      Plant == Line("capex", "PropertyPlantEquipment", y, 1)
      Assets == Line("capex", "ProductiveAssets", y, 1)
      Revenue(concept, year, value) == Line("revenue", concept, year, value)
  IN  CASE form = "10-K" ->
             {{Revenue("ContractRevenue", y, 1), Plant, Cash},
              {Revenue("Revenues", y, 1), Revenue("Revenues", y - 1, 1), Assets, Cash},
              {Revenue("ContractRevenue", y, 1), Revenue("ContractRevenue", y - 1, 0), Plant}}
        [] form = "10-K/A" -> {{}, {Revenue("ContractRevenue", y, 0), Plant}}
        [] form = "8-K" -> {{Revenue("ContractRevenue", y, 0)}}

Filing(form, y, lines, now) ==
  [form |-> form, year |-> y, lines |-> {l \in lines : l.year \in Years}, accepted |-> now]

\* A filing is about one of the last two years.
Accept(form, y) ==
  /\ study.asOf = 0
  /\ Len(study.ledger) < MaxFilings
  /\ y \in study.now - 2 .. study.now - 1
  /\ \E lines \in ContentsOf(form, y) :
       study' = [study EXCEPT !.ledger = Append(@, Filing(form, y, lines, study.now))]

Later ==
  /\ study.asOf = 0
  /\ study.now < MaxNow
  /\ study' = [study EXCEPT !.now = @ + 1]

\* Both commands run for an as-of date, the metrics' own or the year before it.
Build(asOf) ==
  /\ study.asOf = 0
  /\ asOf \in study.now - 1 .. study.now
  /\ study' = [study EXCEPT !.asOf = asOf]

ActivationInit ==
  \E issuer \in Issuers : study = [issuer |-> issuer, ledger |-> << >>, now |-> 2, asOf |-> 0]

ActivationNext ==
  \/ \E form \in {"10-K", "10-K/A", "8-K"}, y \in Years : Accept(form, y)
  \/ Later
  \/ \E asOf \in 2 .. MaxNow : Build(asOf)

ActivationSpec == ActivationInit /\ [][ActivationNext]_study

--------------------------------------------------------------------------------
BuiltReport == Report(study.issuer, study.ledger, study.now, study.asOf)
Frozen == Normalized(study.ledger, study.now)

\* What a receipt rests on: a fact accepted by the as-of date, whose value is the one last
\* reported by then for that metric and year, in an amendment, a later year's comparative
\* or a current report (AsOf, periodicFactAuthorityWithMapping).
ReceiptsAreTheLastWord ==
  study.asOf # 0 =>
    LET built == BuiltReport
        known == {f \in FactsOf(study.ledger) : study.ledger[f.from].accepted <= study.asOf}
        LastWord(f) ==
          \A g \in {k \in known : k.metric = f.metric /\ k.year = f.year} :
            g.from > f.from =>
              \E h \in known : /\ h.metric = f.metric /\ h.year = f.year
                               /\ h.value = f.value /\ h.from >= g.from
    IN  \A receipts \in {built.receipts, built.contextual} :
          \A op \in DOMAIN receipts : \A input \in DOMAIN receipts[op] :
            \A f \in receipts[op][input].evidence : f \in known /\ LastWord(f)

\* The two commands agree one way.  An input accounting authority accepts can be computed
\* with: activation has each of its active annual sources of an accepted concept, under
\* that concept or a better one.  And a company whose packet needs no reviewer gets no
\* input that rests on a source of the packet but is not canonical
\* (buildCompanyAccountingAuthorityPacket, periodicFactAuthorityWithMapping).
AuthorityIsUsable ==
  study.asOf # 0 =>
    LET built == BuiltReport
        packet == Packet(study.issuer, study.ledger, Frozen, study.asOf)
    IN  /\ \A f \in packet.sources :
             Numerical(study.issuer, f.concept) =>
               /\ packet.inputs[f.metric] \in {"canonical", "reviewed_alias"}
               /\ \E item \in built.numerical :
                    /\ item.metric = f.metric /\ item.year = f.year /\ item.value = f.value
                    /\ SelectionRank(study.issuer, f.concept)
                         <= SelectionRank(study.issuer, item.concept)
        /\ packet.state = "data_ready" =>
             \A item \in built.numerical \cup built.context :
               item.evidence \cap packet.sources # {} =>
                 RankingEligible(study.issuer, item.concept)

\* A mapping is invalid when "filing_chain_is_not_active" (DefaultAccountingAuthorityRegistry)
\* and "exact_issuer_mapping_[...]_and_active_filing_chain_required" (the professional
\* decision): every input of a receipt rests on a fact of an active annual filing.
ReleasedIsAuthorized ==
  study.asOf # 0 =>
    LET receipts == BuiltReport.receipts
    IN  \A op \in DOMAIN receipts : \A input \in DOMAIN receipts[op] :
          receipts[op][input].evidence
            \cap ActiveAnnualSources(study.ledger, Frozen, study.asOf) # {}
=============================================================================
