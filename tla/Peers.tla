--------------------------------- MODULE Peers ---------------------------------
(***************************************************************************)
(* Two companies side by side: each shared operation of their activation   *)
(* reports becomes a pair of operands, and comparability.Evaluate says     *)
(* whether the pair may be ranked, ranked with a caveat, shown without a   *)
(* ranking, or not at all.  The company under study meets rivals whose     *)
(* filings are given; period ends are counted in half years.               *)
(***************************************************************************)
EXTENDS Activation

MaxEndDelta == 1   \* 190 days

\* The accounting perimeter a mapping stands for.
Perimeter(issuer, concept) ==
  IF Disposition(issuer, concept) = "canonical" \/ concept = "Revenues"
    THEN "consolidated" ELSE issuer.productiveAssets

--------------------------------------------------------------------------------
\* A company is its issuer, its report and the half years its fiscal year lags.
ConceptsOf(report, op, context) ==
  UNION {IF context /\ report.contextConcepts[metric] # {} THEN report.contextConcepts[metric]
         ELSE report.concepts[metric] : metric \in InputsOf(op)}

\* Revenue under one reviewed concept counts as the canonical one; {} is no mapping.
MappedConcepts(report, op, concepts) ==
  IF "revenue" \notin InputsOf(op) \/ Cardinality(report.concepts["revenue"]) # 1 THEN {}
  ELSE (concepts \ report.concepts["revenue"]) \cup {"ContractRevenue"}

\* What the registry says of each input of a receipt.
InputAuthorities(issuer, inputs) ==
  [i \in DOMAIN inputs |-> [perimeter |-> Perimeter(issuer, inputs[i].concept),
                           ranked |-> RankingEligible(issuer, inputs[i].concept)]]

Has(company, op) == op \in DOMAIN company.report.receipts \cup DOMAIN company.report.contextual

Operand(company, op) ==
  LET report == company.report
      context == op \notin DOMAIN report.receipts
      inputs == IF context THEN report.contextual[op] ELSE report.receipts[op]
      concepts == ConceptsOf(report, op, context)
      authority == InputAuthorities(company.issuer, inputs)
  IN  [concepts |-> concepts,
       mapped |-> MappedConcepts(report, op, concepts),
       end |-> 2 * Max({inputs[i].year : i \in DOMAIN inputs}) + company.lag,
       filed |-> Max({inputs[i].filed : i \in DOMAIN inputs}),
       perimeter |-> [i \in DOMAIN inputs |-> authority[i].perimeter],
       ranked |-> ~context /\ \A i \in DOMAIN inputs : authority[i].ranked]

--------------------------------------------------------------------------------
\* Evaluate, for what can differ between two operands of one operation.
Apart(m, n) == IF m < n THEN n - m ELSE m - n

Alike(left, right) ==
  /\ left.perimeter = right.perimeter
  /\ Apart(left.end, right.end) <= MaxEndDelta
  /\ left.concepts # right.concepts => left.mapped = right.mapped /\ left.mapped # {}

Caveats(left, right) ==
  (IF left.end # right.end THEN {"different_fiscal_periods"} ELSE {}) \cup
  (IF left.filed # right.filed THEN {"different_filing_dates"} ELSE {}) \cup
  (IF left.concepts # right.concepts THEN {"reviewed_taxonomy_mapping_applied"} ELSE {})

Evaluate(left, right) ==
  CASE ~(left.ranked /\ right.ranked) -> "context_only"
    [] left.ranked /\ right.ranked /\ ~Alike(left, right) -> "not_comparable"
    [] OTHER -> IF Caveats(left, right) = {} THEN "comparable" ELSE "comparable_with_caveat"

\* One metric of a pair: without both operands it is withheld.
Compared(a, b, op) ==
  IF Has(a, op) /\ Has(b, op) THEN Evaluate(Operand(a, op), Operand(b, op)) ELSE "withheld"

Releasable(disposition) == disposition \in {"comparable", "comparable_with_caveat"}

--------------------------------------------------------------------------------
\* Two rivals are issuers like most, one of them with a fiscal year that lags; one has an
\* alias and a broader perimeter; one has not reported its second year.
PlainIssuer == [revenueAlias |-> FALSE, productiveAssets |-> "rejected"]
BroadIssuer == [revenueAlias |-> TRUE, productiveAssets |-> "context_only"]

Original(y, revenue, capex) ==
  Filing("10-K", y, {Line("revenue", revenue, y, 1), Line("revenue", revenue, y - 1, 1),
                     Line("capex", capex, y, 1), Line("ocf", "OperatingCash", y, 1)}, y + 1)

Rivals ==
  {[issuer |-> PlainIssuer, lag |-> lag,
    ledger |-> <<Original(1, "ContractRevenue", "PropertyPlantEquipment"),
                 Original(2, "ContractRevenue", "PropertyPlantEquipment")>>] : lag \in 0 .. 1}
  \cup {[issuer |-> BroadIssuer, lag |-> 0,
         ledger |-> <<Original(1, "Revenues", "ProductiveAssets"),
                      Original(2, "Revenues", "ProductiveAssets")>>],
        [issuer |-> PlainIssuer, lag |-> 0,
         ledger |-> <<Original(1, "ContractRevenue", "PropertyPlantEquipment")>>]}

\* Their reports, by the year and the as-of date.
RivalsAt ==
  [now \in 2 .. MaxNow |-> [asOf \in 1 .. MaxNow |->
     {[issuer |-> r.issuer, lag |-> r.lag, report |-> Report(r.issuer, r.ledger, now, asOf)] :
        r \in Rivals}]]

\* Only like is ranked with like: in a releasable comparison every input of both sides is
\* under its canonical concept, the periods end within half a year of each other, and
\* without a caveat on the same day (Evaluate, financialOperand, betterAuthorizedMetric).
RankedPairsAreLikeForLike ==
  study.asOf # 0 =>
    LET self == [issuer |-> study.issuer, lag |-> 0, report |-> BuiltReport]
        Canonical(company, op) ==
          \A i \in DOMAIN company.report.receipts[op] :
            \A f \in company.report.receipts[op][i].evidence :
              f.concept \in {"ContractRevenue", "PropertyPlantEquipment", "OperatingCash"}
        LastEnd(company, op) ==
          Max({2 * i.year + company.lag :
                 i \in {company.report.receipts[op][id] : id \in DOMAIN company.report.receipts[op]}})
    IN  \A rival \in RivalsAt[study.now][study.asOf] : \A op \in CompanyOperations :
          LET disposition == Compared(self, rival, op)
          IN  Releasable(disposition) =>
                /\ op \in DOMAIN self.report.receipts /\ Canonical(self, op)
                /\ op \in DOMAIN rival.report.receipts /\ Canonical(rival, op)
                /\ LastEnd(self, op) - LastEnd(rival, op) \in -1 .. 1
                /\ disposition = "comparable" => LastEnd(self, op) = LastEnd(rival, op)
=============================================================================
