-------------------------------- MODULE Filings --------------------------------
(***************************************************************************)
(* What a company reports to the SEC and what SignalForge makes of it:     *)
(* secparse links each amendment to its original and binds every fact to   *)
(* its filing, normalize.AsOf keeps one value per metric and period, and   *)
(* productscope.buildFilingAuthorityStates says which annual filings speak *)
(* for the company.  A ledger is the sequence of filings in the order the  *)
(* SEC accepted them; a filing is known by its position.  Years stand for  *)
(* dates: year y is reported from y + 1 on.                                *)
(***************************************************************************)
EXTENDS Integers, Sequences, FiniteSetsExt

Annual == {"10-K", "10-K/A"}

\* Accepted taxonomy concepts, with the rank normalize gives them.
ConceptRank ==
  [ContractRevenue |-> 1, Revenues |-> 2, PropertyPlantEquipment |-> 1, ProductiveAssets |-> 2,
   OperatingCash |-> 1]

\* One row of company facts.
Line(metric, concept, year, value) ==
  [metric |-> metric, concept |-> concept, year |-> year, value |-> value]

FactsOf(ledger) ==
  UNION {{[metric |-> line.metric, concept |-> line.concept, year |-> line.year,
           value |-> line.value, from |-> i] : line \in ledger[i].lines} : i \in DOMAIN ledger}

Available(ledger, i, asOf) == ledger[i].accepted <= asOf

--------------------------------------------------------------------------------
\* normalize.AsOf: of the facts about a metric and a period that are available, the
\* last one accepted speaks, and within one filing the concept of the lower rank.
Supersedes(f, g) ==
  g.from < f.from \/ (g.from = f.from /\ ConceptRank[f.concept] <= ConceptRank[g.concept])

Selected(candidates) == CHOOSE f \in candidates : \A g \in candidates : Supersedes(f, g)

Normalized(ledger, asOf) ==
  LET known == {f \in FactsOf(ledger) : Available(ledger, f.from, asOf)}
      Candidates(metric, year) == {f \in known : f.metric = metric /\ f.year = year}
      MetricOf(candidates) ==
        LET f == Selected(candidates)
        IN  [metric |-> f.metric, year |-> f.year, value |-> f.value, from |-> f.from,
             sources |-> candidates]
  IN  {MetricOf(Candidates(f.metric, f.year)) : f \in known}

--------------------------------------------------------------------------------
\* The filing an amendment amends: the last earlier original of its period, or 0.
Amends(ledger, i) ==
  IF ledger[i].form # "10-K/A" THEN 0
  ELSE Max({0} \cup {j \in 1 .. i - 1 : ledger[j].form = "10-K" /\ ledger[j].year = ledger[i].year})

\* The annual filings that exist by then and, if amendments, amend one that does.
Valid(ledger, asOf) ==
  {i \in DOMAIN ledger :
     /\ ledger[i].form \in Annual
     /\ Available(ledger, i, asOf)
     /\ ledger[i].form = "10-K/A" => Amends(ledger, i) # 0}

Unamended(ledger, asOf) ==
  {i \in Valid(ledger, asOf) : \A j \in Valid(ledger, asOf) : Amends(ledger, j) # i}

\* Of a period with two unamended filings, none is active.
Active(ledger, asOf) ==
  LET unamended == Unamended(ledger, asOf)
  IN  {i \in unamended : \A j \in unamended : ledger[j].year = ledger[i].year => j = i}
=============================================================================
