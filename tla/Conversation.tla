----------------------------- MODULE Conversation ------------------------------
(***************************************************************************)
(* From a question to the plan of its run, and from an answered case to a  *)
(* follow-up of it: requestparser.ParseDeterministic, the route of         *)
(* internal/taxonomy, productscope.BindRequestAuthority and                *)
(* planner.Builder.Build, in the order prepareLiveRequest and the runtime  *)
(* call them.  The words of a question that some rule looks for are its    *)
(* phrases; the moment it names and its companies are kept apart.  Years   *)
(* stand for dates.                                                        *)
(***************************************************************************)
EXTENDS Integers, SequencesExt

CONSTANT MaxYear   \* the last year of the calendar
VARIABLE talk      \* the time, the answered case a follow-up extends, the run asked for

\* The phrases the rules look for, one or two for each rule.
IntentRules ==
  <<[intent |-> "thesis_review", terms |-> {"my thesis"}],
    [intent |-> "concept_education", terms |-> {"teach me"}],
    [intent |-> "market_behavior", terms |-> {"volatility"}],
    [intent |-> "company_comparison", terms |-> {"compare", "comparison"}],
    [intent |-> "economic_transmission", terms |-> {"interest rates"}],
    [intent |-> "valuation", terms |-> {"valuation"}],
    [intent |-> "financial_quality", terms |-> {"operating margin"}],
    [intent |-> "company_understanding", terms |-> {"business model"}]>>
PeerTerms == {"compare", "both companies"}
ClarifyTerms == {"this company", "my thesis"}
RouteRules ==
  <<[intent |-> "company_comparison", terms |-> {"interest rates"}, role |-> "economics"],
    [intent |-> "company_comparison", terms |-> {"valuation", "market price", "dcf"}, role |-> "valuation"],
    [intent |-> "company_comparison", terms |-> {"market price"}, role |-> "market"],
    [intent |-> "company_comparison", terms |-> {"reported"}, role |-> "accounting"],
    [intent |-> "thesis_review", terms |-> {"reported"}, role |-> "accounting"]>>
OperationRules ==
  <<[terms |-> {"compare"}, operations |-> {"financial", "period_aligned"}],
    [terms |-> {"valuation", "dcf"}, operations |-> {"dcf", "sensitivity_matrix"}],
    [terms |-> {"market price"}, operations |-> {"peer_multiple"}],
    [terms |-> {"volatility"}, operations |-> {"volatility"}],
    [terms |-> {"operating margin"}, operations |-> {"financial", "operating_margin"}]>>
Phrases == UNION {IntentRules[i].terms : i \in DOMAIN IntentRules}
           \cup {"both companies", "this company", "market price", "dcf", "reported"}

\* The roles the planner's registry (Tier0Registry) authorizes; operating_margin is
\* not in it.
AllowedRoles ==
  [financial |-> {"accounting", "quality", "valuation"}, period_aligned |-> {"quality", "valuation"},
   dcf |-> {"valuation"}, sensitivity_matrix |-> {"valuation"}, peer_multiple |-> {"valuation"},
   volatility |-> {"market", "economics"}, operating_margin |-> {}]

\* The governed companies, the pairs with a lane and whether it is promoted.
Microsoft == "microsoft"
Nvidia == "nvidia"
Apple == "apple"
Ungoverned == {"unlisted"}
ResearchEnabled == {Microsoft, Nvidia}
ComparisonLanes == {[pair |-> {Microsoft, Nvidia}, promoted |-> TRUE], [pair |-> {Microsoft, Apple}, promoted |-> FALSE]}

\* A question: spelled is FALSE for a range or a year hasExplicitPeriod does not see.
Moments ==
  {[kind |-> k, year |-> 0, spelled |-> TRUE] : k \in {"none", "today", "since then", "latest", "backwards"}}
  \cup [kind : {"range"}, year : {0, 2}, spelled : BOOLEAN]
  \cup [kind : {"fiscal_year"}, year : {1, 3}, spelled : BOOLEAN]
NamedCompanies == {{}, {Microsoft}, {Nvidia}, {Apple}, {Microsoft, Nvidia}, {Microsoft, Apple},
          {Microsoft, Nvidia, Apple}} \cup {Ungoverned}
Asks(phrases, moments) == [phrases : phrases, moment : moments, named : NamedCompanies]
Undated == {[kind |-> "none", year |-> 0, spelled |-> TRUE]}
Singles == {{p} : p \in Phrases}
\* Any two phrases, and every moment with one; a follow-up needs fewer of them.
Questions == Asks({p \in SUBSET Phrases : Cardinality(p) \in 1 .. 2}, Undated) \cup Asks(Singles, Moments)
FollowUpQuestions ==
  Asks(Singles \cup {{"compare", p} : p \in Phrases}, Undated)
  \cup Asks({{"business model"}, {"compare"}, {"both companies", "valuation"}}, Moments)

--------------------------------------------------------------------------------
(* ParseDeterministic *)

Says(q, terms) == q.phrases \cap terms # {}

\* Interpret: the intent of the first rule with a term in the question; {} is an ambiguous
\* intent.
InterpretQuestion(q) ==
  LET matching == {i \in DOMAIN IntentRules : Says(q, IntentRules[i].terms)}
  IN {IntentRules[i].intent : i \in {j \in matching : \A k \in matching : j <= k}}

Latest == [kind |-> "latest_available", year |-> 0]

HasExplicitPeriod(moment) ==
  \/ moment.kind \in {"today", "latest"}
  \/ moment.kind \in {"range", "fiscal_year"} /\ moment.spelled

\* Only a period hasExplicitPeriod sees is checked.
SpelledPeriodAllowed(moment, now) ==
  HasExplicitPeriod(moment) => moment.year <= now

\* ResolvePeriod: the period of a question, and whether it may be asked for.
PeriodOf(moment) ==
  IF moment.kind \in {"range", "fiscal_year"} THEN [kind |-> moment.kind, year |-> moment.year]
  ELSE IF moment.kind = "today" THEN [kind |-> "current_and_latest_reported", year |-> 0]
       ELSE Latest
PeriodAllowed(moment, now) ==
  /\ moment.kind # "backwards"
  /\ moment.kind = "range" => moment.year <= now
  /\ moment.kind = "fiscal_year" => moment.year <= now + 1

RequestsFreshAsOf(moment) == moment.kind \in {"today", "since then"}

\* Only the words of a comparison count, not the companies that are named.
HasComparisonWords(q) == Says(q, PeerTerms)
HasExplicitComparison(q) == Cardinality(q.named) > 1 \/ Says(q, PeerTerms)
Comparison(q) ==
  IF HasExplicitComparison(q) THEN [mode |-> "peer", companies |-> q.named]
  ELSE [mode |-> "none", companies |-> {}]

RequiredFinalSections ==
  [company_understanding |-> {"business_overview"}, financial_quality |-> {"financial_quality"},
   economic_transmission |-> {"transmission_mechanisms", "scenarios"},
   valuation |-> {"assumptions", "valuation_range", "sensitivity"},
   company_comparison |-> {"comparison"}, concept_education |-> {"concept", "company_example"},
   market_behavior |-> {"market_measurement"},
   thesis_review |-> {"thesis", "counterevidence", "invalidation_conditions"}]

\* A peer comparison that names no company is one of those the request is about.
CompletedComparison(comparison, entities) ==
  IF comparison.mode = "peer" /\ comparison.companies = {}
  THEN [comparison EXCEPT !.companies = entities] ELSE comparison

\* The request of a question and, in a follow-up, of the scope of its parent
\* (NewFollowUpContext): what the question does not say is inherited.
RequestOf(q, intent, now, parent) ==
  LET entities == IF q.named = {} THEN parent.entities ELSE q.named
      inherits == parent.entities # {}
      comparison == IF inherits /\ ~HasExplicitComparison(q) THEN parent.comparison ELSE Comparison(q)
  IN [intent |-> intent, entities |-> entities,
      outputs |-> RequiredFinalSections[intent],
      period |-> IF inherits /\ ~HasExplicitPeriod(q.moment) THEN parent.period ELSE PeriodOf(q.moment),
      asOf |-> IF inherits /\ ~RequestsFreshAsOf(q.moment) THEN parent.asOf ELSE now,
      comparison |-> CompletedComparison(comparison, entities),
      authority |-> "unbound",
      ambiguous |-> ~PeriodAllowed(q.moment, now) \/ (entities = {} /\ intent # "concept_education")]

--------------------------------------------------------------------------------
(* BindRequestAuthority *)

Governed(request) ==
  /\ request.entities # {} /\ request.entities \cap Ungoverned = {}
  /\ request.comparison.mode = "peer" => Cardinality(request.entities) = 2

PairPromoted(pair) == \E lane \in ComparisonLanes : lane.pair = pair /\ lane.promoted
AuthorityState(request) ==
  IF request.comparison.mode = "peer"
  THEN IF PairPromoted(request.entities) THEN "comparison_ready" ELSE "limited"
  ELSE IF Cardinality(request.entities) = 1 /\ request.entities \subseteq ResearchEnabled
       THEN "research_ready" ELSE "data_ready"

--------------------------------------------------------------------------------
(* Build *)

AppendUnique(s, value) == IF value \in ToSet(s) THEN s ELSE Append(s, value)

\* The roles that the chosen rules add to those there are, rule by rule.
Extended(roles, rules, chosen) ==
  LET after[n \in 0 .. Len(rules)] ==
        IF n = 0 THEN roles
        ELSE IF n \in chosen THEN AppendUnique(after[n - 1], rules[n].role) ELSE after[n - 1]
  IN after[Len(rules)]

RoutePolicy ==
  [company_understanding |-> <<"business">>, financial_quality |-> <<"quality", "accounting">>,
   economic_transmission |-> <<"economics", "business">>, valuation |-> <<"valuation", "quality">>,
   company_comparison |-> <<"business", "quality">>, concept_education |-> <<"accounting">>,
   market_behavior |-> <<"market">>, thesis_review |-> <<"business">>]

\* Plan: the route of the intent, with the roles that phrases of the question add.
Route(q, intent) ==
  Extended(RoutePolicy[intent], RouteRules,
           {i \in DOMAIN RouteRules : RouteRules[i].intent = intent /\ Says(q, RouteRules[i].terms)})
ClarifyFirst(q) == q.named \cap {Microsoft, Nvidia} = {} /\ Says(q, ClarifyTerms)

\* ensureOutputAuthority: the roles that the sections of the answer need, whatever was
\* said.  A comparison has its own before that, too.
OutputRules ==
  <<[output |-> "business_overview", role |-> "business"],
    [output |-> "financial_quality", role |-> "quality"],
    [output |-> "financial_quality", role |-> "accounting"],
    [output |-> "transmission_mechanisms", role |-> "economics"],
    [output |-> "scenarios", role |-> "valuation"],
    [output |-> "valuation_range", role |-> "valuation"],
    [output |-> "sensitivity", role |-> "valuation"],
    [output |-> "comparison", role |-> "business"],
    [output |-> "comparison", role |-> "accounting"],
    [output |-> "comparison", role |-> "quality"],
    [output |-> "concept", role |-> "accounting"],
    [output |-> "company_example", role |-> "accounting"],
    [output |-> "market_measurement", role |-> "market"]>>

EnsureOutputAuthority(contextRoles, outputs) ==
  Extended(contextRoles, OutputRules, {i \in DOMAIN OutputRules : OutputRules[i].output \in outputs})
ContextRoles(q, request) ==
  EnsureOutputAuthority(
    IF request.intent = "company_comparison"
    THEN EnsureOutputAuthority(Route(q, request.intent), {"comparison"})
    ELSE Route(q, request.intent),
    request.outputs)

\* detectOperations: the calculations the question asks for.
Detected(q) == UNION {OperationRules[i].operations :
                        i \in {j \in DOMAIN OperationRules : Says(q, OperationRules[j].terms)}}

MaxParallel == 4
MaxContexts == 8
WaveFromOne(i) == i \div MaxParallel + 1                  \* mutant of Wave
Wave(i) == (i - 1) \div MaxParallel + 1
Step(kind, role, wave, deps, calls) ==
  [kind |-> kind, role |-> role, wave |-> wave, deps |-> deps, calls |-> calls]

\* Only the first wave, as for the steps of the second one.
FirstWave(n) == 1 .. (IF n < MaxParallel THEN n ELSE MaxParallel)
AllContexts(n) == 1 .. n

\* The context steps in waves, the two reviews in a row, the synthesis.
Steps(contextRoles, operations) ==
  LET n == Len(contextRoles) IN
  [i \in 1 .. n |->
     Step("context", contextRoles[i], Wave(i), IF Wave(i) > 1 THEN 1 .. MaxParallel ELSE {},
          {op \in operations : contextRoles[i] \in AllowedRoles[op]})]
  \o <<Step("review", "risk_contrarian", 0, AllContexts(n), {}),
       Step("review", "evidence_critic", 0, AllContexts(n) \cup {n + 1}, {}),
       Step("synthesis", "final", 0, {n + 1, n + 2}, {})>>

\* What is reached from nothing, one layer of steps at a time: all of an acyclic plan.
Ready(plan, before) == before \cup {i \in DOMAIN plan : plan[i].deps \subseteq before}
Acyclic(plan) ==
  LET done[n \in 0 .. Len(plan)] == IF n = 0 THEN {} ELSE Ready(plan, done[n - 1])
  IN done[Len(plan)] = DOMAIN plan

\* ValidateResearchPlan
OfKind(plan, kind) == {i \in DOMAIN plan : plan[i].kind = kind}
ValidPlan(plan) ==
  /\ Cardinality(OfKind(plan, "context")) <= MaxContexts
  /\ Cardinality(OfKind(plan, "synthesis")) = 1
  /\ \A i \in OfKind(plan, "synthesis") : plan[i].calls = {}
  /\ \A i \in OfKind(plan, "context") :
       /\ plan[i].wave \in 1 .. 4
       /\ Cardinality({j \in OfKind(plan, "context") : plan[j].wave = plan[i].wave}) <= MaxParallel
       /\ \A j \in plan[i].deps \cap OfKind(plan, "context") : plan[j].wave < plan[i].wave
  /\ \A i \in DOMAIN plan : plan[i].deps \subseteq DOMAIN plan
  /\ Acyclic(plan)

--------------------------------------------------------------------------------
Idle == [status |-> "idle"]
Nobody == [entities |-> {}]
Refused(why) == [status |-> "refused", why |-> why]

\* Build, once the roles and the calculations are known.
PlanBuilt(request, plan) ==
  IF ValidPlan(plan) THEN [status |-> "planned", request |-> request, plan |-> plan]
  ELSE Refused("invalid_plan")
PlanOf(q, request) ==
  IF ClarifyFirst(q) \/ request.ambiguous THEN Refused("clarification_required")
  ELSE PlanBuilt(request, Steps(ContextRoles(q, request), Detected(q)))

BindAndBuild(q, request) ==
  IF ~Governed(request) THEN Refused("authority")
  ELSE PlanOf(q, [request EXCEPT !.authority = AuthorityState(request)])

RunOf(q, now, parent) ==
  IF InterpretQuestion(q) = {} THEN Refused("ambiguous_intent")
  ELSE LET intent == CHOOSE i \in InterpretQuestion(q) : TRUE
       IN BindAndBuild(q, RequestOf(q, intent, now, parent))

ConversationInit == talk = [now |-> 0, parent |-> Nobody, run |-> Idle]

AskQuestion ==
  /\ talk.run = Idle
  /\ \E q \in Questions : talk' = [talk EXCEPT !.run = RunOf(q, talk.now, Nobody)]

FollowUp ==
  /\ talk.run = Idle /\ talk.parent # Nobody
  /\ \E q \in FollowUpQuestions : talk' = [talk EXCEPT !.run = RunOf(q, talk.now, talk.parent)]

\* A planned run is answered and can be followed up, or fails like a refused one.
Scope(request) ==
  [entities |-> request.entities, period |-> request.period, asOf |-> request.asOf,
   comparison |-> request.comparison]
Answered ==
  /\ talk.run.status = "planned"
  /\ talk' = [talk EXCEPT !.parent = Scope(talk.run.request), !.run = Idle]
Fails ==
  /\ talk.run # Idle
  /\ talk' = [talk EXCEPT !.run = Idle]

YearPasses ==
  /\ talk.run = Idle /\ talk.now < MaxYear
  /\ talk' = [talk EXCEPT !.now = @ + 1]

ConversationNext == AskQuestion \/ FollowUp \/ Answered \/ Fails \/ YearPasses
ConversationSpec == ConversationInit /\ [][ConversationNext]_talk

--------------------------------------------------------------------------------
Planned == talk.run.status = "planned"

\* No run is planned for a period that has not happened: whatever a follow-up
\* inherits was allowed when its ancestor asked for it, and what it says itself is
\* checked against the present, even when the run is as of its ancestor's date
\* (ParseDeterministic, ResolvePeriod).  Nor is a run as of a date to come.
NothingFromTheFuture ==
  Planned =>
    LET r == talk.run.request IN
    /\ r.period.kind = "range" => r.period.year <= talk.now
    /\ r.period.kind = "fiscal_year" => r.period.year <= talk.now + 1
    /\ r.asOf <= talk.now

\* A peer run compares the two companies it is about, through any chain of
\* follow-ups that name other companies, other words or none, and is ready to
\* compare only a promoted pair (ParseDeterministic, BindRequestAuthority).
PeersAreCompared ==
  Planned /\ talk.run.request.comparison.mode = "peer" =>
    LET r == talk.run.request IN
    /\ r.comparison.companies = r.entities /\ Cardinality(r.entities) = 2
    /\ r.authority = "comparison_ready" => PairPromoted(r.comparison.companies)

\* A run is about what was asked: of the two above, a chain of follow-ups can break
\* either (ParseDeterministic, ResolvePeriod, BindRequestAuthority).
RunsAreAsAsked == NothingFromTheFuture /\ PeersAreCompared

\* The roles without a claim of which the answer's section is refused
\* (validateDecisionSemanticAuthority of the synthesizer).
Demands(output, intent) ==
  CASE output = "transmission_mechanisms" -> {"economics"}
    [] output = "comparison" -> {"business", "accounting", "quality"}
    [] output = "market_measurement" -> {"market"}
    [] output = "scenarios" -> IF intent = "economic_transmission" THEN {"economics"} ELSE {"valuation"}
    [] OTHER -> {}

\* Every planned run can end with its answer: the roles whose claims the synthesizer
\* demands for a section are in the plan, whatever words chose its route, and the
\* synthesis comes after every other step (Build, ensureOutputAuthority).
PlansCarryAuthority ==
  Planned =>
    LET plan == talk.run.plan
        r == talk.run.request
        last == Len(plan)
    IN /\ \A output \in r.outputs :
            Demands(output, r.intent) \subseteq {plan[i].role : i \in OfKind(plan, "context")}
       /\ plan[last].kind = "synthesis"
       /\ \A i \in 1 .. last - 1 : \E j \in i + 1 .. last : i \in plan[j].deps

\* No question is refused for the plan that was built for it: however many roles its words
\* and its sections bring together, they fit the steps and the waves the validator allows,
\* and no step waits for one of its own wave or for itself (Build, ValidateResearchPlan).
BuiltPlansAreValid == talk.run.status = "refused" => talk.run.why # "invalid_plan"

\* A question that is not refused for what it asks can be answered: of the two above, the
\* roles that words and sections bring together can break either (Build).
QuestionsCanBeAnswered == PlansCarryAuthority /\ BuiltPlansAreValid
=============================================================================
