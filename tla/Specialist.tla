------------------------------ MODULE Specialist ------------------------------
(***************************************************************************)
(* The specialist adapter (internal/localagent/adapter.go): it loads       *)
(* authorized material for a role, asks the local model for claims about   *)
(* it, and builds the context packet out of what the model said and of     *)
(* what Go says itself.  A claim that breaks a rule is quarantined on its  *)
(* own, Go states the numbers, and a packet that fails the final contract  *)
(* is refused whole.  How far a claim is judged depends on its origin, a   *)
(* field of the answer that Go decodes as it comes.                        *)
(* Prose is abstracted to what the guards read off it (a claim's flaw, an  *)
(* item's wording); a reference is the item, number or receipt it names.   *)
(***************************************************************************)
EXTENDS Integers, FiniteSets

VARIABLE desk    \* one specialist job and where it stands

SpecialistRoles ==
  {"accounting_reporting", "financial_quality", "business_strategy",
   "market_behavior", "economics_transmission", "valuation"}

\* Evidence by what the adapter makes of it; wording is what its text holds:
\* an instruction to the model, or language no fact may use.
Items ==
  [source : {"filing", "business_section", "risk_section", "accounting_policy",
             "scope_policy", "comparison", "exchange_close"},
   state : {"available", "incomparable"},
   wording : {"plain", "instruction", "overreach"}]

\* Nothing numerical, a required valuation receipt no variable stands for, a
\* variable on its own, or two related variables.
Numerics == {"none", "unrendered", "lone", "comparable", "incomparable"}

Materials == [items : {{}} \cup {{i} : i \in Items}, numeric : Numerics]

\* What a claim may cite: material, an invention, a listed assumption.
\* Every number has its receipt, which bears its name.
Numbers(m) ==
  CASE m.numeric \in {"none", "unrendered"} -> {}
    [] m.numeric = "lone" -> {"lone"}
    [] OTHER -> {"left", "right", "relation"}
Receipts(m) == IF m.numeric = "unrendered" THEN {"valuation"} ELSE Numbers(m)
Stated(m) == Numbers(m) \ {"left", "right"}
Listed == {"stated assumption"}
Fabricated == [source |-> "invented", state |-> "available", wording |-> "plain"]

Claim(type, origin, evidence, receipts, numbers, assumptions, flaw) ==
  [type |-> type, origin |-> origin, evidence |-> evidence, receipts |-> receipts,
   numbers |-> numbers, assumptions |-> assumptions, flaw |-> flaw]

\* What stands in a claim's origin: nothing, one of the two that Go writes, or
\* anything else.  The schema asked for has no such field; the decoder takes it.
Origins == {"model", "deterministic", "source_extraction", "unsupported"}

\* What may be wrong with a claim's statement.  A direction is worded so that the
\* first of the two guards below reads it, a comparison so that the second
\* does, an ordering so that both do; an overreach is one under any origin.
Wordings == {"none", "direction", "comparison", "ordering", "unreadable", "overreach"}

\* One well-formed claim of each type over material m, and what is wrong with
\* one of them in a single respect, under any origin.
Sound(m) ==
  {Claim("fact", "model", m.items, {}, {}, {}, "none"),
   Claim("calculation", "model", {}, Receipts(m), Stated(m), {}, "none"),
   Claim("inference", "model", m.items, {}, Numbers(m), Listed, "none"),
   Claim("hypothesis", "model", {}, {}, {}, Listed, "none")}
ModelClaims(m) ==
  UNION {{c} \cup {[c EXCEPT !.evidence = e] : e \in {{}, {Fabricated}, m.items}}
             \cup {[c EXCEPT !.receipts = r] : r \in {{}, {"invented"}}}
             \cup {[c EXCEPT !.numbers = n] : n \in {{}, {"invented"}, Numbers(m) \ {"lone"}}}
             \cup {[c EXCEPT !.assumptions = a] : a \in {{}, {"unlisted"}}}
             \cup {[c EXCEPT !.flaw = f] : f \in Wordings} :
           c \in {[c EXCEPT !.origin = o] : c \in Sound(m), o \in Origins}}

\* An answer: at most one claim is enough, because each is judged alone; a
\* blank string may stand among its conflicts or assumptions.
Drafts(m) ==
  [claims : {{}} \cup {{c} : c \in ModelClaims(m)}, blank : BOOLEAN]

-----------------------------------------------------------------------------
(* What the model's claims go through, in this order.                      *)

Poisoned(i) == i.wording = "instruction"
Authorized(m) == {i \in m.items : ~Poisoned(i) /\ i.state = "available"}

\* dropUnavailableOnlyFindings: nothing but missing or incomparable support.
KeepSupported(claims, m) ==
  {c \in claims :
     \/ c.evidence \cap (m.items \ Authorized(m)) = {}
     \/ c.evidence \cap Authorized(m) # {}
     \/ c.receipts # {}}

\* expandFindingNumericalRelations: a side of a relation stands for it.
Expanded(claims, m) ==
  {IF "relation" \in Numbers(m) /\ c.numbers \cap {"left", "right"} # {}
   THEN [c EXCEPT !.numbers = (@ \ {"left", "right"}) \cup {"relation"}] ELSE c :
     c \in claims}

\* quarantineModelOwnedNumericalDirections
KeepUndirected(claims) ==
  {c \in claims : c.origin = "deterministic" \/ c.flaw \notin {"direction", "ordering"}}

\* quarantineIncomparableDirections
KeepComparable(claims, m) ==
  {c \in claims : ~ (/\ m.numeric = "incomparable" /\ "relation" \in c.numbers
                     /\ c.flaw \in {"comparison", "ordering"})}

\* normalizeOptionalAssumptionRefs: only an inference must mean them.
OptionalAssumptions(claims) ==
  {IF c.type = "inference" THEN c ELSE [c EXCEPT !.assumptions = @ \cap Listed] :
     c \in claims}

\* structuralClaimReason: readable, and supported as its type demands.
Supported(c) ==
  LET figures == c.receipts \cup c.numbers
  IN  CASE c.type = "fact" -> c.evidence # {}
        [] c.type = "calculation" -> c.receipts # {}
        [] c.type = "inference" ->
             (c.evidence # {} \/ figures # {}) /\ c.assumptions # {}
        [] c.type = "hypothesis" -> c.evidence # {} \/ figures \cup c.assumptions # {}
KeepWellFormed(claims) == {c \in claims : c.flaw # "unreadable" /\ Supported(c)}

KeepCited(claims, m) ==                             \* mutant of KeepAuthorized
  {c \in claims : c.evidence \subseteq Authorized(m) /\ c.receipts \subseteq Receipts(m)}
\* quarantineUnauthorizedClaims
KeepAuthorized(claims, m) ==
  {c \in claims : /\ c.evidence \subseteq Authorized(m)
                  /\ c.receipts \subseteq Receipts(m) /\ c.numbers \subseteq Numbers(m)
                  /\ c.assumptions \subseteq Listed}

Screened(claims, m) ==
  LET shaped == OptionalAssumptions(KeepComparable(KeepUndirected(
                  Expanded(KeepSupported(claims, m), m)), m))
  IN  KeepAuthorized(KeepWellFormed(shaped), m)

-----------------------------------------------------------------------------
(* What Go adds.                                                           *)

Extract(i) == Claim("fact", "source_extraction", {i}, {}, {}, {}, "none")
\* A quotation carries the wording of its source.
Quote(i) ==
  IF i.wording = "overreach" THEN [Extract(i) EXCEPT !.flaw = "overreach"] ELSE Extract(i)

\* appendSourceBackedRiskCounterevidence and appendSourceBackedBusinessFacts
SectionFacts(role, m) ==
  {Quote(i) : i \in {i \in Authorized(m) :
     role = "business_strategy" /\ i.source \in {"business_section", "risk_section"}}}

\* appendScopeBoundaryFindings and appendFinancialQualityComparisonBoundaryFindings
BoundaryItems(m) ==
  {i \in m.items : i.source = "comparison" /\ i.state = "incomparable"}
BoundaryFacts(role, m) ==
  {Extract(i) : i \in {i \in BoundaryItems(m) :
     role \in {"accounting_reporting", "financial_quality"}}}

\* appendAccountingAuthorityFindings and appendGovernedAbstentionFindings
PolicyFacts(role, m) ==
  {Quote(i) : i \in {i \in m.items :
     /\ i.state = "available"
     /\ \/ i.source = "accounting_policy" /\ role = "accounting_reporting"
        \/ i.source = "scope_policy"}}

\* appendMarketPriceFindings
PriceFacts(role, m) ==
  {Extract(i) : i \in {i \in m.items :
     role = "market_behavior" /\ i.source = "exchange_close" /\ i.state = "available"}}

\* appendCanonicalTransmissionHypotheses, when the request states assumptions
Hypotheses(role, stated) ==
  IF role = "economics_transmission" /\ stated
  THEN {Claim("hypothesis", "model", {}, {}, {}, Listed, "none")} ELSE {}

\* appendDeterministicNumericalVariableFindings and ...RelationFindings: what
\* no deterministic finding states yet.
NumberFact(n) == Claim("calculation", "deterministic", {}, {n}, {n}, {}, "none")
NumberFactsUnused(claims, m) ==                     \* mutant of NumberFacts
  {NumberFact(n) : n \in Stated(m) \ UNION {c.numbers : c \in claims}}
NumberFacts(claims, m) ==
  {NumberFact(n) :
     n \in Stated(m) \ UNION {c.numbers : c \in {c \in claims : c.origin = "deterministic"}}}

\* appendMissingValuationReceiptFindings
ReceiptFacts(claims, role, m) ==
  {Claim("calculation", "deterministic", {}, {r}, {}, {}, "none") :
     r \in {r \in Receipts(m) : /\ role = "valuation" /\ r = "valuation"
                               /\ \A c \in claims :
                                    c.origin = "deterministic" => r \notin c.receipts}}

WithGo(claims, role, m, stated) ==
  LET said == claims \cup SectionFacts(role, m) \cup BoundaryFacts(role, m)
                \cup PolicyFacts(role, m) \cup PriceFacts(role, m)
                \cup Hypotheses(role, stated)
      counted == said \cup NumberFacts(said, m)
  IN  counted \cup ReceiptFacts(counted, role, m)

-----------------------------------------------------------------------------
(* The final contract.                                                     *)

\* validateSpecialistSemantics
Overreaches(c) == c.flaw = "overreach"

\* quarantineModelSemanticViolations spares what has an origin of Go's.
KeepModest(claims) ==
  {c \in claims : c.origin \in {"deterministic", "source_extraction"} \/ ~Overreaches(c)}

\* validateFinding: an origin goes with one type of claim.
OriginFits(c) ==
  \/ c.origin = "model"
  \/ c.origin = "deterministic" /\ c.type = "calculation"
  \/ c.origin = "source_extraction" /\ c.type = "fact"

\* authorizePacketReferences: the boundary of a comparison is only quoted.
Citable(c, m) ==
  /\ c.evidence \subseteq Authorized(m) \cup
       (IF c.origin = "source_extraction"
        THEN {i \in BoundaryItems(m) : ~Poisoned(i)} ELSE {})
  /\ c.receipts \subseteq Receipts(m) /\ c.numbers \subseteq Numbers(m)
  /\ c.assumptions \subseteq Listed

\* buildContextPacket, with ValidateContextPacket: refused whole, or the claims.
Built(answer, job) ==
  LET m == job.material
      claims == KeepModest(WithGo(Screened(answer.claims, m), job.role, m, job.stated))
  IN  [refused |-> \/ answer.blank
                   \/ \E c \in claims : \/ ~Citable(c, m) \/ ~Supported(c)
                                        \/ ~OriginFits(c) \/ Overreaches(c),
       claims |-> claims]

\* deterministicRecoveryHasRoleAuthority
CarriesAuthority(c, role, m) ==
  CASE role = "business_strategy" -> \E i \in c.evidence : i.source = "business_section"
    [] role = "accounting_reporting" ->
         \E i \in c.evidence : i.source = "accounting_policy" \/ i \in BoundaryItems(m)
    [] role = "financial_quality" ->
         \/ c.origin = "deterministic" /\ c.numbers # {}
         \/ /\ c.origin = "source_extraction" /\ c.evidence # {}
            /\ c.evidence \subseteq BoundaryItems(m)
    [] role = "valuation" -> "valuation" \in c.receipts
    [] role = "economics_transmission" -> c.type = "hypothesis" /\ c.assumptions # {}
    [] role = "market_behavior" -> \E i \in c.evidence : i.source = "exchange_close"

\* deterministicRecoveryPacket: the packet of an answer that says nothing.
Silence == [claims |-> {}, blank |-> FALSE]
Recovery(job) == Built(Silence, job)
Recovers(job) ==
  /\ ~Recovery(job).refused
  /\ \E c \in Recovery(job).claims : CarriesAuthority(c, job.role, job.material)

-----------------------------------------------------------------------------
(* One job: Run and RunObservedAttempt.                                    *)

SpecialistInit ==
  desk = [stage |-> "idle"]

\* The orchestrator asks; validateMaterial may turn the material away.
Assign ==
  /\ desk.stage = "idle"
  /\ \E role \in SpecialistRoles, m \in Materials, stated \in BOOLEAN :
       /\ stated => role = "economics_transmission"
       /\ desk' = [stage |-> "asking", role |-> role, material |-> m, stated |-> stated,
                   attempt |-> 0, asked |-> 1, answer |-> Silence, packet |-> {}]

Fail(how) == desk' = [desk EXCEPT !.stage = how]
Deliver(answer, claims) ==
  desk' = [desk EXCEPT !.stage = "packet", !.answer = answer, !.packet = claims]
RecoverOr(otherwise) ==
  IF Recovers(desk) THEN Deliver(Silence, Recovery(desk).claims) ELSE otherwise

\* The material does not load, or is not the request's.
LoadFails == desk.stage = "asking" /\ desk.asked = 1 /\ Fail("failed")

\* complete fails; a cancelled or late run is not recovered, and the single
\* truncation retry has nothing to fall back on.  The error may be one the
\* orchestrator tries again.
CompletionFails ==
  /\ desk.stage = "asking"
  /\ \/ Fail("failed")
     \/ \E again \in {"failed", "retryable"} :
          IF desk.asked = 1 THEN RecoverOr(Fail(again)) ELSE Fail(again)

\* The answer is cut off: recover, or ask once more under the small schema.
AnswerTruncated ==
  /\ desk.stage = "asking"
  /\ IF desk.asked = 1 THEN RecoverOr(desk' = [desk EXCEPT !.asked = 2]) ELSE Fail("failed")

\* decodeJSONObject refuses it for another reason.
AnswerMalformed == desk.stage = "asking" /\ Fail("failed")

AnswerArrives ==
  /\ desk.stage = "asking"
  /\ \E answer \in Drafts(desk.material) :
       LET built == Built(answer, desk)
       IN  IF built.refused THEN desk' = [desk EXCEPT !.stage = "refused", !.answer = answer]
           ELSE IF desk.role # "financial_quality" \/ built.claims # {}
           THEN Deliver(answer, built.claims)
           ELSE IF desk.attempt = 0 THEN Fail("retryable")
           ELSE RecoverOr(Fail("failed"))

\* The orchestrator retries a temporary failure once.
TryAgain ==
  /\ desk.stage = "retryable" /\ desk.attempt = 0
  /\ desk' = [desk EXCEPT !.stage = "asking", !.attempt = 1, !.asked = 1]

SpecialistNext ==
  \/ Assign \/ LoadFails \/ CompletionFails \/ AnswerTruncated \/ AnswerMalformed
  \/ AnswerArrives \/ TryAgain

SpecialistSpec == SpecialistInit /\ [][SpecialistNext]_desk

-----------------------------------------------------------------------------
(* Properties.                                                             *)

\* A claim that sinks the packet it is in: it bears an origin of Go's, or none
\* there is, and its type or its statement does not bear that out.
Misattributed(c) == c.origin # "model" /\ (~OriginFits(c) \/ Overreaches(c))

\* What the model says costs the model's claims only: a packet is refused as
\* a whole because material Go quotes itself is poisoned or overreaches,
\* because a blank stands in a list, or because a claim of the answer names an
\* origin that it does not live up to; never for what a claim cites, lacks or
\* words amiss without one (buildContextPacket and its quarantines).
RefusedForCause ==
  desk.stage = "refused" =>
    \/ desk.answer.blank
    \/ \E i \in desk.material.items : i.wording # "plain"
    \/ \E c \in desk.answer.claims : Misattributed(c)

\* A claim of the answer, past the quarantines, stands in for Go's own.
StandsIn(n) ==
  \E c \in Screened(desk.answer.claims, desk.material) \cap desk.packet :
    c.origin = "deterministic" /\ n \in c.numbers

\* Each relation and each variable outside one is stated by Go, whatever the
\* model said of them or left unsaid, unless a claim under the engine's origin
\* already cites it in the packet.  Only such a claim may order quantities, and
\* none at all, whatever its origin, compares an incomparable pair
\* (appendDeterministicNumerical...Findings, the quarantines of directions).
GoSpeaksForNumbers ==
  desk.stage = "packet" =>
    /\ \A n \in Stated(desk.material) : NumberFact(n) \in desk.packet \/ StandsIn(n)
    /\ \A c \in desk.packet :
         /\ c.origin # "deterministic" => c.flaw \notin {"direction", "ordering"}
         /\ ~ (/\ c.flaw \in {"comparison", "ordering"}
               /\ desk.material.numeric = "incomparable" /\ c.numbers # {})
=============================================================================
