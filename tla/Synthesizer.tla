------------------------------ MODULE Synthesizer ------------------------------
(***************************************************************************)
(* The synthesizer adapter (internal/localagent/synthesis.go and           *)
(* numerical_silence.go): it asks the model for the sections of the final  *)
(* answer, repairs what Go owns in the draft, refuses what it cannot       *)
(* repair, and asks once more.                                             *)
(* The text of a section is the set of the kinds of its sentences; a       *)
(* limitation is one sentence.  Titles are read as part of the text.       *)
(***************************************************************************)
EXTENDS Integers, SequencesExt

CONSTANT EvidenceLimit   \* claims an evidence section cites; 8 in the code
VARIABLE writing         \* one synthesis, the model's draft and what Go made of it

\* RequiredFinalSections, which a parsed request asks for.
SectionsRequired ==
  [valuation |-> <<"assumptions", "valuation_range", "sensitivity", "evidence", "limitations">>,
   company_comparison |-> <<"comparison", "evidence", "limitations">>,
   economic_transmission |-> <<"transmission_mechanisms", "scenarios", "evidence", "limitations">>,
   market_behavior |-> <<"market_measurement", "evidence", "limitations">>,
   thesis_review |-> <<"thesis", "counterevidence", "invalidation_conditions", "evidence",
                       "limitations">>]
Intents == DOMAIN SectionsRequired

\* What the packets hold: a claim is supported by evidence, by a number or by
\* neither (a hypothesis), and may be held against the thesis.
Packets ==
  <<[role |-> "business", support |-> "evidence", about |-> "other", counter |-> FALSE, approved |-> TRUE],
    [role |-> "accounting", support |-> "evidence", about |-> "fiscal", counter |-> FALSE, approved |-> TRUE],
    [role |-> "quality", support |-> "number", about |-> "other", counter |-> FALSE, approved |-> TRUE],
    [role |-> "economics", support |-> "evidence", about |-> "macro", counter |-> FALSE, approved |-> TRUE],
    [role |-> "market", support |-> "number", about |-> "other", counter |-> FALSE, approved |-> TRUE],
    [role |-> "valuation", support |-> "number", about |-> "other", counter |-> TRUE, approved |-> TRUE]>>

\* One claim not approved by every review, or supported by nothing, or a second number.
PacketsOf ==
  {Packets, [Packets EXCEPT ![1].support = "number"]}
  \cup {[Packets EXCEPT ![i].approved = FALSE] : i \in DOMAIN Packets}
  \cup {[Packets EXCEPT ![i].support = "none"] : i \in {1, 4, 6}}

--------------------------------------------------------------------------------
(* What is approved, in the order of the packets (synthesisMaterialForPrompt). *)

Material == {i \in DOMAIN writing.packets : writing.packets[i].approved}
ClaimOf(i) == writing.packets[i]
First(test(_)) == {i \in Material : test(i) /\ \A j \in Material : test(j) => i <= j}
IsSupported(i) == ClaimOf(i).support # "none"
Numeric(i) == ClaimOf(i).support = "number"
By(role) == First(LAMBDA i : ClaimOf(i).role = role)
SupportedBy(role) == First(LAMBDA i : ClaimOf(i).role = role /\ IsSupported(i))
About(topic) == First(LAMBDA i : ClaimOf(i).about = topic /\ ClaimOf(i).support = "evidence")
Counters == {i \in Material : ClaimOf(i).counter}
FirstCounter == First(LAMBDA i : ClaimOf(i).counter)

\* balancedSupportedSynthesisClaimIDs: one claim of each role before the others.
Balanced ==
  LET supported == {i \in Material : IsSupported(i)}
      leaders == {i \in supported : \A j \in supported : ClaimOf(j).role = ClaimOf(i).role => i <= j}
      before(j, i) == IF (j \in leaders) = (i \in leaders) THEN j < i ELSE j \in leaders
  IN {i \in supported : Cardinality({j \in supported : before(j, i)}) < EvidenceLimit}

--------------------------------------------------------------------------------
(* What Go repairs.  A body is the sections in order and the limitations.  *)

EachSection(body, change(_)) == [body EXCEPT !.sections = [i \in DOMAIN @ |-> change(@[i])]]
Types(body) == [i \in DOMAIN body.sections |-> body.sections[i].type]
Of(body, type) == {k \in DOMAIN body.sections : body.sections[k].type = type}
Section(t, text, refs) == [type |-> t, text |-> text, refs |-> refs]
Cite(s, claims, sentences) == Section(s.type, s.text \cup sentences, s.refs \cup claims)
Opposing == {"counterevidence", "invalidation_conditions"}
Owned == {"evidence", "assumptions", "limitations"}

PlaceCounterevidence(body) ==
  EachSection(body, LAMBDA s :
    IF s.type \in Opposing /\ s.refs \cap Counters = {}
    THEN Cite(s, FirstCounter, {}) ELSE s)

\* placeRequiredSemanticAuthority: the claims a section must cite, with a sentence of Go's.
RequiredAuthority(type) ==
  CASE type = "comparison" -> By("business") \cup By("accounting") \cup By("quality") \cup About("fiscal")
    [] type = "transmission_mechanisms" ->
         By("economics") \cup About("macro") \cup SupportedBy("economics")
    [] type = "market_measurement" -> By("market")
    [] type \in {"valuation_range", "sensitivity"} -> SupportedBy("valuation")
    [] type = "scenarios" -> By("economics") \cup SupportedBy("economics") \cup About("macro")
    [] OTHER -> {}
GovernedTypes == {"comparison", "transmission_mechanisms", "market_measurement", "valuation_range",
             "sensitivity", "scenarios"}
PlaceAuthority(body) ==
  EachSection(body, LAMBDA s :
    IF s.type \in GovernedTypes THEN Cite(s, RequiredAuthority(s.type), {"plain"}) ELSE s)

\* Where a number may be shown, by the role that found it, the best place first.
Preference(role) ==
  CASE role = "valuation" -> <<"valuation_range", "sensitivity", "scenarios", "comparison", "thesis">>
    [] role \in {"quality", "accounting"} -> <<"comparison", "thesis", "scenarios">>
    [] role = "market" -> <<"market_measurement", "comparison", "thesis", "scenarios">>
    [] OTHER -> <<"comparison", "thesis", "scenarios">>

\* The evidence section is where numbers are listed too.
PresentsAnywhere(type) == type \notin {"assumptions", "limitations"}
Presents(type) == type \notin Owned \cup Opposing

PlaceNumbers(body) ==
  LET shown == UNION {s.refs : s \in {s \in ToSet(body.sections) : Presents(s.type)}}
      types == ToSet(Types(body))
      wanted(i) == Preference(ClaimOf(i).role)
      places(i) == {n \in DOMAIN wanted(i) : wanted(i)[n] \in types}
      placed == {i \in Material : Numeric(i) /\ i \notin shown /\ places(i) # {}}
      target(i) == Min(Of(body, wanted(i)[Min(places(i))]))
      placements == {<<i, target(i)>> : i \in placed}
  IN [body EXCEPT !.sections =
        [k \in DOMAIN @ |-> Cite(@[k], {i \in placed : <<i, k>> \in placements}, {})]]

NormalizeOwned(body) ==
  EachSection(body, LAMBDA s :
    CASE s.type = "evidence" -> Section(s.type, {"plain"}, Balanced)
      [] s.type \in {"assumptions", "limitations"} -> [s EXCEPT !.refs = {}]
      [] OTHER -> s)

\* A sentence that denies a calculation whose receipt exists goes.  What the
\* repair says instead names the operation by its internal identifier.
RepairAvailability(body) ==
  IF ~writing.receipts THEN body
  ELSE [EachSection(body, LAMBDA s :
          IF "denial" \in s.text THEN [s EXCEPT !.text = (@ \ {"denial"}) \cup {"operation"}] ELSE s)
        EXCEPT !.limitations = {IF l = "denial" THEN "plain" ELSE l : l \in @}]

Neutralized(text) == {IF t = "identifier" THEN "plain" ELSE t : t \in text}
NeutralizeReferences(body) ==
  [EachSection(body, LAMBDA s : [s EXCEPT !.text = Neutralized(@)])
   EXCEPT !.limitations = Neutralized(@)]

\* The boundary of a comparison is always one of its limitations.
ShowBoundary(body) ==
  IF writing.intent = "company_comparison" THEN [body EXCEPT !.limitations = @ \cup {"plain"}] ELSE body

NeutralizeCauses(body) ==
  EachSection(body, LAMBDA s :
    IF s.type \in {"transmission_mechanisms", "market_measurement"} /\ "cause" \in s.text
    THEN [s EXCEPT !.text = (@ \ {"cause"}) \cup {"plain"}] ELSE s)

\* The order the code runs them in, and one that forgets the internal names.
RepairedButNamed(body) ==
  NeutralizeCauses(ShowBoundary(RepairAvailability(NormalizeOwned(
    PlaceNumbers(PlaceAuthority(PlaceCounterevidence(body)))))))
Repaired(body) ==
  NeutralizeCauses(ShowBoundary(NeutralizeReferences(RepairAvailability(NormalizeOwned(
    PlaceNumbers(PlaceAuthority(PlaceCounterevidence(body))))))))

--------------------------------------------------------------------------------
(* The sections asked for, and the numbers the model must not state.       *)

SectionsAsked == SectionsRequired[writing.intent]
RequestedSet(body) == IsInjective(Types(body)) /\ ToSet(Types(body)) = ToSet(SectionsAsked)

\* repairApplicationOwnedSectionSet: sections of Go's that are missing are written anew.
Rebuildable(body) ==
  LET missing == ToSet(SectionsAsked) \ ToSet(Types(body))
  IN /\ ToSet(Types(body)) \subseteq ToSet(SectionsAsked)
     /\ missing # {} /\ missing \subseteq Owned
     /\ "evidence" \in missing => Balanced # {}
Rebuilt(body) ==
  LET own(t) == Section(t, {"plain"}, IF t = "evidence" THEN Balanced ELSE {})
  IN [body EXCEPT !.sections =
        [k \in DOMAIN SectionsAsked |->
           IF Of(body, SectionsAsked[k]) = {} THEN own(SectionsAsked[k])
           ELSE body.sections[Min(Of(body, SectionsAsked[k]))]]]
CompletedDraft(body) == IF ~RequestedSet(body) /\ Rebuildable(body) THEN Rebuilt(body) ELSE body

Silent(body) ==
  /\ \A s \in ToSet(body.sections) : "number" \notin s.text
  /\ "number" \notin body.limitations

\* repairAuthorizedNumericalDraft: a section that cites an approved claim loses its
\* sentences with numbers; the others cannot be repaired.
Silenceable(body) ==
  \A s \in ToSet(body.sections) :
    "number" \in s.text => s.refs \cap Material # {} \/ s.type \in {"assumptions", "limitations"}
OrPlain(text) == IF text = {} THEN {"plain"} ELSE text
Silenced(body) ==
  LET limitations == OrPlain(body.limitations \ {"number"})
      silence(s) == CASE s.type = "assumptions" -> Section(s.type, {"plain"}, {})
                      [] s.type = "limitations" -> Section(s.type, limitations, {})
                      [] s.type \notin {"assumptions", "limitations"} /\ "number" \in s.text ->
                           [s EXCEPT !.text = OrPlain(@ \ {"number"})]
                      [] OTHER -> s
  IN [EachSection(body, silence) EXCEPT !.limitations = limitations]
Quiet(body) == IF ~Silent(body) /\ Silenceable(body) THEN Silenced(body) ELSE body

--------------------------------------------------------------------------------
(* What is refused.                                                        *)

Cites(s, role) == \E i \in s.refs \cap Material : ClaimOf(i).role = role

\* validateRequiredDecisionSections and validateDecisionSemanticAuthority
Decisive(body) ==
  \A s \in ToSet(body.sections) :
    /\ s.type \in Opposing => /\ s.refs \cap Counters # {}
                              /\ s.text # {} /\ "vague" \notin s.text
    /\ s.type = "comparison" => \A r \in {"business", "accounting", "quality"} : Cites(s, r)
    /\ s.type \in {"transmission_mechanisms", "scenarios"} => Cites(s, "economics")
    /\ s.type = "market_measurement" => Cites(s, "market")
    /\ s.type \in {"transmission_mechanisms", "market_measurement"} => "cause" \notin s.text

\* validateResponsibleUse, validateModelOwnedNumericalAuthority,
\* validateReceiptAvailabilityClaims and validatePresentationQuality
Fit(body) ==
  LET sections == UNION {s.text : s \in ToSet(body.sections)}
      texts == sections \cup body.limitations
  IN /\ texts \cap {"advice", "identifier", "operation", "malformed"} = {}
     /\ "direction" \notin sections
     /\ writing.receipts => "denial" \notin texts

Prepared(body) == Quiet(CompletedDraft(Repaired(body)))
Accepted(body) == RequestedSet(body) /\ Silent(body) /\ Decisive(body) /\ Fit(body)

\* assembleFinalSections and synchronizeSemanticSections: the sections in the order
\* asked for, with Go's text in its own two.
Final(body) ==
  LET placed == PlaceNumbers(body)
      section(t) == placed.sections[Min(Of(placed, t))]
      own(s) == CASE s.type = "assumptions" -> Section(s.type, {"plain"}, {})
                  [] s.type = "limitations" -> Section(s.type, placed.limitations, {})
                  [] OTHER -> s
  IN [k \in DOMAIN SectionsAsked |-> own(section(SectionsAsked[k]))]

\* ValidateFinalAnswer, and the limitations an answer cannot do without.
Publishable(body) ==
  /\ body.limitations # {}
  /\ \A s \in ToSet(Final(body)) :
       s.text # {} /\ (s.refs # {} => \E i \in s.refs : IsSupported(i))

--------------------------------------------------------------------------------
(* Synthesize *)

DraftFlaws == {"number", "cause", "direction", "denial", "advice", "identifier", "malformed", "vague"}

\* A model's drafts: whole, or without a section, or with one twice or unasked for;
\* citing nothing, or one approved claim everywhere; one sentence may be flawed.
ModelDrafts ==
  LET whole(refs) == [k \in DOMAIN SectionsAsked |-> Section(SectionsAsked[k], {"plain"}, refs)]
      cited == {{}, {Min(Material)}, {Max(Material)}}
      shaped(refs) == {RemoveAt(whole(refs), k) : k \in DOMAIN SectionsAsked} \cup {whole(refs)}
                      \cup {Append(whole(refs), Section(t, {"plain"}, refs)) : t \in {SectionsAsked[1], "concept"}}
      flawed(refs) == {[whole(refs) EXCEPT ![k] = Section(SectionsAsked[k], t, refs)] :
                         k \in DOMAIN SectionsAsked, t \in {{}} \cup {{f} : f \in DraftFlaws}}
      draft(s, l) == [sections |-> s, limitations |-> l]
  IN {draft(s, l) : s \in UNION {shaped(refs) : refs \in cited},
                    l \in {{}, {"plain"}, {"number"}, {"denial"}}}
     \cup {draft(s, l) : s \in flawed({}) \cup flawed({Max(Material)}), l \in {{"plain"}, {"number"}}}

SynthesizerInit == writing = [stage |-> "idle"]

\* The critiques the runtime hands over all approve.
BeginSynthesis ==
  /\ writing.stage = "idle"
  /\ \E intent \in Intents, packets \in PacketsOf, receipts \in BOOLEAN :
       /\ ~receipts => packets = Packets
       /\ writing' = [stage |-> "asking", intent |-> intent, packets |-> packets,
                      receipts |-> receipts, asked |-> 1, body |-> << >>, final |-> << >>]

Turn(stage, asked, body, final) ==
  [stage |-> stage, intent |-> writing.intent, packets |-> writing.packets,
   receipts |-> writing.receipts, asked |-> asked, body |-> body, final |-> final]
SynthesisFails == writing' = Turn("failed", writing.asked, << >>, << >>)

\* complete fails, or what comes back is no JSON.
NoAnswer == writing.stage = "asking" /\ SynthesisFails

\* A truncated answer is asked for again with twice the room, once.
Truncated ==
  /\ writing.stage = "asking"
  /\ IF writing.asked = 1 THEN writing' = Turn("asking", 2, << >>, << >>) ELSE SynthesisFails

DraftArrives ==
  /\ writing.stage = "asking"
  /\ \E draft \in ModelDrafts :
       LET prepared == Prepared(draft)
           outcome == IF ~Accepted(prepared) THEN "refused"
                      ELSE IF ~Publishable(prepared) THEN "failed" ELSE "delivered"
       IN writing' = Turn(outcome, writing.asked, draft, prepared)

\* The single repair by the model of a refused draft.
AskOnceMore ==
  /\ writing.stage = "refused" /\ writing.asked = 1
  /\ writing' = Turn("asking", 2, << >>, << >>)

SynthesizerNext == BeginSynthesis \/ NoAnswer \/ Truncated \/ DraftArrives \/ AskOnceMore
SynthesizerSpec == SynthesizerInit /\ [][SynthesizerNext]_writing

--------------------------------------------------------------------------------
(* Properties *)

\* Every approved number that a section asked for can present is cited by such a
\* section of the answer, so that Go renders it there, however the draft spread its
\* citations and whatever Go rewrote since (placeApprovedNumericalClaims).
NumbersAreShown ==
  writing.stage = "delivered" =>
    \A i \in Material :
      Numeric(i) /\ ToSet(Preference(ClaimOf(i).role)) \cap ToSet(SectionsAsked) # {} =>
        \E s \in ToSet(Final(writing.final)) : s.type \notin Owned \cup Opposing /\ i \in s.refs

\* The claims a request cannot be answered without.
Answerable ==
  LET roles == {ClaimOf(i).role : i \in Material}
  IN CASE writing.intent = "company_comparison" -> {"business", "accounting", "quality"} \subseteq roles
       [] writing.intent = "economic_transmission" -> "economics" \in roles
       [] writing.intent = "market_behavior" -> "market" \in roles
       [] writing.intent = "thesis_review" -> Counters # {}
       [] OTHER -> TRUE

\* A draft whose only shortcomings are Go's to repair: it may omit Go's own sections,
\* cite nothing, and hold sentences of the given kinds.
OnlyShortOf(body, kinds) ==
  LET allowed(s) == {"plain"} \cup (IF s.type \in GovernedTypes \cup {"evidence"} THEN kinds ELSE {})
  IN /\ Answerable /\ Balanced # {}
     /\ IsInjective(Types(body))
     /\ ToSet(Types(body)) \subseteq ToSet(SectionsAsked)
     /\ ToSet(SectionsAsked) \ Owned \subseteq ToSet(Types(body))
     /\ body.limitations \subseteq {"plain"} \cup kinds
     /\ \A s \in ToSet(body.sections) : s.text # {} /\ s.text \subseteq allowed(s)
     /\ \A s \in ToSet(body.sections) : s.type \in GovernedTypes => RequiredAuthority(s.type) # {}

\* What Go can repair does not cost an inference: such a draft is not refused, so
\* no repair writes what a later check refuses, and none runs too late for it.
RepairsSuffice ==
  writing.stage = "refused" => ~OnlyShortOf(writing.body, {"number", "identifier"})

\* "Go removes only the contradictory sentence and records a neutral, receipt-backed
\* boundary" (the comment at repairReceiptAvailabilityClaims): a draft that denies a
\* calculation whose receipt exists is repaired, not refused.
DenialsAreRepaired ==
  writing.stage = "refused" => ~OnlyShortOf(writing.body, {"denial"})
=============================================================================
