------------------------------- MODULE Promotion -------------------------------
(***************************************************************************)
(* How a company or a peer lane gets the authority a request is served     *)
(* with.  Evaluations write their summaries; a named person accepts one    *)
(* exact set of them (signalforge-create-release-decision);                *)
(* signalforge-promote-technology20 turns base artifacts and a decision    *)
(* into a catalog and a peer suite, two files that it replaces one after   *)
(* the other and may die between; the server loads both at its start, one  *)
(* after the other, and binds every request to them.                       *)
(*                                                                         *)
(* Hashes are modelled by what they stand for: a summary is its results, a *)
(* decision its number.  The manifest, the third output, is read by none   *)
(* of these programs and left out.                                         *)
(***************************************************************************)
EXTENDS Naturals, Sequences, FiniteSetsExt, Functions

CONSTANT MaxDecisions   \* how often a reviewer decides, a bound of the exploration

VARIABLE release

Companies == {"microsoft", "alphabet", "oracle"}
Lanes == {{"microsoft", "alphabet"}, {"oracle", "microsoft"}}

\* The cases of an evaluation: how often each company and lane was asked about, where
\* once stands for the number its group is to have, and about which company a case failed.
Once(subjects) == [s \in subjects |-> 1]
Cases ==
  {[companies |-> c, lanes |-> l, failed |-> {}] :
     c \in {Once(Companies), [Once(Companies) EXCEPT !["microsoft"] = 2, !["oracle"] = 0]},
     l \in {Once(Lanes), [lane \in Lanes |-> IF "oracle" \in lane THEN 0 ELSE 2]}}
  \cup {[companies |-> Once(Companies), lanes |-> Once(Lanes), failed |-> {"oracle"}]}

\* A summary, and what promotion asks of it: it is sound if the cases are as many as
\* expected and none failed, whoever they are about; a group passed if it has its own.
Summarize(cases) ==
  LET Asked(groups) == SumFunction(groups)
      Passed(groups, failed) == {s \in DOMAIN groups : groups[s] = 1} \ failed
  IN  [sound |-> /\ Asked(cases.companies) = Cardinality(Companies)
                 /\ Asked(cases.lanes) = Cardinality(Lanes)
                 /\ cases.failed = {},
       companies |-> Passed(cases.companies, cases.failed),
       lanes |-> Passed(cases.lanes, {})]

Evaluations == {Summarize(cases) : cases \in Cases}

\* The catalog and the peer suite; without a decision nothing is enabled.
Base == [catalog |-> [decision |-> 0, companies |-> {}, lanes |-> {}],
         peers |-> [decision |-> 0, lanes |-> {}]]

\* ValidateReleaseAlignment: the evidence of an enabled lane names its decision.
Unaligned(catalog, peers) == TRUE                                  \* mutant of Aligned
Aligned(catalog, peers) ==
  /\ catalog.decision = peers.decision
  /\ catalog.lanes = peers.lanes

--------------------------------------------------------------------------------
\* PromoteTechnology20: what passed is enabled, everything else is disabled, whatever
\* the input said.
PassedLanes(evaluation) == {lane \in evaluation.lanes : lane \subseteq evaluation.companies}

KeepingPromoted(input, d, evaluation) ==                          \* mutant of Promoted
  [catalog |-> [decision |-> d, companies |-> input.catalog.companies \cup evaluation.companies,
                lanes |-> PassedLanes(evaluation)],
   peers |-> [decision |-> d, lanes |-> PassedLanes(evaluation)]]
Promoted(input, d, evaluation) ==
  [catalog |-> [decision |-> d, companies |-> evaluation.companies,
                lanes |-> PassedLanes(evaluation)],
   peers |-> [decision |-> d, lanes |-> PassedLanes(evaluation)]]

LooselyPromotable(input, d) ==                                  \* mutant of Promotable
  Aligned(input.catalog, input.peers) /\ release.summaries.sound
Promotable(input, d) ==
  /\ Aligned(input.catalog, input.peers)
  /\ release.reviewed[d] = release.summaries
  /\ release.summaries.sound

Outputs == [catalog |-> release.catalog, peers |-> release.peers]

--------------------------------------------------------------------------------
PromotionInit ==
  \E evaluation \in Evaluations :
    release = [summaries |-> evaluation, reviewed |-> << >>,
               catalog |-> Base.catalog, peers |-> Base.peers,
               unwritten |-> << >>, loaded |-> << >>]

\* The models are evaluated again.
Reevaluate ==
  \E evaluation \in Evaluations \ {release.summaries} :
    release' = [release EXCEPT !.summaries = evaluation]

\* A reviewer accepts the summaries as they are.
Decide ==
  /\ Len(release.reviewed) < MaxDecisions
  /\ release' = [release EXCEPT !.reviewed = Append(@, release.summaries)]

\* From the base artifacts or the last outputs.
Promote ==
  /\ release.unwritten = << >>
  /\ \E d \in DOMAIN release.reviewed, input \in {Base, Outputs} :
       /\ Promotable(input, d)
       /\ LET promoted == Promoted(input, d, release.summaries)
          IN  release' = [release EXCEPT !.unwritten = <<promoted.catalog, promoted.peers>>]

WriteCatalog ==
  /\ Len(release.unwritten) = 2
  /\ release' = [release EXCEPT !.catalog = Head(release.unwritten), !.unwritten = Tail(@)]

WritePeers ==
  /\ Len(release.unwritten) = 1
  /\ release' = [release EXCEPT !.peers = Head(release.unwritten), !.unwritten = << >>]

\* The command dies before its next write.
Die ==
  /\ release.unwritten # << >>
  /\ release' = [release EXCEPT !.unwritten = << >>]

\* The server starts, again if it ran.
LoadCatalog ==
  /\ Len(release.loaded) # 1
  /\ release' = [release EXCEPT !.loaded = <<release.catalog>>]

LoadPeers ==
  /\ Len(release.loaded) = 1
  /\ release' = [release EXCEPT !.loaded = Append(@, release.peers)]

PromotionNext ==
  \/ Reevaluate
  \/ Decide
  \/ Promote
  \/ WriteCatalog
  \/ WritePeers
  \/ Die
  \/ LoadCatalog
  \/ LoadPeers

PromotionSpec == PromotionInit /\ [][PromotionNext]_release

--------------------------------------------------------------------------------
\* BindRequestAuthority: what a request about these companies is served with.
Authority(companies) ==
  LET catalog == release.loaded[1]
      peers == release.loaded[2]
  IN  CASE ~Aligned(catalog, peers) -> "refused"
        [] Aligned(catalog, peers) /\ Cardinality(companies) = 2 ->
             IF companies \in peers.lanes THEN "comparison_ready" ELSE "limited"
        [] OTHER -> IF companies \subseteq catalog.companies THEN "research_ready" ELSE "data_ready"

\* Authority is what one person accepted: a company or a pair is served as ready only if
\* it passed the very evaluation reviewed for the decision the loaded catalog carries,
\* whatever was evaluated, promoted, half written or loaded since
\* (PromoteTechnology20, ValidateReleaseAlignment, BindRequestAuthority).
AuthorityIsPromoted ==
  Len(release.loaded) = 2 =>
    \A companies \in SUBSET Companies :
      LET d == release.loaded[1].decision
          ready == CASE Cardinality(companies) = 1 -> Authority(companies) = "research_ready"
                     [] Cardinality(companies) = 2 -> Authority(companies) = "comparison_ready"
                     [] OTHER -> FALSE
      IN  ready => /\ d # 0 /\ release.reviewed[d].sound
                   /\ companies \subseteq release.reviewed[d].companies
                   /\ Cardinality(companies) = 2 => companies \in release.reviewed[d].lanes
=============================================================================
