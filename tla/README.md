# SignalForge in TLA+

SignalForge answers financial research questions with a team of language-model
roles that Go code plans, bounds, reviews and publishes. This directory holds
TLA+ specifications of the Go code that decides what may leave a run and what
clients are told about it, the TLC configurations that check them on small
instances, and TLAPS proofs of what matters most for every instance. Paths below
are relative to `src/`.

## The system

| Part | State it keeps | Operations | What is hard |
|---|---|---|---|
| Orchestrator, `internal/orchestrator/runtime.go` | one run: context, waves of specialists, packets, critiques, trace | `Run`, `runContextWaves`, `callSpecialist`, `runReview`, `runSynthesis`, `fail` | goroutines per batch, retries, repair and narrowing loops, cancellation and deadline at any moment |
| Report contract, `internal/contracts` | none | `ValidateResearchPlan`, `ValidateCritiqueReport` | what each side relies on |
| Reviewer adapter, `internal/localagent/review.go` | one attempt: the model's body, then a report | `Review` and six normalisation passes | order of the passes, omissions, contradictions, invented identifiers |
| Specialist adapter, `internal/localagent/adapter.go` | none | material, one model call, packet | quarantine, repair and refusal of each claim; numbers belong to Go |
| Synthesizer adapter, `internal/localagent/synthesis.go`, `numerical_silence.go` | none | draft, repairs, refusals, one retry | what one pass adds another one may refuse |
| Execution plan, `internal/executionplan/plan.go` | projection of a run: steps, phases, checks, sequence | `Apply`, `MarkCompleted`, `MarkFailed` | late and repeated events, one refused event, several writers of one step |
| Workspace server, `internal/workspace/server.go` | run records, semaphore, breaker, subscribers, event rings | create, execute, follow up, cancel, stream, evict, complete, fail, delete | one goroutine per run and per request, several lock sections per operation |
| Case store, `internal/casestore` | SQLite table of cases | `Save`, `Delete` | deletion against saving |
| Breaker, `internal/resilience` | failures, cooldown | `Allow`, `Success`, `Failure` | who reports what to it |
| Audit store, `internal/intelligenceaudit` | public and protected records, one file each | begin, append, finish, purge, expire, evict, reload | expiry, failing disk and restarts while runs write |
| Web client, `web/src/hooks` | run, plan, connection, timer | stream events, GET answers, timers | answers out of order, gaps, reconnects, two runs |
| Parser, router, scope, planner | none; a follow-up extends its parent's request | `ParseDeterministic`, `BindRequestAuthority`, `Build` | inheritance along chains of follow-ups, rules that disagree |
| Calculation engine, `internal/engine`, `internal/finance` | receipts | `Execute`, 80 operations, four searches | the same quantity by different formulas, boundaries, small samples |
| Filings to receipts, `internal/secparse`, `normalize`, `productscope` | frozen artefacts of each command | parse, normalize, authority, activation, comparison | amendments, comparatives, aliases, as-of dates |
| Promotion, `cmd/signalforge-promote-technology20` and others | two output files | evaluate, decide, promote, load | crash between two files, stale acceptance |
| Tools, retrieval, model client, scripts, presentation | mostly none | pure or offline | see "Not modelled" |

A request reaches `handleCreateRun`, which makes a run record and starts
`executeLive`. That goroutine waits for a slot, asks the breaker, and calls the
orchestrator, which calls back into the server through `runSink`: `AcceptPlan`
once, then `Emit` for every event of the trace, from whichever goroutine emits
it. `publishWithCommit` folds each event into the execution plan under the
server's lock. The orchestrator calls the specialist, reviewer and synthesizer
adapters, each call with a timeout under the run's context. When it returns,
`complete` or `fail` ends the record, exactly once. Other requests cancel the
run, stream its events or delete its case at any time.

What makes each part correct:

- the orchestrator: an answer cites only claims that every mandatory reviewer
  approved when it closed its review; a struck claim never returns; a dead
  context yields no answer; concurrency stays within its bound; the run ends;
- the adapter: whatever the model says, a report classifies every claim once, an
  objection stands, and what Go vouches for survives;
- plan and server: plan, view and run agree, steps that are over stay so, what a
  step says of its calls, checks and tools is what happened, and every run is
  reported to its clients;
- many runs: a live run is never evicted, a slot is given back on every path, a
  follow-up extends an answered run, the oldest is evicted first, and every run ends;
- the client: its plan belongs to the run it follows and never goes back; it
  learns the end of the run over a stream that breaks and loses events, unless
  its channel was full at the end or an answer about another run closed its stream;
- the audit store: what was purged or has expired stays erased through crashes
  and failing writes, and what may be left on disk is known;
- the specialist and the answer writer: numbers are stated by Go, or by a claim
  that passes for Go's, and every approved number is shown; a packet or draft is refused for a cause, and one
  that is short only of what Go repairs is not refused;
- conversations: no run is about a period that has not happened or compares other
  companies than it names, a planned run can end with its answer, and no question
  is refused for the plan that was built for it;
- calculations: operations that compute one quantity agree, a search keeps the
  answer between its bounds;
- filings: a receipt holds the last word of the filings at its date, and only
  comparable companies are ranked;
- promotion: the server serves nothing that did not pass the evaluation a person
  accepted.

## Modules

| Module | Models | Extends or instantiates |
|---|---|---|
| `ReleaseGate` | what a run promises about its answer, without its scheduling | |
| `CritiqueReports` | the reports an orchestrator can receive | |
| `Orchestrator` | `Runtime.Run` and all it calls | `CritiqueReports`; `ReleaseGate` by refinement |
| `OrchestratorProofs` | proofs of types, of the answer and of the refinement | `Orchestrator` |
| `OrchestratorFlowProofs` | proofs about waves, trace and dead contexts | `OrchestratorProofs` |
| `CritiqueBoundary` | one attempt of `Adapters.Review` | `CritiqueReports` |
| `CritiqueProofs` | proofs about the above and about `Synthesizer` | `CritiqueBoundary`, `Synthesizer` |
| `ExecutionPlan` | `Apply` and its helpers, phases included, as operators on a projection | |
| `LiveRun` | `executeLive`, publication, `complete`, `fail`, deletion | `Orchestrator`, `ExecutionPlan` |
| `LiveRunProofs` | proofs about the above | `LiveRun`, `OrchestratorFlowProofs` |
| `Activity` | attempts, routes, checks and tool steps of one step of the plan | `ExecutionPlan` |
| `Workspace` | many runs: slots, breaker, window, follow-ups, cancellation, readers | |
| `RunStream` | numbered events, ring, replay and channel of one reader | |
| `WorkspaceProofs` | proofs about `Workspace` | `Workspace` |
| `WebClient` | the hook and reducer that follow a run | `RunStream` |
| `WebClientProofs` | proofs about the above | `WebClient` |
| `AuditStore` | records, files, expiry, purge, eviction, crash, reload | |
| `AuditStoreProofs` | proofs about the above | `AuditStore` |
| `Specialist` | one attempt of the specialist adapter | |
| `Synthesizer` | one synthesis with its retry | |
| `Conversation` | question or follow-up, request, binding, plan | |
| `Decimals`, `Statements`, `Valuations`, `Samples` | the formulas of `internal/finance` | each the ones before it |
| `Dispatch`, `Engine`, `Books` | the operations, `Execute` with its searches, the requests checked | the formulas |
| `Filings`, `Activation`, `Peers` | filings and facts; authority and receipts; comparisons | each the one before it |
| `Promotion` | evaluation, decision, promotion, loading | |
| `ComponentProofs` | proofs about `Promotion`, `Specialist`, the filings, `Conversation` and `Activity` | `Promotion`, `Specialist`, `Peers`, `Conversation`, `Activity` |
| `MCOrchestrator`, `MCLiveRun`, `MCComponents` | the instances for TLC | |

`MCComponents` puts the components that share no state into one specification:
`subject` is drawn in the initial state, only the subject moves, and each
invariant is about one of them. It is a union of nine state spaces, not an
interleaving.

### Orchestrator

`phase` is the place of `Run` in its code; `step[i]` is what the goroutine of the
context step `i` has come to: `pending` (no goroutine yet), `spawned`, `calling`,
`skipped` (it found the context dead, and left no event), `ok`, `failed`. A batch
is spawned at once and joined before the next one (`wait.Wait`), and each
goroutine moves by itself, so TLC interleaves their events, retries and deaths.
The review loop of one reviewer lives in `reviewer`, `pass`, `working`,
`history`; what it returns goes to `packets`, `critiques` and `approved`.

Every run of the retry loop is `Call(n)`: the attempt and whether it was begun
under a live context. A call begun under a dead context can only fail, because
every adapter sends its request with the context it was given; one begun before
the context died may still answer. `Faults` are the failure codes of `classify`
with the verdict of `retryable`; a deadline is temporary, a cancellation is not.

Abstractions. A packet is the set of claim identifiers in it, a report the way
it classifies them: no decision of `Run` looks at anything else. Pruning the
evidence of a struck claim (`prunePacketReferences`) removes data that follows
the claim. A packet that narrowing leaves invalid is not modelled; a packet left
without claims is, and a reviewer asked about no claim at all fails.
`trace` keeps the events' step, type and status. The retrieval and tool events a
specialist may emit on the way are left out.

### CritiqueBoundary

The model's answer is any body: any decision, a missing one included, any claims
approved or rejected, invented ones included, and any issues. The six passes are
operators with the names of the Go functions. `Reports` in `CritiqueReports` is
what `Orchestrator` takes a reviewer's report to be; `ReportKeepsContract` states
that every report that leaves the adapter is one of them, so the two models meet
in a checked and proved interface, and not in an assumption.

### ExecutionPlan and LiveRun

A projection is its own status, the last sequence number and the status of every
step. `Effect` follows the body of `Apply`: plan acceptance, steps that absorb
late events, the per-type functions, failure of everything at once, retention
and the terminal event of the workspace. `LiveRun` runs the orchestrator
unchanged and publishes, in the same step, what that step appended to the trace:
an emitter calls the sink synchronously. `complete` is two actions, up to and
after `CaseStore.Save`, since the server's lock is free in between; the retention
event and the terminal commit that follow the save are merged, because nothing
another request can see distinguishes the state between them. Deleting a case is
three actions: the store's delete, and the two lock sections of
`markCaseDeleted` that publish and show it. A save that fails is taken to
leave no case, since it is one transaction of the store.

Admission is one action of `LiveRun`; `Workspace` has it in full. The queue's
timeout, an open breaker and a request that cannot be prepared all end in
`Refuse`. Events of single calls change no step status there: they are
`Activity`'s.

The eight phases clients see are computed from the steps (`PhaseStatus`).
`Apply` also refuses an event that leaves an invalid projection
(`validateStructure`); `PlanAgrees` states that none does.

### Activity

One step and its three writers: the adapter with its model calls, of which the
observer classifies each from the run record; the orchestrator, which reports
retrieval, tools and the end; and the fixture of a replayed case, whose
calculations create a step of their own. A remote specialist fails over to the
local one inside one attempt (`fallbackSpecialist`), is not observed, and is
told of from its packet. Retry and repair labels, details, reference lists and
their limits are left out; a check is keyed by the reference it is derived from.
`Tools` is the set of the calculations there may be; each is told once, in any
order, and `work.tools` is what was told of it. Two attempts and two tools are
enough for every transition.

### Workspace, RunStream, WebClient

`Workspace` keeps, for each run, its place in `executeLive`, whether it holds a
slot, its cancellation, its view and its readers; `newRun`, the install of the
cancel function, admission, the breaker, execution and the terminal commit are
separate steps because they are separate lock sections. What a run does while it
executes is reduced to what it returns: an answer, a failure receipt or an
error. `RunStream` numbers the events of a run, keeps the newest in the ring,
replays from the acknowledged one and drops what the channel does not take.
`WebClient` has one action for each callback of the hook; answers to GETs carry
what the server knew when they were sent and arrive in any order or fail.
`overtaken` is a history variable: an answer about an earlier run closed the
stream of the present one, the case in which the client is not told the end.

### AuditStore

Public metadata and protected content of a run have a file each, written and
removed as a whole; each write or removal may fail. A crash keeps the files and
loses the memory. Sealing, redaction and projection of one record are one value.

### Specialist, Synthesizer, Conversation

Texts are sets: a claim is what the guards read off it, a section is the set of
the kinds of its sentences, a question is the set of the phrases some rule looks
for. Every pass of the code is an operator, in the order of the code.

The origin of a claim is part of the answer: `packetBody` decodes it into
`contracts.Finding`, nothing clears it, and the schema the model is asked to
follow, which has no such field, is not what Go holds the answer against. So the
claims of `ModelClaims` have any origin: none, the engine's, a quotation's or one
that does not exist. `GoSpeaksForNumbers` and `RefusedForCause` say what holds of
all of them. A claim's
`flaw` is what its wording does to the guards: the two patterns for directions
overlap and differ, hence three of them. Policy language that is acceptable in a
quotation only, and the boundary sentences of the product scope, are left out.

Left out of the synthesizer: the assumptions of a request and the claims that
cover them, scenarios outside economic transmission; the stale-boundary rewriting
and directional comparisons are simplified, next actions are merged with
limitations, titles are part of the text. `EvidenceLimit` is 2 (8 in the code).

Left out of the conversation: assumptions, risk flags (both reviewers are always
planned, so they change nothing), answer depth, identifiers, and the checks of
the HTTP layer. Years stand for dates; three companies are governed and one is
not. Questions have any two phrases without a date, or any moment with one
phrase; follow-ups have one phrase, or "compare" and one.

### Decimals to Books, Engine

Numbers are exact fractions: rounding to 34 digits is abstracted, roots are
given squared. `CAGR`, mid-year discounting and `RollingMarketStatistics` are
left out. A request has inputs and flaws; the order of the checks decides the
failure code. The searches run at `MaxIterations` 5 (256), `Tolerance` 1/50
(1e-8) and `Gap` 1/8, one iteration a step. `Books` enumerates the inputs each
group of operations relates and leaves the rest at plain values.

### Filings, Activation, Peers, Promotion

A ledger is the sequence of accepted filings; years stand for dates. Three of
the seven company operations take every path: growth of one metric over two
years, a ratio of two, a difference of two. Quarterly forms, instants,
dimensions, units, the cap of three periods and ties of availability are left
out; growth from zero and intensity over zero abstain. `Peers` sets the company
against given rivals; period ends are half years. The caveat
`reviewed_taxonomy_mapping_applied` cannot occur in a ranked comparison, since
any alias that is not eligible already prevents the ranking.

`Promotion` lets evaluations be repeated at any time, a person accept exactly one
set of summaries, the command die after each file, and the server start between
any two steps. Hashes are what they stand for. The command reads each input as
one value; the code reads a file and then hashes it again (`main.go:53`), a gap
that is not modelled. After a crash between the two files the server refuses
every peer request until the command has been run again.

## Checks

All runs set `CHECK_DEADLOCK FALSE`, because a run, an attempt, a record and a
request all reach an end and stop there.

| Run | Bounds | States | Properties |
|---|---|---|---|
| `orchestrator_waves` | three specialists in wave 1, one in wave 3, limit 2, one retry, one reviewer without repair | 23,670 | `AnnouncedRunIsResolved`, `BoundedFanOut`, `TraceIsBracketed`, `DeadContextNeverAnswers`, `Termination` |
| `orchestrator_reviews` | one specialist, three claims, two reviewers with one repair pass each | 460,041 | `TypeOK`, `UnanimousRelease`, `StruckNeverCited`, `ImplementsReleaseGate` |
| `live_run` | two specialists together and one later, two claims, one reviewer, one repair pass, retained case | 209,940 | `PlanAgrees`, `PlanKeepsPace`, `SettledStepsStay`, `RunIsReported` |
| `workspace` | three runs, one slot, a window of one, threshold 1, cooldown 1, clock to 1, one reader | 477,647 | `LiveRunsAreFound`, `TokensFollowRuns`, `FollowUpsExtendAnswers`, `CancelledBeforeAdmission`, `EvictionsAreDue`, `RunsEnd` |
| `web_client` | two runs of three events, ring 2, channel 1, one break | 191,221 | `PlanFollowsRun`, `QuietMeansCurrent`, `ClientLearnsTheEnd` |
| `components`, subject `audit` | three runs, one record kept, `TTL` 1 | | `ErasedStaysErased`, `LeftoversAreKnown` |
| subject `specialist` | one item of any kind, one claim of any origin, both attempts | | `RefusedForCause`, `GoSpeaksForNumbers` |
| subject `engine` | `Books` | | `FiguresAgree`, `SearchKeepsTheAnswer` |
| subject `synthesizer` | five intents, both attempts, `EvidenceLimit` 2 | | `NumbersAreShown`, `RepairsSuffice` |
| subject `conversation` | chains of follow-ups, `MaxYear` 2 | | `RunsAreAsAsked`, `QuestionsCanBeAnswered` |
| subject `review` | three claims of which one is vouched for, one invented, at most two issues (`MaxIssues`) | | `ReportKeepsContract`, `RejectionWins`, `VouchedForSurvives` |
| subject `company` | three issuers' rules, `MaxFilings` 3, `LastYear` 2, as-of dates to `MaxNow` 4 | | `ReceiptsAreTheLastWord`, `AuthorityIsUsable`, `RankedPairsAreLikeForLike` |
| subject `release` | three companies, two lanes, `MaxDecisions` 2 | | `AuthorityIsPromoted` |
| subject `activity` | every kind of step, local and hybrid, two attempts, two tools | | `ActivityIsTold` |
| `components` in all | | 2,321,835 | |
| `live_run_dropped`, `live_run_delete`, `critique_empty`, `workspace_breaker`, `synthesis_denial`, `activation_chain` | as above; two runs and threshold 2 for the breaker | | violations, see "Findings" |

Why these bounds are enough. With three steps and a limit of two, a wave has
a full batch and a partial one, so a missing join or a batch cut too large shows;
the empty second wave exercises the skip. `ValidateResearchPlan` and the registry allow at
most one retry and one repair pass, so those bounds are the code's own. Three
claims let one reviewer strike one, the other another, and leave one to cite.
One reviewer sees the claims through the other's verdict, so two are enough for
the handover. In the adapter, a claim is vouched for, rejected or neither, so
three claims cover one of each; two issues let one lose all its references while
the other keeps some. Three runs over one slot and a window of one let one
execute, one wait and one be evicted; a ring of two under three events loses one;
three filings are an original, its amendment and a later year with comparatives;
two decisions let a promotion be attempted with a stale one. Of five observations
of peers, three are good and two any others, so that a cohort that meets the
smallest sample a policy may ask for has a company twice, a stale or a future
one, and a tail to cut off. Each property is falsified by a small change of the
modelled code (the mutants in `PROJECT.json`), under the same bounds.

Fairness. `FairSpec` assumes weak fairness of the run's own steps and none of
cancellation or the deadline: every call has a timeout
(`context.WithTimeout` around each attempt), so it returns, and goroutines are
scheduled. Nothing is assumed of what a call returns. `LiveSpec` assumes the
same of the server's steps, admission included: the queue has a timeout of its
own. No fairness is assumed of the deleting request. `Workspace` assumes weak
fairness of the server's steps, with a timer behind every wait, and none of
requests, readers or cancellations. `WebClient` assumes it of delivery on an open
stream, of reconnecting, of timers and of answers; a bounded number of breaks
stands for a network that works in the end.

## Proofs

Each theorem holds for every value of the constants its assumption allows; TLC
checks the same property on one instance. None of the invariants the runs check
is inductive except where it is said below, so each module strengthens it with
what the steps before have left behind.

**`OrchestratorProofs`**, from `PlanAssumption`: every plan, any number of
specialists and reviewers, any set of claims.

- `TypeCorrect`: `Spec => []TypeOK`. `TypeInv` adds that a review in progress
  is a review of the plan.
- `UnanimousReleaseHolds`, `StruckNeverCitedHolds`: the answer is written long
  after the verdicts, so `SafeInv` records what holds in between. `ContextInv`:
  specialists are at work only in the context phase. `PhaseInv`: the result is
  written once. `VerdictInv`: every review that has returned left a closing
  report with the claims it hands over. `ReviewInv`: the review in progress has
  handed nothing over, and what it struck has left its packets. `StruckInv`: what
  was struck has left the packets of the run. `AnswerInv`: the answer is within
  what everybody endorsed. Closing a review (`CloseSafe`) is the step where they
  meet.
- `RunImplementsReleaseGate`: `Spec => Gate!Spec`. The gate is open until the run
  is done; its pool is what the specialists delivered and later what the reviews
  left. Every step of the run gathers, endorses, releases, withholds or stutters.

**`OrchestratorFlowProofs`**, on top of it: `FanOutIsBounded`,
`AnnouncedIsResolved`, `TraceBracketed`, and the action property
`DeadContextHolds`. `FlowInv` is three parts. `WaveInv`: waves before the current
one are over, later ones untouched, and what is in flight fits the limit.
`CallInv`: a goroutine gives up silently only on a dead context, and a call that
may still succeed was begun by a live one. `TraceInv`: for every step and wave the
trace holds exactly the events that its state implies, which is what makes the
bracketing of a new event follow. `Doomed` is the stable part of a dead context:
once true, no step leads to an answer.

**`LiveRunProofs`**, from `PlanAssumption` and `RetentionAssumption`, on top of
both: `PlanKeepsPaceHolds`, `PlanAgreesHolds` and the action property
`SettledStepsHold`. `LiveRunImplementsReleaseGate` carries the refinement of the
gate over to the composed run. `Paced` says that a record counts with its plan. `MirrorInv`
says, while a run executes, which status the plan gives each step, as a function
of what its goroutine has come to; `CommitInv` and `EndInv` carry it over the
save and the terminal event. `AnsweredInv` is where the orchestrator's own
invariants are needed: a run is answered only when every step was resolved and
every reviewer gave a verdict, and this is why a completed run shows no step
that still waits.

**`WorkspaceProofs`**, from `WorkspaceAssumption`: any number of runs, readers and
slots, any window and breaker. `LiveRunsFound`, `TokensFollow`,
`FollowUpsExtend`, and the action properties `CancelledInTheQueue` and
`EvictionsInOrder`. `SafeInv` says what the stage of a goroutine tells about view,
slot and cancellation (`StageInv`, `QueueInv`), that runs exist in the order of
their numbers (`OrderInv`), and that what a follow-up read before it gave up the
lock cannot change (`AskingInv`). `WindowInv` bounds what is stored by what the
last eviction had to spare; `EvictionIsExact` is its counting lemma.

**`WebClientProofs`**, from `StreamAssumption`: any number of runs and events, any
ring, channel and number of failures. `QuietIsCurrent` and the action property
`PlanIsFollowed`. `ClientInv`: the plan held is of the run followed or the
reducer is still to ask (`InOrder`), a stream is of that run or closed, nothing is
asked before a run is followed, and a run created by a POST was not followed
before. Answers still on their way are about any run, which is why the reducer's
guard against the null run needs `FollowInv`.

**`AuditStoreProofs`**, from `AuditAssumption`: any number of runs and records, any
lifetime. `ErasedStays` (an action property) and `LeftoversKnown`. `AuditInv` is
`Sound`: an erased record holds nothing, its protected file is gone or known to be
left over, and so is a file without a record. Writes, evictions and erasures have
a lemma each, because each may fail in the middle.

**`CritiqueProofs`**, first part, from `ClaimAssumption`: any claims, any protected
claims, any answer. One lemma for each normalisation pass, chained in
`NormalizeKeeps`; from it the invariant `BoundaryInv` and
`ReportKeepsContractHolds`, `RejectionWinsHolds` and `VouchedForSurvivesHolds`.
`UnvouchedSilenceGainsNothing` proves the claim of the comment above
`completeApprovedComplement` under the extra assumption that nothing is vouched
for; with something vouched for it is finding 3.

Second part, about `Synthesizer`, without an assumption: any packets, any draft, any
`EvidenceLimit`.

- `AnyRepairSuffices`, and `RepairsAlwaysSuffice` for the specification. Each
  of the eight passes has a lemma that it keeps what the ones before it
  established (`Keeps`): `Countered`, `Backed`, `Listed`, `Nameless`.
  `CompletedIsRequested` and `QuietIsPlain` do the same for the two late repairs,
  and `PlainIsAccepted` meets the checks. `RepairsSuffice` is inductive with
  `Asked`. That no such theorem holds of denials is finding 5.
- `AnyNumberIsShown`, and `NumbersAreAlwaysShown`. A number that no section shows is
  placed into the first section of the first type its role prefers; `Least` says
  that there is one, `IsInjective` that assembly finds the same section again.
  `PreparedIsADraft` says that what Go made of any draft is a draft.

**`ComponentProofs`**:

- `PromotedAuthority`, for any number of decisions and any order of repeated
  evaluations, crashes and restarts: each artefact has an accepted decision behind
  it, and the acceptance is one of a sound evaluation.
- `AnyPacketRefusedForCause` and `AnyPacketGoSpeaks`, for any material and any claims
  of the model under any origin, where the runs take one of each at a time;
  `JobRefusedForCause` and `JobGoSpeaks` carry them to the specification with its
  retries. `ScreenedIsSound` is what they rest on: the quarantines leave claims that
  cite authorized material, and none of them changes a claim's type, origin or wording.
- `AnyReceiptIsTheLastWord`, `AnyAuthorityIsUsable` and `AnyPairIsLikeForLike`, for any
  sequence of filings in the order of acceptance, and `ReceiptsKeepTheLastWord`,
  `AuthorityStaysUsable`, `PairsStayLikeForLike` for the specification, from
  `CalendarAssumption`. `StudyInv` is that order: it is why the newest filing by
  position is the newest by acceptance, on which every lookup relies.
- `RunsStayAsAsked`, for conversations of any length and any number of years.
  `TalkInv` keeps of each request and of the case behind it that it was typed and
  of no time later than now, with two companies compared or none (`Asked`), and of
  a planned one that only a promoted pair is ready to compare (`Bound`); a follow-up
  inherits from a case that was asked earlier, so years that pass cannot break it.
- `AnyPlanCarriesAuthority` and `AnyQuestionIsPlanned`, for any question at all, with any
  phrases and companies, after any case: the first says that a plan has the roles its
  answer demands and ends with its synthesis, the second that a question is refused only
  for its words, its companies or its ambiguity. `RulesAdd` is the induction over the
  tables of `Route` and `EnsureOutputAuthority`: every role a chosen rule names is there,
  and once. So at most six steps collect context (`SixRoles`), which is within eight
  steps and two waves of four, and `EarlierIsAcyclic` meets the check for cycles, because
  every step waits for earlier ones only. The timeouts of steps, which the validator
  compares with the deadline, are configuration and not in the model.
  `QuestionsStayAnswerable` carries both to conversations of any length.
- `StepsTellTheirWork`, for any set of tools and any number of calls, retries and repairs.
  `WorkKept` is the invariant, in five parts: the route ends where the last call went
  (`RouteKept`, with `RouteGrows` for one more call); the attempt shown is that of the last
  call or of the next one (`AttemptKept`); a step is open while it is worked on
  (`StatusKept`); a check that runs is a retrieval under way, and one to come is of the
  plan (`ChecksKept`); a step for tools has a check for each tool told (`ToolsKept`).
  `CheckIsTold`, `WorkEnds` and `GoesOn` are the three ways a step of the work goes.

Only model-checked:

- `Termination`, `RunIsReported`, `RunsEnd` and `ClientLearnsTheEnd`: liveness under
  fairness is beyond the prover.
- `FiguresAgree` and `SearchKeepsTheAnswer`: they rest on what formulas over exact
  fractions compute, reduced by a recursive greatest common divisor and folded over
  sequences. A proof would need that arithmetic, which is not linear, and for the
  searches that each value moves one way with what is searched.

## Findings

1. `live_run_dropped`. On the final pass, a review that still asks for a repair
   or a narrowing and approves nothing emits an event with that decision as its
   status. `validEventPair` does not know it, so the event is dropped from the
   stream, although `plan.go` says that unknown events remain visible.
2. `live_run_delete`. A `DELETE` of the case between its save and the commit of
   the run's view succeeds, and the run shows the case as saved afterwards.
3. `critique_empty`. `protectClaimSet` runs before `completeApprovedComplement`
   and fills `approved_claims`; an approval with empty lists is then expanded to
   every claim, which the comment above that function rules out.
4. `workspace_breaker`. Model failures come back as a report and count as a
   success, so they never open the breaker, although the hardening matrix expects
   it to open.
5. `synthesis_denial`. The sentence Go adds when it removes a false denial of a
   calculation names an internal operation, and the next check refuses it, so the
   repair costs the retry and then the answer.
6. `activation_chain`. Financial activation does not look at the states of the
   filings: a receipt can rest on a filing that an amendment superseded, which the
   authority registry lists as a condition that invalidates it.

A disagreement without a run of its own, because `GoSpeaksForNumbers` names it as an
exception (`StandsIn`, and the origin of what may order): a calculation in the answer
whose origin is `deterministic_engine` keeps a quantitative direction in the model's
words (`adapter.go:488`) and takes the place of Go's fact about the number it cites
(`adapter.go:746` and `785`), although the comment at `adapter.go:482` says that only Go
may state an ordering.

Seen on the way and not findings, since no document states otherwise: a cancelled
run ends as failed once it executes (`CancelledBeforeAdmission` states what does
hold); a phase with one degraded and one waiting step is shown as degraded; after
a failed model call that Go recovers from, the plan says that the model route
completed; the web client can be shown an earlier run's answer; a follow-up that
names one new company inherits the old comparison and is refused. The hazards in
`PROJECT.json` have their lines.

## Not modelled

- Model client and limiter: HTTP and one semaphore; a call is seen from its
  callers as one that answers or fails.
- Retrieval, evidence fabric, investor relations evidence: ranking and lookups
  over read-only indexes, with no state a step could spoil.
- Tool gate, capabilities, permissions, roles, metric registry: static tables. The
  planner and the engine model what they ask of them.
- Numerical context and packets: compilation of values into identifiers and hashes.
- Raw store, evaluation checkpoints, replay, release gates, `producteval`: offline
  programs that one process runs from start to end.
- Telemetry, presentation in the browser, Python data and appliance scripts.
- The validators that check a built artefact against itself by hash or by
  rebuilding it, and the decoding of files: they restate the builder, which is
  modelled.
- Listing and export of cases, configuration and health handlers: they read.

A part with status "partly" in `PROJECT.json` names what is left out of it. The
largest gaps inside modelled parts are texts (wording, titles, phrases) and the
concurrency of one run's publication with many others': `LiveRun` has the one run
in detail, `Workspace` the many in outline, and the server's lock is what keeps
them apart.
