---------------------------- MODULE ComponentProofs ----------------------------
(***************************************************************************)
(* What TLAPS proves of components that stand alone: the promotion of an   *)
(* evaluation into the artifacts a server loads, for any number of         *)
(* decisions; the specialist's packet, for any material and any answer of  *)
(* the model, where the runs take one item and one claim at a time;        *)
(* what is computed and compared of companies, for any filings in the      *)
(* order of acceptance; what a conversation asks for, for any number of    *)
(* years, and who its plans send to work; and what a step shows of its own *)
(* work, for any number of tools.                                          *)
(***************************************************************************)
EXTENDS Promotion, Specialist, Peers, Conversation, Activity, FiniteSetTheorems,
        SequenceTheorems, WellFoundedInduction, TLAPS

-----------------------------------------------------------------------------
(* Promotion: every artifact has a decision behind it.                     *)

\* The decisions whose reviewed evaluation is sound, and what promotion makes of each.
Accepted == {d \in DOMAIN release.reviewed : release.reviewed[d].sound}
Made(d) == Promoted(Base, d, release.reviewed[d])
Catalogs == {Base.catalog} \cup {Made(d).catalog : d \in Accepted}
Suites == {Base.peers} \cup {Made(d).peers : d \in Accepted}

\* What a promotion has left to write, and what a starting server has loaded.
Unwritten == {<< >>} \cup {<<p>> : p \in Suites} \cup {<<c, p>> : c \in Catalogs, p \in Suites}
Loaded == {<< >>} \cup {<<c>> : c \in Catalogs} \cup {<<c, p>> : c \in Catalogs, p \in Suites}

\* Whatever is written, still to be written or loaded is the base or was made of an
\* accepted evaluation; a command that dies and a server that starts in between mix
\* them, but make no others.
LineageInv ==
  release \in [summaries : Evaluations, reviewed : Seq(Evaluations),
               catalog : Catalogs, peers : Suites, unwritten : Unwritten, loaded : Loaded]

\* A release no command has run on is the base.
LEMMA LineageStarts == PromotionInit => LineageInv
BY DEF PromotionInit, LineageInv, Catalogs, Suites, Unwritten, Loaded

\* Two parts are the catalog and the peers; one part alone is the peers of a promotion
\* that wrote its catalog, and the catalog of a server that loads the peers next.
LEMMA Halves ==
  ASSUME LineageInv
  PROVE  /\ Len(release.unwritten) = 2 =>
              \E c \in Catalogs, p \in Suites : release.unwritten = <<c, p>>
         /\ Len(release.unwritten) = 1 => \E p \in Suites : release.unwritten = <<p>>
         /\ Len(release.loaded) = 2 =>
              \E c \in Catalogs, p \in Suites : release.loaded = <<c, p>>
         /\ Len(release.loaded) = 1 => \E c \in Catalogs : release.loaded = <<c>>
<1>1. release.unwritten \in Unwritten /\ release.loaded \in Loaded
  BY DEF LineageInv
<1>2. /\ Len(<< >>) = 0
      /\ \A x : Len(<<x>>) = 1
      /\ \A x, y : Len(<<x, y>>) = 2
  OBVIOUS
<1>3. \/ release.unwritten = << >>
      \/ \E p \in Suites : release.unwritten = <<p>>
      \/ \E c \in Catalogs, p \in Suites : release.unwritten = <<c, p>>
  BY <1>1 DEF Unwritten
<1>4. \/ release.loaded = << >>
      \/ \E c \in Catalogs : release.loaded = <<c>>
      \/ \E c \in Catalogs, p \in Suites : release.loaded = <<c, p>>
  BY <1>1 DEF Loaded
<1>5. /\ Len(release.unwritten) = 2 =>
           \E c \in Catalogs, p \in Suites : release.unwritten = <<c, p>>
      /\ Len(release.unwritten) = 1 => \E p \in Suites : release.unwritten = <<p>>
  BY <1>2, <1>3
<1>6. /\ Len(release.loaded) = 2 =>
           \E c \in Catalogs, p \in Suites : release.loaded = <<c, p>>
      /\ Len(release.loaded) = 1 => \E c \in Catalogs : release.loaded = <<c>>
  BY <1>2, <1>4
<1> QED  BY <1>5, <1>6

\* A decision added later changes nothing about those before it.
LEMMA LineageGrows ==
  ASSUME LineageInv, Decide
  PROVE  Catalogs \subseteq Catalogs' /\ Suites \subseteq Suites'
<1>1. /\ release.reviewed \in Seq(Evaluations) /\ release.summaries \in Evaluations
      /\ release'.reviewed = Append(release.reviewed, release.summaries)
  BY DEF LineageInv, Decide
<1>2. \A d \in DOMAIN release.reviewed :
        d \in DOMAIN release'.reviewed /\ release'.reviewed[d] = release.reviewed[d]
  BY <1>1
<1>3. \A d \in Accepted : d \in Accepted' /\ Made(d)' = Made(d)
  BY <1>2 DEF Accepted, Made
<1> QED  BY <1>3 DEF Catalogs, Suites

\* A server that has the catalog adds the peers.
LEMMA PeersFollow ==
  ASSUME NEW c, NEW p
  PROVE  Append(<<c>>, p) = <<c, p>>
<1> DEFINE S == {c, p}
           whole == Append(<<c>>, p)
<1>1. <<c>> \in Seq(S) /\ p \in S /\ Len(<<c>>) = 1 /\ <<c>>[1] = c
  OBVIOUS
<1>2. whole \in Seq(S) /\ Len(whole) = 2 /\ whole[1] = c /\ whole[2] = p
  BY <1>1
<1> DEFINE pair == <<c, p>>
<1>3. pair \in Seq(S) /\ Len(pair) = 2 /\ pair[1] = c /\ pair[2] = p
  OBVIOUS
<1> HIDE DEF whole, pair
<1>4. whole = pair
  <2>1. \A i \in 1 .. 2 : whole[i] = pair[i]
    BY <1>2, <1>3
  <2>2. whole = [i \in 1 .. 2 |-> whole[i]] /\ pair = [i \in 1 .. 2 |-> pair[i]]
    BY <1>2, <1>3
  <2> QED  BY <2>1, <2>2
<1> QED  BY <1>4 DEF whole, pair

\* No step of an evaluation, a reviewer, a promotion or a server makes another artifact.
LEMMA LineageStays == LineageInv /\ [PromotionNext]_release => LineageInv'
<1> SUFFICES ASSUME LineageInv, [PromotionNext]_release PROVE LineageInv'
  OBVIOUS
<1>1. CASE release'.reviewed = release.reviewed
  <2>1. Catalogs' = Catalogs /\ Suites' = Suites
    BY <1>1 DEF Catalogs, Suites, Accepted, Made
  <2>11. Unwritten' = Unwritten /\ Loaded' = Loaded
    BY <2>1 DEF Unwritten, Loaded
  <2>2. CASE Reevaluate
    BY <2>11, <2>1, <2>2 DEF Reevaluate, LineageInv
  <2>3. CASE Promote
    <3>1. PICK d \in DOMAIN release.reviewed, input \in {Base, Outputs} :
            /\ Promotable(input, d)
            /\ release' = [release EXCEPT !.unwritten =
                  <<Promoted(input, d, release.summaries).catalog,
                    Promoted(input, d, release.summaries).peers>>]
      BY <2>3 DEF Promote
    <3>2. d \in Accepted /\ Promoted(input, d, release.summaries) = Made(d)
      BY <3>1 DEF Promotable, Accepted, Made, Promoted
    <3>3. <<Made(d).catalog, Made(d).peers>> \in Unwritten
      BY <3>2 DEF Catalogs, Suites, Unwritten
    <3> QED  BY <2>11, <2>1, <3>1, <3>2, <3>3 DEF LineageInv
  <2>4. CASE WriteCatalog
    <3>1. PICK c \in Catalogs, p \in Suites : release.unwritten = <<c, p>>
      BY <2>4, Halves DEF WriteCatalog
    <3>2. Head(release.unwritten) = c /\ Tail(release.unwritten) = <<p>>
      BY <3>1
    <3>3. <<p>> \in Unwritten /\ c \in Catalogs
      BY DEF Unwritten
    <3>4. release' = [release EXCEPT !.catalog = c, !.unwritten = <<p>>]
      BY <2>4, <3>2 DEF WriteCatalog
    <3> QED  BY <2>11, <2>1, <3>3, <3>4 DEF LineageInv
  <2>5. CASE WritePeers
    <3>1. PICK p \in Suites : release.unwritten = <<p>>
      BY <2>5, Halves DEF WritePeers
    <3>2. Head(release.unwritten) = p
      BY <3>1
    <3>3. << >> \in Unwritten /\ p \in Suites
      BY DEF Unwritten
    <3>4. release' = [release EXCEPT !.peers = p, !.unwritten = << >>]
      BY <2>5, <3>2 DEF WritePeers
    <3> QED  BY <2>11, <2>1, <3>3, <3>4 DEF LineageInv
  <2>6. CASE Die
    <3>1. << >> \in Unwritten
      BY DEF Unwritten
    <3> QED  BY <2>11, <2>1, <2>6, <3>1 DEF Die, LineageInv
  <2>7. CASE LoadCatalog
    <3>1. <<release.catalog>> \in Loaded
      BY DEF LineageInv, Loaded
    <3> QED  BY <2>11, <2>1, <2>7, <3>1 DEF LoadCatalog, LineageInv
  <2>8. CASE LoadPeers
    <3>1. PICK c \in Catalogs : release.loaded = <<c>>
      BY <2>8, Halves DEF LoadPeers
    <3>3. Append(release.loaded, release.peers) = <<c, release.peers>>
      BY <3>1, PeersFollow
    <3>2. <<c, release.peers>> \in Loaded
      BY DEF LineageInv, Loaded
    <3> QED  BY <2>11, <2>1, <2>8, <3>2, <3>3 DEF LoadPeers, LineageInv
  <2>9. CASE Decide
    <3>1. Len(release.reviewed) \in Nat /\ Len(release'.reviewed) = Len(release.reviewed) + 1
      BY <2>9 DEF Decide, LineageInv
    <3> QED  BY <1>1, <3>1
  <2>10. CASE UNCHANGED release
    BY <2>11, <2>1, <2>10 DEF LineageInv
  <2> QED
    BY <2>2, <2>3, <2>4, <2>5, <2>6, <2>7, <2>8, <2>9, <2>10 DEF PromotionNext
<1>2. CASE Decide
  <2>1. Catalogs \subseteq Catalogs' /\ Suites \subseteq Suites'
    BY <1>2, LineageGrows
  <2>2. release'.reviewed \in Seq(Evaluations)
    BY <1>2 DEF Decide, LineageInv
  <2>3. Unwritten \subseteq Unwritten' /\ Loaded \subseteq Loaded'
    BY <2>1 DEF Unwritten, Loaded
  <2> QED  BY <1>2, <2>1, <2>2, <2>3 DEF Decide, LineageInv
<1>3. release'.reviewed = release.reviewed \/ Decide
  BY DEF PromotionNext, Reevaluate, Promote, WriteCatalog, WritePeers, Die, LoadCatalog,
         LoadPeers, LineageInv
<1> QED  BY <1>1, <1>2, <1>3

\* Authority is what one person accepted: whatever was evaluated, promoted, half written
\* or loaded since, for any number of decisions
\* (PromoteTechnology20, ValidateReleaseAlignment, BindRequestAuthority).
THEOREM PromotedAuthority == PromotionSpec => []AuthorityIsPromoted
<1>1. LineageInv => AuthorityIsPromoted
  <2> SUFFICES ASSUME LineageInv, Len(release.loaded) = 2,
                      NEW companies \in SUBSET Companies,
                      \/ Cardinality(companies) = 1 /\ Authority(companies) = "research_ready"
                      \/ Cardinality(companies) = 2 /\ Authority(companies) = "comparison_ready"
               PROVE  LET d == release.loaded[1].decision
                      IN  /\ d # 0 /\ release.reviewed[d].sound
                          /\ companies \subseteq release.reviewed[d].companies
                          /\ Cardinality(companies) = 2 =>
                               companies \in release.reviewed[d].lanes
    BY DEF AuthorityIsPromoted
  <2>1. PICK c \in Catalogs, p \in Suites : release.loaded = <<c, p>>
    BY Halves
  <2>2. release.loaded[1] = c /\ release.loaded[2] = p
    BY <2>1
  <2>3. /\ Aligned(c, p)
        /\ Cardinality(companies) = 1 => companies \subseteq c.companies
        /\ Cardinality(companies) = 2 => companies \in p.lanes
    BY <2>2 DEF Authority
  <2>4. companies # {}
    BY FS_EmptySet
  <2>5. c # Base.catalog
    <3> SUFFICES ASSUME c = Base.catalog PROVE FALSE
      OBVIOUS
    <3>1. c.companies = {} /\ c.lanes = {} /\ p.lanes = {}
      BY <2>3 DEF Base, Aligned
    <3> QED  BY <2>3, <2>4, <3>1
  <2>6. PICK d \in Accepted : c = Made(d).catalog
    BY <2>5 DEF Catalogs
  <2>7. /\ c.decision = d /\ c.companies = release.reviewed[d].companies
        /\ c.lanes = PassedLanes(release.reviewed[d])
    BY <2>6 DEF Made, Promoted
  <2>8. d \in DOMAIN release.reviewed /\ release.reviewed[d].sound /\ d # 0
    BY DEF Accepted, LineageInv
  <2>9. Cardinality(companies) = 2 =>
          /\ companies \in release.reviewed[d].lanes
          /\ companies \subseteq release.reviewed[d].companies
    BY <2>3, <2>7 DEF Aligned, PassedLanes
  <2> QED  BY <2>2, <2>3, <2>7, <2>8, <2>9
<1> QED  BY <1>1, LineageStarts, LineageStays, PTL DEF PromotionSpec

-----------------------------------------------------------------------------
(* The specialist's packet, out of any material and any claims at all.     *)

AnyMaterial == [items : SUBSET Items, numeric : Numerics]
\* A claim may cite by any names, real or invented.
AnyClaim(Names) ==
  [type : {"fact", "calculation", "inference", "hypothesis"},
   origin : Origins,
   evidence : SUBSET (Items \cup {Fabricated}),
   receipts : SUBSET Names, numbers : SUBSET Names, assumptions : SUBSET Names,
   flaw : Wordings]

\* References that the final contract accepts from anyone.
Cited(c, m) ==
  /\ c.evidence \subseteq Authorized(m)
  /\ c.receipts \subseteq Receipts(m)
  /\ c.numbers \subseteq Numbers(m)
  /\ c.assumptions \subseteq Listed

\* A claim that orders quantities only under the engine's origin, and compares no
\* pair the material calls incomparable.
Modest(c, m) ==
  /\ c.origin # "deterministic" => c.flaw \notin {"direction", "ordering"}
  /\ ~ (/\ c.flaw \in {"comparison", "ordering"}
        /\ m.numeric = "incomparable" /\ c.numbers # {})

\* What a claim says of itself, which no pass changes.
SaidAlike(c, e) == c.type = e.type /\ c.origin = e.origin /\ c.flaw = e.flaw

\* What is left of the model's claims, whatever their origin, is as the model worded
\* it, well supported, cites material only, and orders what its origin may order
\* (buildContextPacket, its quarantines).
LEMMA ScreenedIsSound ==
  ASSUME NEW Names, "relation" \in Names, NEW m \in AnyMaterial,
         NEW claims \in SUBSET AnyClaim(Names), NEW c \in Screened(claims, m)
  PROVE  /\ c \in AnyClaim(Names) /\ Supported(c) /\ Cited(c, m)
         /\ Modest(c, m)
         /\ \E e \in claims : SaidAlike(c, e)
<1> DEFINE expanded == Expanded(KeepSupported(claims, m), m)
           compared == KeepComparable(KeepUndirected(expanded), m)
           shaped == OptionalAssumptions(compared)
<1>1. /\ c \in shaped /\ Supported(c) /\ Cited(c, m)
  BY DEF Screened, KeepAuthorized, KeepWellFormed, Cited
<1>2. PICK d \in compared :
        c = IF d.type = "inference" THEN d ELSE [d EXCEPT !.assumptions = @ \cap Listed]
  BY <1>1 DEF OptionalAssumptions
<1>3. /\ d \in expanded
      /\ d.origin = "deterministic" \/ d.flaw \notin {"direction", "ordering"}
      /\ ~ (/\ m.numeric = "incomparable" /\ "relation" \in d.numbers
            /\ d.flaw \in {"comparison", "ordering"})
  BY <1>2 DEF KeepComparable, KeepUndirected
<1>4. PICK e \in claims :
        d = IF "relation" \in Numbers(m) /\ e.numbers \cap {"left", "right"} # {}
            THEN [e EXCEPT !.numbers = (@ \ {"left", "right"}) \cup {"relation"}] ELSE e
  BY <1>3 DEF Expanded, KeepSupported
<1> HIDE DEF expanded, compared, shaped
<1>5. /\ d \in AnyClaim(Names) /\ SaidAlike(d, e)
      /\ "relation" \in Numbers(m) => d.numbers \cap {"left", "right"} = {}
  <2>1. e \in AnyClaim(Names)
    OBVIOUS
  <2>2. CASE "relation" \in Numbers(m) /\ e.numbers \cap {"left", "right"} # {}
    <3>1. (e.numbers \ {"left", "right"}) \cup {"relation"} \in SUBSET Names
      BY <2>1 DEF AnyClaim
    <3> QED  BY <1>4, <2>1, <2>2, <3>1 DEF AnyClaim, SaidAlike
  <2>3. CASE ~("relation" \in Numbers(m) /\ e.numbers \cap {"left", "right"} # {})
    BY <1>4, <2>1, <2>3 DEF SaidAlike
  <2> QED  BY <2>2, <2>3
<1>6. /\ c \in AnyClaim(Names) /\ SaidAlike(c, d) /\ c.numbers = d.numbers
  BY <1>2, <1>5 DEF AnyClaim, SaidAlike
<1>7. c.origin # "deterministic" => c.flaw \notin {"direction", "ordering"}
  BY <1>3, <1>6 DEF SaidAlike
<1>8. ASSUME m.numeric = "incomparable", c.flaw \in {"comparison", "ordering"}
      PROVE  c.numbers = {}
  <2>1. Numbers(m) = {"left", "right", "relation"}
    BY <1>8 DEF Numbers
  <2>2. "relation" \notin c.numbers
    BY <1>3, <1>6, <1>8 DEF SaidAlike
  <2> QED  BY <1>1, <1>5, <1>6, <2>1, <2>2 DEF Cited
<1>9. e \in claims /\ SaidAlike(c, e)
  BY <1>5, <1>6 DEF SaidAlike
<1> QED  BY <1>1, <1>6, <1>7, <1>8, <1>9 DEF Modest

\* What Go adds: facts it quotes from one item, hypotheses of the request, and figures
\* of its own.
Quoted(c, m) ==
  \E i \in m.items :
    /\ c \in {Extract(i), Quote(i)}
    /\ \/ i \in Authorized(m)
       \/ i.state = "available"
       \/ i \in BoundaryItems(m) /\ c = Extract(i)
Assumed == Claim("hypothesis", "model", {}, {}, {}, Listed, "none")
Figured(c, m) ==
  \/ \E n \in Stated(m) : c = NumberFact(n)
  \/ \E r \in Receipts(m) : c = Claim("calculation", "deterministic", {}, {r}, {}, {}, "none")

\* Nothing else is in a packet (WithGo: buildContextPacket).
LEMMA GoAdds ==
  ASSUME NEW m \in AnyMaterial, NEW claims, NEW role, NEW stated,
         NEW c \in WithGo(claims, role, m, stated)
  PROVE  c \in claims \/ Quoted(c, m) \/ c = Assumed \/ Figured(c, m)
<1>1. CASE c \in SectionFacts(role, m)
  BY <1>1 DEF SectionFacts, Quoted, Authorized
<1>2. CASE c \in BoundaryFacts(role, m)
  BY <1>2 DEF BoundaryFacts, Quoted, BoundaryItems
<1>3. CASE c \in PolicyFacts(role, m)
  BY <1>3 DEF PolicyFacts, Quoted
<1>4. CASE c \in PriceFacts(role, m)
  BY <1>4 DEF PriceFacts, Quoted
<1>5. CASE c \in Hypotheses(role, stated)
  BY <1>5 DEF Hypotheses, Assumed
<1>6. ASSUME NEW said, c \in NumberFacts(said, m) PROVE Figured(c, m)
  BY <1>6 DEF NumberFacts, Figured
<1>7. ASSUME NEW counted, c \in ReceiptFacts(counted, role, m) PROVE Figured(c, m)
  BY <1>7 DEF ReceiptFacts, Figured
<1> QED  BY <1>1, <1>2, <1>3, <1>4, <1>5, <1>6, <1>7 DEF WithGo

\* Out of plain material Go quotes only what the final contract accepts.
LEMMA GoIsAccepted ==
  ASSUME NEW m \in AnyMaterial, \A i \in m.items : i.wording = "plain",
         NEW c, Quoted(c, m) \/ c = Assumed \/ Figured(c, m)
  PROVE  Citable(c, m) /\ Supported(c) /\ OriginFits(c) /\ ~Overreaches(c)
<1>1. CASE Quoted(c, m)
  <2>1. PICK i \in m.items :
          /\ c \in {Extract(i), Quote(i)}
          /\ \/ i \in Authorized(m)
             \/ i.state = "available"
             \/ i \in BoundaryItems(m) /\ c = Extract(i)
    BY <1>1 DEF Quoted
  <2>2. i.wording = "plain"
    OBVIOUS
  <2>3. c = Extract(i)
    BY <2>1, <2>2 DEF Quote
  <2>4. /\ c.evidence = {i} /\ c.receipts = {} /\ c.numbers = {} /\ c.assumptions = {}
        /\ c.origin = "source_extraction" /\ c.flaw = "none" /\ c.type = "fact"
    BY <2>3 DEF Extract, Claim
  <2>5. ~Poisoned(i) /\ (i \in Authorized(m) \/ i \in BoundaryItems(m))
    BY <2>1, <2>2 DEF Poisoned, Authorized
  <2> QED  BY <2>4, <2>5 DEF Citable, Supported, OriginFits, Overreaches
<1>2. CASE c = Assumed
  <2>1. /\ c.evidence = {} /\ c.receipts = {} /\ c.numbers = {} /\ c.assumptions = Listed
        /\ c.origin = "model" /\ c.flaw = "none" /\ c.type = "hypothesis"
    BY <1>2 DEF Assumed, Claim
  <2> QED  BY <2>1 DEF Citable, Supported, OriginFits, Overreaches, Listed
<1>3. CASE Figured(c, m)
  <2>1. PICK n \in Receipts(m) :
          /\ c.evidence = {} /\ c.receipts = {n} /\ c.assumptions = {}
          /\ c.numbers = {} \/ (c.numbers = {n} /\ n \in Numbers(m))
          /\ c.origin = "deterministic" /\ c.flaw = "none" /\ c.type = "calculation"
    <3>1. Stated(m) \subseteq Numbers(m) /\ Stated(m) \subseteq Receipts(m)
      BY DEF Stated, Receipts, Numbers
    <3> QED  BY <1>3, <3>1 DEF Figured, NumberFact, Claim
  <2> QED  BY <2>1 DEF Citable, Supported, OriginFits, Overreaches
<1> QED  BY <1>1, <1>2, <1>3

\* Whatever the material and the answer, the origins it gives its claims included, the
\* packet is refused as a whole only for a blank, for material that is not plain, or
\* for a claim that does not live up to its origin (buildContextPacket).
THEOREM AnyPacketRefusedForCause ==
  ASSUME NEW Names, "relation" \in Names, NEW job, job.material \in AnyMaterial,
         NEW answer, answer.claims \in SUBSET AnyClaim(Names), Built(answer, job).refused
  PROVE  \/ answer.blank
         \/ \E i \in job.material.items : i.wording # "plain"
         \/ \E c \in answer.claims : Misattributed(c)
<1> DEFINE m == job.material
           whole == WithGo(Screened(answer.claims, m), job.role, m, job.stated)
<1> SUFFICES ASSUME ~answer.blank, \A i \in m.items : i.wording = "plain"
             PROVE  \E c \in answer.claims : Misattributed(c)
  OBVIOUS
<1>1. PICK c \in KeepModest(whole) :
        ~Citable(c, m) \/ ~Supported(c) \/ ~OriginFits(c) \/ Overreaches(c)
  BY DEF Built
<1>2. c \in whole /\ (c.origin # "model" \/ ~Overreaches(c))
  BY <1>1 DEF KeepModest
<1>3. CASE c \in Screened(answer.claims, m)
  <2>1. /\ Supported(c) /\ Cited(c, m)
        /\ \E e \in answer.claims : SaidAlike(c, e)
    BY <1>3, ScreenedIsSound
  <2>2. Citable(c, m)
    BY <2>1 DEF Cited, Citable
  <2>3. Misattributed(c)
    BY <1>1, <1>2, <2>1, <2>2 DEF Misattributed, OriginFits
  <2> QED  BY <2>1, <2>3 DEF Misattributed, OriginFits, Overreaches, SaidAlike
<1>4. CASE c \notin Screened(answer.claims, m)
  <2>1. Quoted(c, m) \/ c = Assumed \/ Figured(c, m)
    BY <1>2, <1>4, GoAdds
  <2> QED  BY <1>1, <2>1, GoIsAccepted
<1> QED  BY <1>3, <1>4

\* Whatever the material and the answer, Go states each relation and each lone variable,
\* unless a claim of the answer under the engine's origin cites it and is kept; only
\* under that origin is anything ordered, and no pair is that is incomparable
\* (appendDeterministicNumerical...Findings, the quarantines of directions).
THEOREM AnyPacketGoSpeaks ==
  ASSUME NEW Names, "relation" \in Names, NEW job, job.material \in AnyMaterial,
         NEW answer, answer.claims \in SUBSET AnyClaim(Names)
  PROVE  /\ \A n \in Stated(job.material) :
              \/ NumberFact(n) \in Built(answer, job).claims
              \/ \E c \in Screened(answer.claims, job.material) \cap Built(answer, job).claims :
                   c.origin = "deterministic" /\ n \in c.numbers
         /\ \A c \in Built(answer, job).claims : Modest(c, job.material)
<1> DEFINE m == job.material
           screened == Screened(answer.claims, m)
           said == screened \cup SectionFacts(job.role, m) \cup BoundaryFacts(job.role, m)
                     \cup PolicyFacts(job.role, m) \cup PriceFacts(job.role, m)
                     \cup Hypotheses(job.role, job.stated)
           whole == WithGo(screened, job.role, m, job.stated)
<1>1. Built(answer, job).claims = KeepModest(whole)
  BY DEF Built
<1>2. ASSUME NEW c \in said, c.origin = "deterministic" PROVE c \in screened
  <2>1. CASE c \in Hypotheses(job.role, job.stated)
    BY <1>2, <2>1 DEF Hypotheses, Claim
  <2>2. CASE \E i : c = Extract(i) \/ c = Quote(i)
    BY <1>2, <2>2 DEF Extract, Quote, Claim
  <2>3. CASE \/ c \in SectionFacts(job.role, m) \/ c \in BoundaryFacts(job.role, m)
             \/ c \in PolicyFacts(job.role, m) \/ c \in PriceFacts(job.role, m)
    BY <2>2, <2>3 DEF SectionFacts, BoundaryFacts, PolicyFacts, PriceFacts
  <2> QED  BY <1>2, <2>1, <2>3
<1>3. /\ said \subseteq whole
      /\ NumberFacts(said, m) \subseteq whole
  BY DEF WithGo
<1>4. ASSUME NEW n \in Stated(m)
      PROVE  \/ NumberFact(n) \in KeepModest(whole)
             \/ \E c \in screened \cap KeepModest(whole) :
                  c.origin = "deterministic" /\ n \in c.numbers
  <2>1. CASE \E c \in said : c.origin = "deterministic" /\ n \in c.numbers
    BY <1>2, <1>3, <2>1 DEF KeepModest
  <2>2. CASE ~ \E c \in said : c.origin = "deterministic" /\ n \in c.numbers
    <3> HIDE DEF said
    <3>1. NumberFact(n) \in NumberFacts(said, m)
      BY <2>2 DEF NumberFacts
    <3>2. NumberFact(n).origin = "deterministic"
      BY DEF NumberFact, Claim
    <3> QED  BY <1>3, <3>1, <3>2 DEF KeepModest
  <2> QED  BY <2>1, <2>2
<1>5. ASSUME NEW c \in KeepModest(whole) PROVE Modest(c, m)
  <2>1. c \in whole
    BY DEF KeepModest
  <2>2. CASE c \in screened
    BY <2>2, ScreenedIsSound
  <2>3. CASE c \notin screened
    <3>1. Quoted(c, m) \/ c = Assumed \/ Figured(c, m)
      BY <2>1, <2>3, GoAdds
    <3>2. CASE Quoted(c, m)
      <4>1. PICK i \in m.items : c = Extract(i) \/ c = Quote(i)
        BY <3>2 DEF Quoted
      <4>2. c.flaw \in {"none", "overreach"}
        BY <4>1 DEF Extract, Quote, Claim
      <4> QED  BY <4>2 DEF Modest
    <3>3. CASE c = Assumed
      BY <3>3 DEF Assumed, Claim, Modest
    <3>4. CASE Figured(c, m)
      BY <3>4 DEF Figured, NumberFact, Claim, Modest
    <3> QED  BY <3>1, <3>2, <3>3, <3>4
  <2> QED  BY <2>2, <2>3
<1> QED  BY <1>1, <1>4, <1>5

-----------------------------------------------------------------------------
(* The specialist's job.                                                   *)

Words == {"lone", "left", "right", "relation", "valuation", "invented",
          "stated assumption", "unlisted"}

\* The material a job can be given is material.
LEMMA MaterialsAreMaterial == Materials \subseteq AnyMaterial
<1> SUFFICES ASSUME NEW m \in Materials PROVE m \in AnyMaterial
  OBVIOUS
<1>1. /\ m = [items |-> m.items, numeric |-> m.numeric]
      /\ m.items \in {{}} \cup {{i} : i \in Items} /\ m.numeric \in Numerics
  BY DEF Materials
<1>2. m.items \in SUBSET Items
  BY <1>1
<1> QED  BY <1>1, <1>2 DEF AnyMaterial

\* A claim stays one the model may make when any part it is judged by is replaced.
LEMMA StillAClaim ==
  ASSUME NEW c \in AnyClaim(Words)
  PROVE  /\ \A e \in SUBSET (Items \cup {Fabricated}) :
              [c EXCEPT !.evidence = e] \in AnyClaim(Words)
         /\ \A r \in SUBSET Words : [c EXCEPT !.receipts = r] \in AnyClaim(Words)
         /\ \A n \in SUBSET Words : [c EXCEPT !.numbers = n] \in AnyClaim(Words)
         /\ \A a \in SUBSET Words : [c EXCEPT !.assumptions = a] \in AnyClaim(Words)
         /\ \A o \in Origins : [c EXCEPT !.origin = o] \in AnyClaim(Words)
         /\ \A f \in Wordings : [c EXCEPT !.flaw = f] \in AnyClaim(Words)
  BY DEF AnyClaim

\* Every claim the runs let the model make is covered by the theorems above.
LEMMA DraftsAreClaims ==
  ASSUME NEW m \in Materials, NEW answer \in Drafts(m)
  PROVE  answer.claims \in SUBSET AnyClaim(Words)
<1>1. m \in AnyMaterial
  BY MaterialsAreMaterial
<1>2. /\ m.items \in SUBSET (Items \cup {Fabricated})
      /\ {Fabricated} \in SUBSET (Items \cup {Fabricated})
      /\ {} \in SUBSET (Items \cup {Fabricated})
  BY <1>1 DEF AnyMaterial
<1>3. /\ Numbers(m) \in SUBSET Words /\ Receipts(m) \in SUBSET Words
      /\ Stated(m) \in SUBSET Words /\ Listed \in SUBSET Words
      /\ {} \in SUBSET Words /\ {"invented"} \in SUBSET Words /\ {"unlisted"} \in SUBSET Words
      /\ Numbers(m) \ {"lone"} \in SUBSET Words
  BY DEF Numbers, Receipts, Stated, Listed, Words
<1>4. ASSUME NEW type \in {"fact", "calculation", "inference", "hypothesis"},
             NEW e \in SUBSET (Items \cup {Fabricated}),
             NEW r \in SUBSET Words, NEW n \in SUBSET Words, NEW a \in SUBSET Words
      PROVE  Claim(type, "model", e, r, n, a, "none") \in AnyClaim(Words)
  BY DEF Claim, AnyClaim, Origins, Wordings
<1>5. Sound(m) \subseteq AnyClaim(Words)
  BY <1>2, <1>3, <1>4 DEF Sound
<1>6. {[c EXCEPT !.origin = o] : c \in Sound(m), o \in Origins} \subseteq AnyClaim(Words)
  BY <1>5, StillAClaim
<1>7. ModelClaims(m) \subseteq AnyClaim(Words)
  <2> SUFFICES ASSUME NEW c \in AnyClaim(Words), NEW d,
                      \/ d = c
                      \/ \E e \in {{}, {Fabricated}, m.items} : d = [c EXCEPT !.evidence = e]
                      \/ \E r \in {{}, {"invented"}} : d = [c EXCEPT !.receipts = r]
                      \/ \E n \in {{}, {"invented"}, Numbers(m) \ {"lone"}} :
                           d = [c EXCEPT !.numbers = n]
                      \/ \E a \in {{}, {"unlisted"}} : d = [c EXCEPT !.assumptions = a]
                      \/ \E f \in Wordings : d = [c EXCEPT !.flaw = f]
               PROVE  d \in AnyClaim(Words)
    BY <1>6 DEF ModelClaims
  <2>1. CASE \E e \in {{}, {Fabricated}, m.items} : d = [c EXCEPT !.evidence = e]
    BY <1>2, <2>1, StillAClaim
  <2>2. CASE \E r \in {{}, {"invented"}} : d = [c EXCEPT !.receipts = r]
    BY <1>3, <2>2, StillAClaim
  <2>3. CASE \E n \in {{}, {"invented"}, Numbers(m) \ {"lone"}} : d = [c EXCEPT !.numbers = n]
    BY <1>3, <2>3, StillAClaim
  <2>4. CASE \E a \in {{}, {"unlisted"}} : d = [c EXCEPT !.assumptions = a]
    BY <1>3, <2>4, StillAClaim
  <2>5. CASE \E f \in Wordings : d = [c EXCEPT !.flaw = f]
    BY <2>5, StillAClaim
  <2> QED  BY <2>1, <2>2, <2>3, <2>4, <2>5
<1> QED  BY <1>7 DEF Drafts

\* A job keeps its material, and what it ends with was built out of it by the answer
\* it keeps.
Job(d) ==
  /\ d = [stage |-> d.stage, role |-> d.role, material |-> d.material, stated |-> d.stated,
          attempt |-> d.attempt, asked |-> d.asked, answer |-> d.answer, packet |-> d.packet]
  /\ d.stage # "idle" /\ d.material \in Materials
Packed(d) ==
  /\ d.stage = "packet" =>
       d.answer.claims \in SUBSET AnyClaim(Words) /\ d.packet = Built(d.answer, d).claims
  /\ d.stage = "refused" =>
       d.answer.claims \in SUBSET AnyClaim(Words) /\ Built(d.answer, d).refused
DeskInv == desk = [stage |-> "idle"] \/ (Job(desk) /\ Packed(desk))

\* A packet depends on the material, the role and the request alone.
LEMMA BuiltFrom ==
  ASSUME NEW d, NEW e, NEW answer,
         d.role = e.role, d.material = e.material, d.stated = e.stated
  PROVE  Built(answer, d) = Built(answer, e)
  BY DEF Built

\* One step of a job keeps the invariant (Run, RunObservedAttempt).
LEMMA JobGoesOn == DeskInv /\ [SpecialistNext]_desk => DeskInv'
<1> SUFFICES ASSUME DeskInv, [SpecialistNext]_desk PROVE DeskInv'
  OBVIOUS
<1>1. CASE Assign
  BY <1>1 DEF Assign, DeskInv, Job, Packed
<1>2. ASSUME Job(desk),
             \E how \in {"failed", "retryable"} : Fail(how)
      PROVE  DeskInv'
  BY <1>2 DEF Fail, DeskInv, Job, Packed
<1>3. ASSUME Job(desk), NEW answer, answer.claims \in SUBSET AnyClaim(Words),
             Deliver(answer, Built(answer, desk).claims)
      PROVE  DeskInv'
  <2>1. /\ Job(desk)' /\ desk'.stage = "packet" /\ desk'.answer = answer
        /\ desk'.packet = Built(answer, desk).claims
    BY <1>3 DEF Deliver, Job
  <2>2. Built(answer, desk) = Built(answer, desk')
    <3>1. desk'.role = desk.role /\ desk'.material = desk.material /\ desk'.stated = desk.stated
      BY <1>3 DEF Deliver, Job
    <3> QED  BY <3>1, BuiltFrom
  <2> QED  BY <1>3, <2>1, <2>2 DEF DeskInv, Packed
<1>4. ASSUME Job(desk), Deliver(Silence, Recovery(desk).claims) PROVE DeskInv'
  <2>1. Silence.claims \in SUBSET AnyClaim(Words)
    BY DEF Silence
  <2> QED  BY <1>3, <1>4, <2>1 DEF Recovery
<1>5. CASE desk.stage = "asking" /\ (CompletionFails \/ LoadFails \/ AnswerMalformed)
  <2>1. Job(desk)
    BY <1>5 DEF DeskInv
  <2> QED  BY <1>2, <1>4, <1>5, <2>1 DEF CompletionFails, LoadFails, AnswerMalformed, RecoverOr
<1>6. CASE AnswerTruncated
  <2>1. Job(desk)
    BY <1>6 DEF DeskInv, AnswerTruncated
  <2>2. CASE desk' = [desk EXCEPT !.asked = 2]
    BY <1>6, <2>1, <2>2 DEF AnswerTruncated, DeskInv, Job, Packed
  <2> QED  BY <1>2, <1>4, <1>6, <2>1, <2>2 DEF AnswerTruncated, RecoverOr
<1>7. CASE AnswerArrives
  <2>1. Job(desk) /\ desk.stage = "asking"
    BY <1>7 DEF DeskInv, AnswerArrives
  <2>2. PICK answer \in Drafts(desk.material) :
          IF Built(answer, desk).refused
          THEN desk' = [desk EXCEPT !.stage = "refused", !.answer = answer]
          ELSE IF desk.role # "financial_quality" \/ Built(answer, desk).claims # {}
          THEN Deliver(answer, Built(answer, desk).claims)
          ELSE IF desk.attempt = 0 THEN Fail("retryable")
          ELSE RecoverOr(Fail("failed"))
    BY <1>7 DEF AnswerArrives
  <2>3. answer.claims \in SUBSET AnyClaim(Words)
    BY <2>1, DraftsAreClaims DEF Job
  <2>4. CASE /\ Built(answer, desk).refused
             /\ desk' = [desk EXCEPT !.stage = "refused", !.answer = answer]
    <3>1. /\ desk'.role = desk.role /\ desk'.material = desk.material
          /\ desk'.stated = desk.stated /\ desk'.answer = answer /\ desk'.stage = "refused"
          /\ Job(desk)'
      BY <2>1, <2>4 DEF Job
    <3>2. Built(answer, desk) = Built(answer, desk')
      BY <3>1, BuiltFrom
    <3> QED  BY <2>3, <2>4, <3>1, <3>2 DEF DeskInv, Packed
  <2> QED  BY <1>2, <1>3, <1>4, <2>1, <2>2, <2>3, <2>4 DEF RecoverOr
<1>8. CASE TryAgain
  <2>1. Job(desk)
    BY <1>8 DEF TryAgain, DeskInv
  <2>2. Job(desk)' /\ desk'.stage = "asking"
    BY <1>8, <2>1 DEF TryAgain, Job
  <2> QED  BY <2>2 DEF DeskInv, Packed
<1>9. CASE UNCHANGED desk
  BY <1>9 DEF DeskInv, Job, Packed
<1> QED
  BY <1>1, <1>5, <1>6, <1>7, <1>8, <1>9
     DEF SpecialistNext, CompletionFails, LoadFails, AnswerMalformed

\* Every job of the specification keeps the invariant.
LEMMA JobsArePacked == SpecialistSpec => []DeskInv
<1>1. SpecialistInit => DeskInv
  BY DEF SpecialistInit, DeskInv
<1> QED  BY <1>1, JobGoesOn, PTL DEF SpecialistSpec

\* A specialist's packet is refused as a whole for a listed cause: a blank, the material,
\* or a claim that does not live up to the origin it names (buildContextPacket),
\* whatever happened before: failures, truncations, retries.
THEOREM JobRefusedForCause == SpecialistSpec => []RefusedForCause
<1>1. DeskInv => RefusedForCause
  <2> SUFFICES ASSUME Job(desk), Packed(desk), desk.stage = "refused" PROVE RefusedForCause
    BY DEF DeskInv, RefusedForCause
  <2>1. desk.material \in AnyMaterial /\ "relation" \in Words
    BY MaterialsAreMaterial DEF Job, Words
  <2> QED  BY <2>1, AnyPacketRefusedForCause DEF Packed, RefusedForCause
<1> QED  BY <1>1, JobsArePacked, PTL

\* A delivered packet states every number of its material in Go's words, or keeps a
\* claim of the answer under the engine's origin that cites it, and compares no
\* incomparable pair in any (appendDeterministicNumerical...Findings).
THEOREM JobGoSpeaks == SpecialistSpec => []GoSpeaksForNumbers
<1>1. DeskInv => GoSpeaksForNumbers
  <2> SUFFICES ASSUME Job(desk), Packed(desk), desk.stage = "packet" PROVE GoSpeaksForNumbers
    BY DEF DeskInv, GoSpeaksForNumbers
  <2>1. desk.material \in AnyMaterial /\ "relation" \in Words
    BY MaterialsAreMaterial DEF Job, Words
  <2>2. /\ desk.answer.claims \in SUBSET AnyClaim(Words)
        /\ desk.packet = Built(desk.answer, desk).claims
    BY DEF Packed
  <2>3. /\ \A n \in Stated(desk.material) : NumberFact(n) \in desk.packet \/ StandsIn(n)
        /\ \A c \in desk.packet : Modest(c, desk.material)
    BY <2>1, <2>2, AnyPacketGoSpeaks DEF StandsIn
  <2> QED  BY <2>3 DEF GoSpeaksForNumbers, Modest
<1> QED  BY <1>1, JobsArePacked, PTL

-----------------------------------------------------------------------------
(* The filings of a company, whatever they report, and what is made of     *)
(* them.                                                                   *)

\* Any issuer, line and filing.
Concepts == {"ContractRevenue", "Revenues", "PropertyPlantEquipment", "ProductiveAssets",
             "OperatingCash"}
Metrics == {"revenue", "capex", "ocf"}
AnyIssuer ==
  [revenueAlias : BOOLEAN,
   productiveAssets : {"reviewed_alias", "context_only", "rejected"}]
AnyLine == [metric : Metrics, concept : Concepts, year : Years, value : Int]
AnyFiling ==
  [form : Annual \cup {"8-K"}, year : Nat, lines : SUBSET AnyLine, accepted : Nat]

\* A ledger is in the order of acceptance.
InOrderOfAcceptance(ledger) ==
  /\ ledger \in Seq(AnyFiling)
  /\ \A i, j \in 1 .. Len(ledger) : i <= j => ledger[i].accepted <= ledger[j].accepted

\* A nonempty set of numbers below a bound has a largest one.
LEMMA Largest ==
  ASSUME NEW N \in Nat, NEW S \in SUBSET (0 .. N), S # {}
  PROVE  Max(S) \in S /\ \A n \in S : n <= Max(S)
<1> DEFINE From(n) == n .. N
           Endings == {From(n) : n \in S}
<1>1. Endings \subseteq SUBSET (0 .. N)
  OBVIOUS
<1>2. IsWellFoundedOn(StrictSubsetOrdering(0 .. N), SUBSET (0 .. N))
  <2>1. IsFiniteSet(0 .. N)
    BY FS_Interval
  <2> QED  BY <2>1, FS_StrictSubsetOrderingWellFounded, FS_FiniteSubsetsOfFinite
<1>3. PICK P \in Endings :
        \A Q \in Endings : <<Q, P>> \notin StrictSubsetOrdering(0 .. N)
  <2>1. Endings # {}
    OBVIOUS
  <2> HIDE DEF Endings
  <2> QED  BY <1>1, <1>2, <2>1, WFMin
<1>4. PICK m \in S : P = From(m)
  OBVIOUS
<1>5. ASSUME NEW n \in S, m < n PROVE FALSE
  <2>1. From(n) \subseteq From(m) /\ From(n) # From(m)
    BY <1>5
  <2>2. From(n) \in SUBSET (0 .. N) /\ From(m) \in SUBSET (0 .. N)
    OBVIOUS
  <2>3. <<From(n), From(m)>> \in StrictSubsetOrdering(0 .. N)
    BY <2>1, <2>2 DEF StrictSubsetOrdering
  <2> QED  BY <1>3, <1>4, <2>3
<1>6. \A n \in S : m >= n
  BY <1>5
<1> QED  BY <1>6 DEF Max

\* And that is the one.
LEMMA LargestIs ==
  ASSUME NEW S \in SUBSET Int, NEW m \in S, \A n \in S : n <= m
  PROVE  Max(S) = m
<1>1. \A x \in S : (\A n \in S : x >= n) => x = m
  OBVIOUS
<1> QED  BY <1>1 DEF Max

\* The facts of a ledger are its lines, each with its filing.
LEMMA FactsAreTyped ==
  ASSUME NEW ledger \in Seq(AnyFiling), NEW f \in FactsOf(ledger)
  PROVE  /\ f.metric \in Metrics /\ f.concept \in Concepts /\ f.year \in Years
         /\ f.value \in Int /\ f.from \in 1 .. Len(ledger)
<1>1. PICK i \in DOMAIN ledger :
        \E line \in ledger[i].lines :
          f = [metric |-> line.metric, concept |-> line.concept, year |-> line.year,
               value |-> line.value, from |-> i]
  BY DEF FactsOf
<1>2. ledger[i] \in AnyFiling /\ i \in 1 .. Len(ledger)
  OBVIOUS
<1> QED  BY <1>1, <1>2 DEF AnyFiling, AnyLine

\* A filing is accepted at some time.
LEMMA FilingsAreTyped ==
  ASSUME NEW ledger \in Seq(AnyFiling), NEW i \in 1 .. Len(ledger)
  PROVE  ledger[i].accepted \in Nat
<1>1. ledger[i] \in AnyFiling
  OBVIOUS
<1> QED  BY <1>1 DEF AnyFiling

\* Of facts about one metric and period there is one that speaks, and none is of a later
\* filing (AsOf).
LEMMA LastSpeaks ==
  ASSUME NEW ledger \in Seq(AnyFiling), NEW facts \in SUBSET FactsOf(ledger), facts # {}
  PROVE  /\ Selected(facts) \in facts
         /\ \A g \in facts : g.from <= Selected(facts).from
<1> DEFINE Key(f) == 2 * f.from + 2 - ConceptRank[f.concept]
           Keys == {Key(f) : f \in facts}
           N == 2 * Len(ledger) + 2
<1>1. \A f \in facts : f.from \in 1 .. Len(ledger) /\ ConceptRank[f.concept] \in 1 .. 2
  BY FactsAreTyped DEF Concepts, ConceptRank
<1>2. Keys \in SUBSET (0 .. N) /\ Keys # {} /\ N \in Nat
  BY <1>1
<1> HIDE DEF Keys, N
<1>3. Max(Keys) \in Keys /\ \A n \in Keys : n <= Max(Keys)
  BY <1>2, Largest
<1>4. PICK f \in facts : \A g \in facts : Key(g) <= Key(f)
  BY <1>3 DEF Keys
<1>5. \A g \in facts : Supersedes(f, g)
  BY <1>1, <1>4 DEF Supersedes
<1>6. Selected(facts) \in facts /\ \A g \in facts : Supersedes(Selected(facts), g)
  BY <1>5 DEF Selected
<1> QED  BY <1>1, <1>6 DEF Supersedes

\* A normalized metric has the value and the filing of the fact that speaks, and the facts
\* it superseded as its sources (AsOf).
LEMMA MetricsSpeak ==
  ASSUME NEW ledger \in Seq(AnyFiling), NEW at, NEW m \in Normalized(ledger, at)
  PROVE  /\ \E h \in m.sources : h.value = m.value /\ h.from = m.from
         /\ Available(ledger, m.from, at)
         /\ m.metric \in Metrics /\ m.year \in Years /\ m.from \in 1 .. Len(ledger)
         /\ \A g \in m.sources :
              /\ g \in FactsOf(ledger)
              /\ g.metric = m.metric /\ g.year = m.year /\ g.from <= m.from
         /\ \A g \in FactsOf(ledger) :
              g.metric = m.metric /\ g.year = m.year /\ Available(ledger, g.from, at)
                => g \in m.sources
<1> DEFINE known == {f \in FactsOf(ledger) : Available(ledger, f.from, at)}
           Candidates(metric, year) == {f \in known : f.metric = metric /\ f.year = year}
<1>1. PICK e \in known :
        LET s == Selected(Candidates(e.metric, e.year))
        IN  m = [metric |-> s.metric, year |-> s.year, value |-> s.value, from |-> s.from,
                 sources |-> Candidates(e.metric, e.year)]
  BY DEF Normalized
<1> DEFINE facts == Candidates(e.metric, e.year)
           s == Selected(facts)
<1>2. facts \in SUBSET FactsOf(ledger) /\ facts # {}
  OBVIOUS
<1>3. m = [metric |-> s.metric, year |-> s.year, value |-> s.value, from |-> s.from,
           sources |-> facts]
  BY <1>1
<1>4. \A g \in FactsOf(ledger) :
        g \in facts <=> /\ g.metric = e.metric /\ g.year = e.year
                        /\ Available(ledger, g.from, at)
  OBVIOUS
<1> HIDE DEF facts
<1>5. s \in facts /\ \A g \in facts : g.from <= s.from
  BY <1>2, LastSpeaks
<1>6. /\ s \in FactsOf(ledger) /\ s.metric = e.metric /\ s.year = e.year
      /\ Available(ledger, s.from, at)
  BY <1>2, <1>4, <1>5
<1>7. s.metric \in Metrics /\ s.year \in Years /\ s.from \in 1 .. Len(ledger)
  BY <1>6, FactsAreTyped
<1> HIDE DEF s
<1> QED  BY <1>2, <1>3, <1>4, <1>5, <1>6, <1>7

\* What a concept ranks says what it may be used for, of the accepted taxonomy
\* (SelectionRank).
LEMMA RanksTell ==
  ASSUME NEW issuer \in AnyIssuer, NEW concept \in Concepts
  PROVE  /\ SelectionRank(issuer, concept) \in 0 .. 3
         /\ Numerical(issuer, concept) <=> SelectionRank(issuer, concept) >= 2
         /\ RankingEligible(issuer, concept) <=> SelectionRank(issuer, concept) = 3
         /\ RankingEligible(issuer, concept) <=>
              concept \in {"ContractRevenue", "PropertyPlantEquipment", "OperatingCash"}
<1>1. Disposition(issuer, concept) \in {"canonical", "reviewed_alias", "context_only", "rejected"}
  BY DEF Disposition, AnyIssuer
<1>2. Disposition(issuer, concept) = "canonical" <=>
        concept \in {"ContractRevenue", "PropertyPlantEquipment", "OperatingCash"}
  BY DEF Disposition, AnyIssuer, Concepts
<1> QED  BY <1>1, <1>2 DEF SelectionRank, Numerical, RankingEligible

\* Of some facts there is one of the best rank.
LEMMA BestExists ==
  ASSUME NEW issuer \in AnyIssuer, NEW ledger \in Seq(AnyFiling),
         NEW facts \in SUBSET FactsOf(ledger), facts # {}
  PROVE  \E f \in facts : \A g \in facts :
           SelectionRank(issuer, g.concept) <= SelectionRank(issuer, f.concept)
<1> DEFINE Rank(f) == SelectionRank(issuer, f.concept)
           Ranks == {Rank(f) : f \in facts}
<1>1. ASSUME NEW f \in facts PROVE Rank(f) \in 0 .. 3
  <2>1. f.concept \in Concepts
    BY FactsAreTyped
  <2> QED  BY <2>1, RanksTell
<1>2. Ranks \in SUBSET (0 .. 3) /\ Ranks # {}
  BY <1>1
<1> HIDE DEF Rank
<1>3. Max(Ranks) \in Ranks /\ \A n \in Ranks : n <= Max(Ranks)
  <2> HIDE DEF Ranks
  <2> QED  BY <1>2, Largest
<1>4. PICK f \in facts : \A g \in facts : Rank(g) <= Rank(f)
  BY <1>3
<1> QED  BY <1>4 DEF Rank

\* What an item rests on: facts of periodic filings that carry its value, all of the best
\* rank there is (periodicFactAuthorityWithMapping).
LEMMA ItemsRest ==
  ASSUME NEW issuer \in AnyIssuer, NEW ledger \in Seq(AnyFiling), NEW at,
         NEW m \in Normalized(ledger, at), PeriodicFacts(ledger, m) # {}
  PROVE  LET item == ItemOf(issuer, ledger, m)
         IN  /\ item.metric = m.metric /\ item.year = m.year /\ item.value = m.value
             /\ item.evidence # {} /\ item.evidence \subseteq PeriodicFacts(ledger, m)
             /\ \E f \in item.evidence : item.concept = f.concept
             /\ \A f \in item.evidence : \A g \in PeriodicFacts(ledger, m) :
                  SelectionRank(issuer, g.concept) <= SelectionRank(issuer, f.concept)
<1> DEFINE facts == PeriodicFacts(ledger, m)
           evidence == Evidence(issuer, ledger, m)
<1>1. facts \in SUBSET FactsOf(ledger)
  BY MetricsSpeak DEF PeriodicFacts
<1>2. PICK f \in facts : \A g \in facts :
        SelectionRank(issuer, g.concept) <= SelectionRank(issuer, f.concept)
  BY <1>1, BestExists
<1>3. /\ evidence # {} /\ evidence \subseteq facts
      /\ \A e \in evidence : \A g \in facts :
           SelectionRank(issuer, g.concept) <= SelectionRank(issuer, e.concept)
  BY <1>2 DEF Evidence
<1> HIDE DEF facts, evidence
<1>4. (CHOOSE e \in evidence : TRUE) \in evidence
  BY <1>3
<1>5. ItemOf(issuer, ledger, m) =
        [metric |-> m.metric, year |-> m.year, value |-> m.value, evidence |-> evidence,
         concept |-> (CHOOSE e \in evidence : TRUE).concept,
         filed |-> ledger[m.from].accepted]
  BY DEF ItemOf, evidence
<1> DEFINE item == ItemOf(issuer, ledger, m)
<1>6. /\ item.metric = m.metric /\ item.year = m.year /\ item.value = m.value
      /\ item.evidence = evidence
      /\ item.concept = (CHOOSE e \in evidence : TRUE).concept
  BY <1>5
<1> HIDE DEF item
<1>7. \E e \in item.evidence : item.concept = e.concept
  BY <1>4, <1>6
<1> QED  BY <1>3, <1>6, <1>7 DEF facts, item

\* Every item is made of a usable metric.
LEMMA ItemsAreMade ==
  ASSUME NEW issuer \in AnyIssuer, NEW ledger \in Seq(AnyFiling), NEW at, NEW asOf,
         NEW item \in Eligible(issuer, ledger, Normalized(ledger, at), asOf)
  PROVE  \E m \in Normalized(ledger, at) :
           /\ Usable(ledger, m, asOf) /\ PeriodicFacts(ledger, m) # {}
           /\ item = ItemOf(issuer, ledger, m)
BY DEF Eligible

\* Items are of a metric and a year.
Dated(items) == \A i \in items : i.year \in Years

\* The latest of the years is one of them.
LEMMA LatestYear ==
  ASSUME NEW years \in SUBSET Years, years # {}
  PROVE  Max(years) \in years
<1>1. LastYear \in Nat
  BY CalendarAssumption
<1>2. years \in SUBSET (0 .. LastYear)
  BY <1>1 DEF Years
<1> QED  BY <1>1, <1>2, Largest

\* An operation is computed of items, and of at least one (SelectInputs).
LEMMA InputsAreItems ==
  ASSUME NEW items, Dated(items), NEW op \in CompanyOperations,
         SelectInputs(items, op) # << >>
  PROVE  LET inputs == SelectInputs(items, op)
         IN  /\ DOMAIN inputs # {}
             /\ \A i \in DOMAIN inputs : inputs[i] \in items
<1>1. ASSUME NEW metric, NEW year \in YearsOf(items, metric)
      PROVE  Item(items, metric, year) \in items
  <2>1. PICK i \in items : i.metric = metric /\ i.year = year
    BY <1>1 DEF YearsOf, OfMetric
  <2> DEFINE of == OfMetric(items, metric)
  <2>2. i \in of /\ i.year = year /\ of \subseteq items
    BY <2>1 DEF OfMetric
  <2> HIDE DEF of
  <2>3. (CHOOSE j \in of : j.year = year) \in of
    BY <2>2
  <2> QED  BY <2>2, <2>3 DEF Item, of
<1>2. CASE op = "revenue_growth"
  <2> DEFINE years == YearsOf(items, "revenue")
             current == Max(years)
             prior == Max(years \ {current})
  <2>1. years \in SUBSET Years
    BY DEF YearsOf, OfMetric, Dated
  <2>2. ~(Cardinality(years) < 2)
    BY <1>2 DEF SelectInputs
  <2>3. years # {}
    BY <2>2, FS_EmptySet
  <2> HIDE DEF years
  <2>4. current \in years
    BY <2>1, <2>3, LatestYear
  <2>5. years \ {current} # {}
    <3> SUFFICES ASSUME years = {current} PROVE FALSE
      BY <2>4
    <3>1. Cardinality({current}) = 1
      BY FS_Singleton
    <3>2. Cardinality(years) = 1
      BY <3>1
    <3> QED  BY <2>2, <3>2
  <2>6. prior \in years
    <3> HIDE DEF current
    <3> QED  BY <2>1, <2>5, LatestYear
  <2>7. SelectInputs(items, op) =
          [input \in {"revenue_current", "revenue_prior"} |->
             Item(items, "revenue", IF input = "revenue_current" THEN current ELSE prior)]
    BY <1>2, <2>2 DEF SelectInputs, years
  <2> HIDE DEF current, prior
  <2> QED  BY <1>1, <2>4, <2>6, <2>7 DEF years
<1>3. CASE op # "revenue_growth"
  <2> DEFINE years == {y \in Years : \A metric \in InputsOf(op) : y \in YearsOf(items, metric)}
  <2>1. years # {}
    BY <1>3 DEF SelectInputs
  <2>2. SelectInputs(items, op) = [metric \in InputsOf(op) |-> Item(items, metric, Max(years))]
    BY <1>3, <2>1 DEF SelectInputs
  <2>3. years \in SUBSET Years
    OBVIOUS
  <2>4. Max(years) \in years
    <3> HIDE DEF years
    <3> QED  BY <2>1, <2>3, LatestYear
  <2>5. \A metric \in InputsOf(op) : Max(years) \in YearsOf(items, metric)
    BY <2>4
  <2>6. InputsOf(op) # {}
    BY <1>3 DEF InputsOf, CompanyOperations
  <2> HIDE DEF years
  <2> QED  BY <1>1, <2>2, <2>5, <2>6
<1> QED  BY <1>2, <1>3

\* And so is every receipt.
LEMMA ReceiptsAreOfItems ==
  ASSUME NEW items, Dated(items), NEW ops \in SUBSET CompanyOperations
  PROVE  LET receipts == ReceiptsOf(items, ops)
         IN  /\ DOMAIN receipts \subseteq ops
             /\ \A op \in DOMAIN receipts :
                  /\ DOMAIN receipts[op] # {}
                  /\ \A i \in DOMAIN receipts[op] : receipts[op][i] \in items
<1> DEFINE receipts == ReceiptsOf(items, ops)
<1>1. /\ DOMAIN receipts \subseteq ops
      /\ \A op \in DOMAIN receipts :
           receipts[op] = SelectInputs(items, op) /\ SelectInputs(items, op) # << >>
  BY DEF ReceiptsOf
<1> HIDE DEF receipts
<1> QED  BY <1>1, InputsAreItems DEF receipts

\* A report's receipts rest on its items, and its numerical receipts on numerical ones.
LEMMA ReportRests ==
  ASSUME NEW issuer \in AnyIssuer, NEW ledger \in Seq(AnyFiling), NEW now, NEW asOf
  PROVE  LET items == Eligible(issuer, ledger, Normalized(ledger, now), asOf)
             built == Report(issuer, ledger, now, asOf)
         IN  /\ built.numerical = {i \in items : Numerical(issuer, i.concept)}
             /\ built.context = {i \in items : Contextual(issuer, i.concept)}
             /\ DOMAIN built.receipts \subseteq CompanyOperations
             /\ \A receipts \in {built.receipts, built.contextual} : \A op \in DOMAIN receipts :
                  /\ DOMAIN receipts[op] # {}
                  /\ \A i \in DOMAIN receipts[op] : receipts[op][i] \in items
<1> DEFINE items == Eligible(issuer, ledger, Normalized(ledger, now), asOf)
           numerical == {i \in items : Numerical(issuer, i.concept)}
           contextual == {i \in items : Contextual(issuer, i.concept)}
           displayed == contextual \cup {i \in numerical : i.metric # "capex"}
           ops == IF OfMetric(contextual, "capex") = {} THEN {}
                  ELSE {"capex_intensity", "free_cash_flow"}
           built == Report(issuer, ledger, now, asOf)
<1>1. \A i \in items : i.year \in Years
  <2> SUFFICES ASSUME NEW i \in items PROVE i.year \in Years
    OBVIOUS
  <2>1. PICK m \in Normalized(ledger, now) :
          PeriodicFacts(ledger, m) # {} /\ i = ItemOf(issuer, ledger, m)
    BY ItemsAreMade
  <2>2. i.year = m.year
    BY <2>1, ItemsRest
  <2> QED  BY <2>2, MetricsSpeak
<1>2. Dated(numerical) /\ Dated(displayed) /\ numerical \subseteq items /\ displayed \subseteq items
  <2> HIDE DEF items
  <2> QED  BY <1>1 DEF Dated
<1>3. ops \subseteq CompanyOperations
  BY DEF CompanyOperations
<1>4. /\ built.receipts = ReceiptsOf(numerical, CompanyOperations)
      /\ built.contextual = ReceiptsOf(displayed, ops)
      /\ built.numerical = numerical /\ built.context = contextual
  BY DEF Report
<1> HIDE DEF items, numerical, contextual, displayed, ops, built
<1>5. /\ DOMAIN built.receipts \subseteq CompanyOperations
      /\ \A op \in DOMAIN built.receipts :
           /\ DOMAIN built.receipts[op] # {}
           /\ \A i \in DOMAIN built.receipts[op] : built.receipts[op][i] \in numerical
  BY <1>2, <1>4, ReceiptsAreOfItems
<1>6. \A op \in DOMAIN built.contextual :
        /\ DOMAIN built.contextual[op] # {}
        /\ \A i \in DOMAIN built.contextual[op] : built.contextual[op][i] \in displayed
  BY <1>2, <1>3, <1>4, ReceiptsAreOfItems
<1>7. \A receipts \in {built.receipts, built.contextual} : \A op \in DOMAIN receipts :
        /\ DOMAIN receipts[op] # {}
        /\ \A i \in DOMAIN receipts[op] : receipts[op][i] \in items
  BY <1>2, <1>5, <1>6
<1> QED  BY <1>4, <1>5, <1>7 DEF items, numerical, contextual, built

\* Whatever is filed, restated or amended in whatever order, what a receipt rests on was
\* accepted by the as-of date and has the value last reported by then (AsOf,
\* periodicFactAuthorityWithMapping).
THEOREM AnyReceiptIsTheLastWord ==
  ASSUME NEW issuer \in AnyIssuer, NEW ledger, InOrderOfAcceptance(ledger),
         NEW now \in Nat, NEW asOf \in 0 .. now
  PROVE  LET built == Report(issuer, ledger, now, asOf)
             known == {f \in FactsOf(ledger) : ledger[f.from].accepted <= asOf}
             LastWord(f) ==
               \A g \in {k \in known : k.metric = f.metric /\ k.year = f.year} :
                 g.from > f.from =>
                   \E h \in known : /\ h.metric = f.metric /\ h.year = f.year
                                    /\ h.value = f.value /\ h.from >= g.from
         IN  \A receipts \in {built.receipts, built.contextual} :
               \A op \in DOMAIN receipts : \A input \in DOMAIN receipts[op] :
                 \A f \in receipts[op][input].evidence : f \in known /\ LastWord(f)
<1> DEFINE built == Report(issuer, ledger, now, asOf)
           known == {f \in FactsOf(ledger) : ledger[f.from].accepted <= asOf}
           LastWord(f) ==
             \A g \in {k \in known : k.metric = f.metric /\ k.year = f.year} :
               g.from > f.from =>
                 \E h \in known : /\ h.metric = f.metric /\ h.year = f.year
                                  /\ h.value = f.value /\ h.from >= g.from
           items == Eligible(issuer, ledger, Normalized(ledger, now), asOf)
<1>1. ledger \in Seq(AnyFiling)
  BY DEF InOrderOfAcceptance
<1>2. ASSUME NEW item \in items, NEW f \in item.evidence PROVE f \in known /\ LastWord(f)
  <2>1. PICK m \in Normalized(ledger, now) :
          /\ Usable(ledger, m, asOf) /\ PeriodicFacts(ledger, m) # {}
          /\ item = ItemOf(issuer, ledger, m)
    BY <1>1, ItemsAreMade
  <2>2. f \in PeriodicFacts(ledger, m)
    BY <1>1, <1>2, <2>1, ItemsRest
  <2>3. f \in m.sources /\ f.value = m.value
    BY <2>2 DEF PeriodicFacts
  <2>4. PICK h \in m.sources : h.value = m.value /\ h.from = m.from
    BY <1>1, MetricsSpeak
  <2>5. /\ f \in FactsOf(ledger) /\ h \in FactsOf(ledger)
        /\ f.metric = m.metric /\ h.metric = m.metric /\ f.year = m.year /\ h.year = m.year
        /\ f.from <= m.from
    BY <1>1, <2>3, MetricsSpeak
  <2>6. /\ f.from \in 1 .. Len(ledger) /\ m.from \in 1 .. Len(ledger)
    BY <1>1, <2>4, <2>5, FactsAreTyped
  <2>7. ledger[m.from].accepted <= asOf
    BY <2>1 DEF Usable, Available
  <2>8. /\ ledger[f.from].accepted \in Nat /\ ledger[m.from].accepted \in Nat
        /\ ledger[f.from].accepted <= ledger[m.from].accepted
    <3>1. ledger[f.from].accepted \in Nat /\ ledger[m.from].accepted \in Nat
      BY <1>1, <2>6, FilingsAreTyped
    <3> QED  BY <2>5, <2>6, <3>1 DEF InOrderOfAcceptance
  <2>9. f \in known /\ h \in known
    BY <2>4, <2>5, <2>7, <2>8
  <2>10. ASSUME NEW g \in known, g.metric = f.metric, g.year = f.year
         PROVE  h.from >= g.from
    <3>1. g \in FactsOf(ledger) /\ g.from \in 1 .. Len(ledger)
      BY <1>1, FactsAreTyped
    <3>2. ledger[g.from].accepted \in Nat /\ ledger[g.from].accepted <= asOf
      BY <1>1, <3>1, FilingsAreTyped
    <3>3. Available(ledger, g.from, now)
      BY <3>2 DEF Available
    <3>4. g \in m.sources
      BY <1>1, <2>5, <2>10, <3>1, <3>3, MetricsSpeak
    <3> QED  BY <1>1, <2>4, <3>4, MetricsSpeak
  <2> QED  BY <2>3, <2>4, <2>5, <2>9, <2>10
<1>3. \A receipts \in {built.receipts, built.contextual} : \A op \in DOMAIN receipts :
        \A i \in DOMAIN receipts[op] : receipts[op][i] \in items
  BY <1>1, ReportRests
<1> QED  BY <1>2, <1>3

\* Whatever is filed and for whatever issuer: activation can compute with every input that
\* accounting authority accepts, under the concept of the source or a better one, and what
\* rests on a source of a packet without exceptions is canonical
\* (buildCompanyAccountingAuthorityPacket, periodicFactAuthorityWithMapping).
THEOREM AnyAuthorityIsUsable ==
  ASSUME NEW issuer \in AnyIssuer, NEW ledger \in Seq(AnyFiling), NEW now, NEW asOf
  PROVE  LET built == Report(issuer, ledger, now, asOf)
             packet == Packet(issuer, ledger, Normalized(ledger, now), asOf)
         IN  /\ \A f \in packet.sources :
                  Numerical(issuer, f.concept) =>
                    /\ packet.inputs[f.metric] \in {"canonical", "reviewed_alias"}
                    /\ \E item \in built.numerical :
                         /\ item.metric = f.metric /\ item.year = f.year
                         /\ item.value = f.value
                         /\ SelectionRank(issuer, f.concept)
                              <= SelectionRank(issuer, item.concept)
             /\ packet.state = "data_ready" =>
                  \A item \in built.numerical \cup built.context :
                    item.evidence \cap packet.sources # {} =>
                      RankingEligible(issuer, item.concept)
<1> DEFINE built == Report(issuer, ledger, now, asOf)
           frozen == Normalized(ledger, now)
           packet == Packet(issuer, ledger, frozen, asOf)
           sources == ActiveAnnualSources(ledger, frozen, asOf)
           items == Eligible(issuer, ledger, frozen, asOf)
           Rank(f) == SelectionRank(issuer, f.concept)
<1>1. /\ packet.sources = sources
      /\ packet.inputs = [metric \in Metrics |->
                            InputDisposition(issuer, {f \in sources : f.metric = metric})]
      /\ packet.state = "data_ready" => Exceptions(issuer, sources) = {}
  BY DEF Packet, Metrics
<1>2. /\ built.numerical = {i \in items : Numerical(issuer, i.concept)}
      /\ built.context = {i \in items : Contextual(issuer, i.concept)}
  BY ReportRests
<1>3. ASSUME NEW f \in sources
      PROVE  \E m \in frozen : Usable(ledger, m, asOf) /\ f \in PeriodicFacts(ledger, m)
  <2>1. PICK m \in frozen :
          /\ Usable(ledger, m, asOf) /\ f \in m.sources /\ f.value = m.value
          /\ f.from \in Active(ledger, asOf)
    BY <1>3 DEF ActiveAnnualSources, SourceCandidates
  <2>2. ledger[f.from].form \in Annual
    BY <2>1 DEF Active, Unamended, Valid
  <2> QED  BY <2>1, <2>2 DEF PeriodicFacts
<1>4. ASSUME NEW m \in frozen
      PROVE  PeriodicFacts(ledger, m) \subseteq FactsOf(ledger)
  BY MetricsSpeak DEF PeriodicFacts
<1>5. sources \subseteq FactsOf(ledger)
  BY <1>3, <1>4
<1>6. \A f \in FactsOf(ledger) : f.metric \in Metrics /\ f.concept \in Concepts
  BY FactsAreTyped
<1>7. \A f \in FactsOf(ledger) :
        /\ Rank(f) \in 0 .. 3
        /\ Numerical(issuer, f.concept) <=> Rank(f) >= 2
        /\ RankingEligible(issuer, f.concept) <=> Rank(f) = 3
  BY <1>6, RanksTell
<1> HIDE DEF built, frozen, packet, sources, items
<1>8. ASSUME NEW f \in sources, Numerical(issuer, f.concept)
      PROVE  packet.inputs[f.metric] \in {"canonical", "reviewed_alias"}
  <2> DEFINE alike == {g \in sources : g.metric = f.metric}
             best == CHOOSE g \in alike : \A h \in alike : Rank(h) <= Rank(g)
  <2>1. f \in alike /\ alike \in SUBSET FactsOf(ledger) /\ alike # {}
    BY <1>5
  <2> HIDE DEF alike
  <2>2. PICK g \in alike : \A h \in alike : Rank(h) <= Rank(g)
    BY <2>1, BestExists
  <2>3. best \in alike /\ Rank(f) <= Rank(best)
    BY <2>1, <2>2
  <2>4. InputDisposition(issuer, alike) = Disposition(issuer, best.concept)
    BY <2>1 DEF InputDisposition
  <2> HIDE DEF best
  <2>5. Numerical(issuer, best.concept)
    BY <1>7, <1>8, <2>1, <2>3
  <2>6. packet.inputs[f.metric] = InputDisposition(issuer, alike)
    BY <1>1, <1>5, <1>6 DEF alike
  <2> QED  BY <2>4, <2>5, <2>6 DEF Numerical
<1>9. ASSUME NEW f \in sources, Numerical(issuer, f.concept)
      PROVE  \E item \in built.numerical :
               /\ item.metric = f.metric /\ item.year = f.year /\ item.value = f.value
               /\ SelectionRank(issuer, f.concept) <= SelectionRank(issuer, item.concept)
  <2>1. PICK m \in frozen : Usable(ledger, m, asOf) /\ f \in PeriodicFacts(ledger, m)
    BY <1>3, <1>9
  <2> DEFINE item == ItemOf(issuer, ledger, m)
  <2>2. /\ item.metric = m.metric /\ item.year = m.year /\ item.value = m.value
        /\ item.evidence \subseteq PeriodicFacts(ledger, m)
        /\ \E g \in item.evidence : item.concept = g.concept
        /\ \A g \in item.evidence : Rank(f) <= Rank(g)
    BY <2>1, ItemsRest DEF frozen
  <2>3. item \in items
    BY <2>1 DEF items, Eligible
  <2> HIDE DEF item
  <2>4. PICK g \in item.evidence : item.concept = g.concept
    BY <2>2
  <2>5. Rank(f) <= Rank(g) /\ g \in FactsOf(ledger) /\ f \in FactsOf(ledger)
    BY <1>4, <1>5, <2>2
  <2>6. Numerical(issuer, g.concept)
    BY <1>7, <1>9, <2>5
  <2>7. f.metric = m.metric /\ f.year = m.year /\ f.value = m.value
    BY <2>1, MetricsSpeak DEF PeriodicFacts, frozen
  <2> QED  BY <1>2, <2>2, <2>3, <2>4, <2>5, <2>6, <2>7
<1>10. ASSUME packet.state = "data_ready", NEW item \in built.numerical \cup built.context,
              NEW f \in item.evidence \cap packet.sources
       PROVE  RankingEligible(issuer, item.concept)
  <2>1. PICK m \in frozen : PeriodicFacts(ledger, m) # {} /\ item = ItemOf(issuer, ledger, m)
    BY <1>2, <1>10, ItemsAreMade DEF items, frozen
  <2>2. PICK g \in item.evidence : item.concept = g.concept
    BY <2>1, ItemsRest DEF frozen
  <2>3. /\ f \in PeriodicFacts(ledger, m) /\ g \in PeriodicFacts(ledger, m)
        /\ Rank(f) <= Rank(g)
    BY <1>10, <2>1, <2>2, ItemsRest DEF frozen
  <2>4. RankingEligible(issuer, f.concept)
    BY <1>1, <1>10 DEF Exceptions, RankingEligible
  <2> QED  BY <1>4, <1>7, <2>2, <2>3, <2>4
<1>11. \A item \in built.numerical \cup built.context :
         packet.state = "data_ready" /\ item.evidence \cap packet.sources # {} =>
           RankingEligible(issuer, item.concept)
  BY <1>10
<1> HIDE DEF Rank
<1>12. /\ \A f \in packet.sources :
            Numerical(issuer, f.concept) =>
              /\ packet.inputs[f.metric] \in {"canonical", "reviewed_alias"}
              /\ \E item \in built.numerical :
                   /\ item.metric = f.metric /\ item.year = f.year /\ item.value = f.value
                   /\ SelectionRank(issuer, f.concept) <= SelectionRank(issuer, item.concept)
       /\ packet.state = "data_ready" =>
            \A item \in built.numerical \cup built.context :
              item.evidence \cap packet.sources # {} => RankingEligible(issuer, item.concept)
  BY <1>1, <1>8, <1>9, <1>11
<1> QED  BY <1>12 DEF built, packet, frozen

-----------------------------------------------------------------------------
(* Two companies.                                                          *)

\* Any company with a report of its filings.
Reported(company) ==
  /\ company.issuer \in AnyIssuer /\ company.lag \in Nat
  /\ \E ledger \in Seq(AnyFiling) : \E now, asOf \in Nat :
       company.report = Report(company.issuer, ledger, now, asOf)

LastEndOf(company, op) ==
  LET receipts == company.report.receipts
  IN  Max({2 * i.year + company.lag : i \in {receipts[op][id] : id \in DOMAIN receipts[op]}})

\* What an operand that may be ranked tells of its receipt: every input is canonical, and
\* the period ends with the last of them (financialOperand, betterAuthorizedMetric).
LEMMA RankedIsCanonical ==
  ASSUME NEW company, Reported(company), NEW op \in CompanyOperations,
         Has(company, op), Operand(company, op).ranked
  PROVE  LET receipts == company.report.receipts
         IN  /\ op \in DOMAIN receipts
             /\ \A i \in DOMAIN receipts[op] : \A f \in receipts[op][i].evidence :
                  f.concept \in {"ContractRevenue", "PropertyPlantEquipment", "OperatingCash"}
             /\ Operand(company, op).end = LastEndOf(company, op)
             /\ Operand(company, op).end \in Int
<1> DEFINE issuer == company.issuer
           inputs == company.report.receipts[op]
<1>1. /\ op \in DOMAIN company.report.receipts
      /\ \A i \in DOMAIN inputs : RankingEligible(issuer, inputs[i].concept)
      /\ Operand(company, op).end = 2 * Max({inputs[i].year : i \in DOMAIN inputs}) + company.lag
  BY DEF Operand, InputAuthorities
<1>2. PICK ledger \in Seq(AnyFiling), now \in Nat, asOf \in Nat :
        company.report = Report(issuer, ledger, now, asOf)
  BY DEF Reported
<1> DEFINE items == Eligible(issuer, ledger, Normalized(ledger, now), asOf)
<1>3. issuer \in AnyIssuer /\ company.lag \in Nat
  BY DEF Reported
<1>4. DOMAIN inputs # {} /\ \A i \in DOMAIN inputs : inputs[i] \in items
  BY <1>1, <1>2, <1>3, ReportRests
<1> HIDE DEF issuer, inputs
<1>5. ASSUME NEW i \in DOMAIN inputs
      PROVE  /\ inputs[i].year \in Years
             /\ \A f \in inputs[i].evidence :
                  f.concept \in {"ContractRevenue", "PropertyPlantEquipment", "OperatingCash"}
  <2>1. PICK m \in Normalized(ledger, now) :
          PeriodicFacts(ledger, m) # {} /\ inputs[i] = ItemOf(issuer, ledger, m)
    BY <1>3, <1>4, ItemsAreMade
  <2>2. inputs[i].year = m.year /\ m.year \in Years
    BY <1>3, <2>1, ItemsRest, MetricsSpeak
  <2>3. PICK g \in inputs[i].evidence : inputs[i].concept = g.concept
    BY <1>3, <2>1, ItemsRest
  <2>4. RankingEligible(issuer, g.concept)
    BY <1>1, <2>3
  <2>5. ASSUME NEW f \in inputs[i].evidence
        PROVE  f.concept \in {"ContractRevenue", "PropertyPlantEquipment", "OperatingCash"}
    <3>1. /\ f \in PeriodicFacts(ledger, m) /\ g \in PeriodicFacts(ledger, m)
          /\ SelectionRank(issuer, g.concept) <= SelectionRank(issuer, f.concept)
      BY <1>3, <2>1, <2>3, <2>5, ItemsRest
    <3>2. f \in FactsOf(ledger) /\ g \in FactsOf(ledger)
      BY <3>1, MetricsSpeak DEF PeriodicFacts
    <3>3. f.concept \in Concepts /\ g.concept \in Concepts
      BY <3>2, FactsAreTyped
    <3>4. SelectionRank(issuer, g.concept) = 3 /\ SelectionRank(issuer, f.concept) \in 0 .. 3
      BY <1>3, <2>4, <3>3, RanksTell
    <3>5. SelectionRank(issuer, f.concept) = 3
      BY <3>1, <3>4
    <3> QED  BY <1>3, <3>3, <3>5, RanksTell
  <2> QED  BY <2>2, <2>5
<1> DEFINE years == {inputs[i].year : i \in DOMAIN inputs}
           ends == {2 * i.year + company.lag : i \in {inputs[id] : id \in DOMAIN inputs}}
<1>6. years \in SUBSET Years /\ years # {}
  BY <1>4, <1>5
<1>7. Max(years) \in years /\ \A y \in years : y <= Max(years)
  <2>1. LastYear \in Nat
    BY CalendarAssumption
  <2>2. years \in SUBSET (0 .. LastYear)
    BY <1>6, <2>1 DEF Years
  <2> HIDE DEF years
  <2> QED  BY <1>6, <2>1, <2>2, Largest
<1>8. Max(years) \in Int /\ \A y \in years : y \in Int
  BY <1>6, <1>7 DEF Years
<1>9. Max(ends) = 2 * Max(years) + company.lag
  <2> DEFINE last == 2 * Max(years) + company.lag
  <2>1. ends = {2 * y + company.lag : y \in years}
    OBVIOUS
  <2> HIDE DEF years, ends
  <2>2. ends \in SUBSET Int /\ last \in ends /\ \A e \in ends : e <= last
    BY <1>3, <1>7, <1>8, <2>1
  <2> QED  BY <2>2, LargestIs
<1>10. LastEndOf(company, op) = Max(ends)
  BY DEF LastEndOf, inputs
<1>11. Operand(company, op).end = LastEndOf(company, op) /\ Operand(company, op).end \in Int
  <2> HIDE DEF ends
  <2> QED  BY <1>1, <1>3, <1>8, <1>9, <1>10
<1> QED  BY <1>1, <1>5, <1>11 DEF inputs

\* Whatever two companies filed, only like is ranked with like: canonical inputs on both
\* sides, periods that end within half a year, and without a caveat on the same day
\* (Evaluate, financialOperand).
THEOREM AnyPairIsLikeForLike ==
  ASSUME NEW a, NEW b, Reported(a), Reported(b), NEW op \in CompanyOperations,
         Releasable(Compared(a, b, op))
  PROVE  /\ \A c \in {a, b} :
              /\ op \in DOMAIN c.report.receipts
              /\ \A i \in DOMAIN c.report.receipts[op] :
                   \A f \in c.report.receipts[op][i].evidence :
                     f.concept \in {"ContractRevenue", "PropertyPlantEquipment", "OperatingCash"}
         /\ LastEndOf(a, op) - LastEndOf(b, op) \in -1 .. 1
         /\ Compared(a, b, op) = "comparable" => LastEndOf(a, op) = LastEndOf(b, op)
<1> DEFINE left == Operand(a, op)
           right == Operand(b, op)
<1>1. Has(a, op) /\ Has(b, op) /\ Compared(a, b, op) = Evaluate(left, right)
  BY DEF Compared, Releasable
<1>2. Evaluate(left, right) \in {"comparable", "comparable_with_caveat"}
  BY <1>1 DEF Releasable
<1> HIDE DEF left, right
<1>3. left.ranked /\ right.ranked /\ Alike(left, right)
  BY <1>2 DEF Evaluate
<1>4. Evaluate(left, right) = "comparable" => left.end = right.end
  BY <1>2, <1>3 DEF Evaluate, Caveats
<1>5. \A c \in {a, b} :
        /\ op \in DOMAIN c.report.receipts
        /\ \A i \in DOMAIN c.report.receipts[op] :
             \A f \in c.report.receipts[op][i].evidence :
               f.concept \in {"ContractRevenue", "PropertyPlantEquipment", "OperatingCash"}
        /\ Operand(c, op).end = LastEndOf(c, op) /\ Operand(c, op).end \in Int
  BY <1>1, <1>3, RankedIsCanonical DEF left, right
<1>6. left.end - right.end \in -1 .. 1
  BY <1>3, <1>5 DEF Alike, Apart, MaxEndDelta, left, right
<1> QED  BY <1>1, <1>4, <1>5, <1>6 DEF left, right

-----------------------------------------------------------------------------
(* The company under study.                                                *)

\* Its filings are accepted one after the other, up to now.
StudyInv ==
  /\ study \in [issuer : AnyIssuer, ledger : Seq(AnyFiling), now : 2 .. MaxNow,
                asOf : 0 .. MaxNow]
  /\ InOrderOfAcceptance(study.ledger)
  /\ \A i \in 1 .. Len(study.ledger) : study.ledger[i].accepted <= study.now
  /\ study.asOf <= study.now

\* What is filed is a filing.
LEMMA FiledIsFiling ==
  ASSUME NEW form \in {"10-K", "10-K/A", "8-K"}, NEW y \in Nat,
         NEW lines \in ContentsOf(form, y), NEW now \in Nat
  PROVE  /\ Filing(form, y, lines, now) \in AnyFiling
         /\ Filing(form, y, lines, now).accepted = now
<1>1. \A l \in lines : l.year \in Years => l \in AnyLine
  BY DEF ContentsOf, Line, AnyLine, Metrics, Concepts
<1>2. {l \in lines : l.year \in Years} \in SUBSET AnyLine
  BY <1>1
<1> QED  BY <1>2 DEF Filing, AnyFiling, Annual

\* The order of acceptance is kept by a filing that is accepted now.
LEMMA StudyGoesOn == StudyInv /\ [ActivationNext]_study => StudyInv'
<1> SUFFICES ASSUME StudyInv, [ActivationNext]_study PROVE StudyInv'
  OBVIOUS
<1> USE CalendarAssumption
<1>1. ASSUME NEW form \in {"10-K", "10-K/A", "8-K"}, NEW y \in Years, Accept(form, y)
      PROVE  StudyInv'
  <2>1. PICK lines \in ContentsOf(form, y) :
          study' = [study EXCEPT !.ledger = Append(@, Filing(form, y, lines, study.now))]
    BY <1>1 DEF Accept
  <2> DEFINE filing == Filing(form, y, lines, study.now)
             ledger == study.ledger
             longer == Append(ledger, filing)
  <2>2. y \in Nat /\ study.now \in Nat
    BY DEF Years, StudyInv
  <2>3. filing \in AnyFiling /\ filing.accepted = study.now
    BY <2>1, <2>2, FiledIsFiling
  <2>4. ledger \in Seq(AnyFiling)
    BY DEF StudyInv
  <2> HIDE DEF filing
  <2>5. /\ longer \in Seq(AnyFiling) /\ Len(longer) = Len(ledger) + 1
        /\ \A i \in 1 .. Len(ledger) : longer[i] = ledger[i]
        /\ longer[Len(ledger) + 1] = filing
        /\ Len(ledger) \in Nat
    BY <2>3, <2>4
  <2>6. /\ study'.issuer = study.issuer /\ study'.now = study.now /\ study'.asOf = study.asOf
        /\ study'.ledger = longer
        /\ study' = [issuer |-> study'.issuer, ledger |-> study'.ledger, now |-> study'.now,
                     asOf |-> study'.asOf]
    BY <2>1 DEF StudyInv, filing
  <2> HIDE DEF longer
  <2>7. \A i \in 1 .. Len(longer) :
          \/ i \in 1 .. Len(ledger) /\ longer[i] = ledger[i]
          \/ i = Len(ledger) + 1 /\ longer[i].accepted = study.now
    BY <2>3, <2>5
  <2>8. \A i \in 1 .. Len(longer) : longer[i].accepted <= study.now
    BY <2>2, <2>7 DEF StudyInv, ledger
  <2>9. ASSUME NEW i \in 1 .. Len(longer), NEW j \in 1 .. Len(longer), i <= j
        PROVE  longer[i].accepted <= longer[j].accepted
    <3>1. CASE j \in 1 .. Len(ledger)
      <4>1. i \in 1 .. Len(ledger) /\ longer[i] = ledger[i] /\ longer[j] = ledger[j]
        BY <2>5, <2>9, <3>1
      <4> QED  BY <2>9, <3>1, <4>1 DEF StudyInv, InOrderOfAcceptance, ledger
    <3>2. CASE j \notin 1 .. Len(ledger)
      BY <2>7, <2>8, <3>2
    <3> QED  BY <3>1, <3>2
  <2> QED  BY <2>5, <2>6, <2>8, <2>9 DEF StudyInv, InOrderOfAcceptance
<1>2. CASE Later
  <2>1. /\ study'.issuer = study.issuer /\ study'.now = study.now + 1
        /\ study'.ledger = study.ledger /\ study'.asOf = study.asOf
        /\ study' \in [issuer : AnyIssuer, ledger : Seq(AnyFiling), now : 2 .. MaxNow,
                       asOf : 0 .. MaxNow]
    BY <1>2 DEF Later, StudyInv
  <2>2. \A i \in 1 .. Len(study.ledger) : study.ledger[i].accepted \in Nat
    BY FilingsAreTyped DEF StudyInv
  <2>3. study.now \in Nat /\ study.asOf \in Nat
    BY DEF StudyInv
  <2>4. \A i \in 1 .. Len(study.ledger) : study.ledger[i].accepted <= study.now + 1
    BY <2>2, <2>3 DEF StudyInv
  <2>5. study.asOf <= study.now + 1
    BY <2>3 DEF StudyInv
  <2>6. InOrderOfAcceptance(study'.ledger)
    BY <2>1 DEF StudyInv
  <2> QED  BY <2>1, <2>4, <2>5, <2>6 DEF StudyInv
<1>3. ASSUME NEW asOf \in 2 .. MaxNow, Build(asOf) PROVE StudyInv'
  <2>1. /\ study'.issuer = study.issuer /\ study'.now = study.now
        /\ study'.ledger = study.ledger /\ study'.asOf = asOf /\ asOf <= study.now
        /\ study' \in [issuer : AnyIssuer, ledger : Seq(AnyFiling), now : 2 .. MaxNow,
                       asOf : 0 .. MaxNow]
    BY <1>3 DEF Build, StudyInv
  <2> QED  BY <2>1 DEF StudyInv, InOrderOfAcceptance
<1>4. CASE UNCHANGED study
  BY <1>4 DEF StudyInv, InOrderOfAcceptance
<1> QED  BY <1>1, <1>2, <1>3, <1>4 DEF ActivationNext

\* The study keeps to the order of acceptance.
LEMMA StudyInvariant == ActivationSpec => []StudyInv
<1>1. ActivationInit => StudyInv
  <2> SUFFICES ASSUME ActivationInit PROVE StudyInv
    OBVIOUS
  <2>1. PICK issuer \in Issuers :
          study = [issuer |-> issuer, ledger |-> << >>, now |-> 2, asOf |-> 0]
    BY DEF ActivationInit
  <2>2. issuer \in AnyIssuer
    <3>1. /\ [revenueAlias |-> TRUE, productiveAssets |-> "context_only"] \in AnyIssuer
          /\ [revenueAlias |-> FALSE, productiveAssets |-> "reviewed_alias"] \in AnyIssuer
          /\ [revenueAlias |-> FALSE, productiveAssets |-> "rejected"] \in AnyIssuer
      BY DEF AnyIssuer
    <3> QED  BY <3>1, Zenon DEF Issuers
  <2>3. << >> \in Seq(AnyFiling) /\ Len(<< >>) = 0
    OBVIOUS
  <2>4. InOrderOfAcceptance(<< >>)
    BY <2>3 DEF InOrderOfAcceptance
  <2>5. study.ledger = << >> /\ study.now = 2 /\ study.asOf = 0
    BY <2>1
  <2>6. study \in [issuer : AnyIssuer, ledger : Seq(AnyFiling), now : 2 .. MaxNow,
                   asOf : 0 .. MaxNow]
    BY <2>1, <2>2, <2>3, CalendarAssumption
  <2>7. InOrderOfAcceptance(study.ledger) /\ Len(study.ledger) = 0 /\ study.asOf <= study.now
    BY <2>3, <2>4, <2>5
  <2> QED  BY <2>6, <2>7 DEF StudyInv
<1> QED  BY <1>1, StudyGoesOn, PTL DEF ActivationSpec

\* Receipts rest on the last word, for any number of filings, years and as-of dates.
THEOREM ReceiptsKeepTheLastWord == ActivationSpec => []ReceiptsAreTheLastWord
<1>1. StudyInv => ReceiptsAreTheLastWord
  <2> SUFFICES ASSUME StudyInv PROVE ReceiptsAreTheLastWord
    OBVIOUS
  <2>1. /\ study.issuer \in AnyIssuer /\ InOrderOfAcceptance(study.ledger)
        /\ study.now \in Nat /\ study.asOf \in 0 .. study.now
    BY DEF StudyInv
  <2> QED  BY <2>1, AnyReceiptIsTheLastWord DEF ReceiptsAreTheLastWord, BuiltReport
<1> QED  BY <1>1, StudyInvariant, PTL

\* What accounting authority accepts can be computed with, in the same generality.
THEOREM AuthorityStaysUsable == ActivationSpec => []AuthorityIsUsable
<1>1. StudyInv => AuthorityIsUsable
  <2> SUFFICES ASSUME StudyInv PROVE AuthorityIsUsable
    OBVIOUS
  <2>1. study.issuer \in AnyIssuer /\ study.ledger \in Seq(AnyFiling)
    BY DEF StudyInv
  <2> QED  BY <2>1, AnyAuthorityIsUsable DEF AuthorityIsUsable, BuiltReport, Frozen
<1> QED  BY <1>1, StudyInvariant, PTL

\* The rivals are companies.
LEMMA RivalsReport ==
  ASSUME NEW now \in 2 .. MaxNow, NEW asOf \in 1 .. MaxNow, NEW rival \in RivalsAt[now][asOf]
  PROVE  Reported(rival)
<1> USE CalendarAssumption
<1>1. PICK r \in Rivals :
        rival = [issuer |-> r.issuer, lag |-> r.lag,
                 report |-> Report(r.issuer, r.ledger, now, asOf)]
  BY DEF RivalsAt
<1>2. ASSUME NEW y \in 1 .. 2, NEW revenue \in Concepts, NEW capex \in Concepts
      PROVE  Original(y, revenue, capex) \in AnyFiling
  <2> DEFINE lines == {Line("revenue", revenue, y, 1), Line("revenue", revenue, y - 1, 1),
                       Line("capex", capex, y, 1), Line("ocf", "OperatingCash", y, 1)}
  <2>1. \A l \in lines : l.year \in Years => l \in AnyLine
    BY DEF Line, AnyLine, Metrics, Concepts
  <2> HIDE DEF lines
  <2>2. {l \in lines : l.year \in Years} \in SUBSET AnyLine
    BY <2>1
  <2>3. Original(y, revenue, capex) = Filing("10-K", y, lines, y + 1)
    BY DEF Original, lines
  <2> QED  BY <2>2, <2>3 DEF Filing, AnyFiling, Annual
<1>3. /\ r.issuer \in AnyIssuer /\ r.lag \in Nat
      /\ r.ledger \in Seq(AnyFiling)
  <2>1. PlainIssuer \in AnyIssuer /\ BroadIssuer \in AnyIssuer
    BY DEF PlainIssuer, BroadIssuer, AnyIssuer
  <2> DEFINE plain(y) == Original(y, "ContractRevenue", "PropertyPlantEquipment")
             broad(y) == Original(y, "Revenues", "ProductiveAssets")
  <2>2. plain(1) \in AnyFiling /\ plain(2) \in AnyFiling
        /\ broad(1) \in AnyFiling /\ broad(2) \in AnyFiling
    BY <1>2 DEF Concepts
  <2>3. \/ \E lag \in 0 .. 1 :
             r = [issuer |-> PlainIssuer, lag |-> lag, ledger |-> <<plain(1), plain(2)>>]
        \/ r = [issuer |-> BroadIssuer, lag |-> 0, ledger |-> <<broad(1), broad(2)>>]
        \/ r = [issuer |-> PlainIssuer, lag |-> 0, ledger |-> <<plain(1)>>]
    BY DEF Rivals
  <2> HIDE DEF plain, broad
  <2>4. /\ <<plain(1), plain(2)>> \in Seq(AnyFiling)
        /\ <<broad(1), broad(2)>> \in Seq(AnyFiling)
        /\ <<plain(1)>> \in Seq(AnyFiling)
    BY <2>2
  <2> DEFINE both == <<plain(1), plain(2)>>
             theirs == <<broad(1), broad(2)>>
             one == <<plain(1)>>
  <2>5. \/ \E lag \in 0 .. 1 : r = [issuer |-> PlainIssuer, lag |-> lag, ledger |-> both]
        \/ r = [issuer |-> BroadIssuer, lag |-> 0, ledger |-> theirs]
        \/ r = [issuer |-> PlainIssuer, lag |-> 0, ledger |-> one]
    BY <2>3
  <2>6. both \in Seq(AnyFiling) /\ theirs \in Seq(AnyFiling) /\ one \in Seq(AnyFiling)
    BY <2>4
  <2> HIDE DEF both, theirs, one
  <2> QED  BY <2>1, <2>5, <2>6
<1>4. now \in Nat /\ asOf \in Nat
  OBVIOUS
<1> QED  BY <1>1, <1>3, <1>4 DEF Reported

\* And only like is ranked with like.
THEOREM PairsStayLikeForLike == ActivationSpec => []RankedPairsAreLikeForLike
<1>1. StudyInv => RankedPairsAreLikeForLike
  <2> SUFFICES ASSUME StudyInv, study.asOf # 0,
                      NEW rival \in RivalsAt[study.now][study.asOf],
                      NEW op \in CompanyOperations
               PROVE  LET self == [issuer |-> study.issuer, lag |-> 0, report |-> BuiltReport]
                          Canonical(company) ==
                            \A i \in DOMAIN company.report.receipts[op] :
                              \A f \in company.report.receipts[op][i].evidence :
                                f.concept \in {"ContractRevenue", "PropertyPlantEquipment",
                                               "OperatingCash"}
                          disposition == Compared(self, rival, op)
                      IN  Releasable(disposition) =>
                            /\ op \in DOMAIN self.report.receipts /\ Canonical(self)
                            /\ op \in DOMAIN rival.report.receipts /\ Canonical(rival)
                            /\ LastEndOf(self, op) - LastEndOf(rival, op) \in -1 .. 1
                            /\ disposition = "comparable" =>
                                 LastEndOf(self, op) = LastEndOf(rival, op)
    BY DEF RankedPairsAreLikeForLike, LastEndOf
  <2> DEFINE self == [issuer |-> study.issuer, lag |-> 0, report |-> BuiltReport]
  <2>1. Reported(rival)
    BY RivalsReport DEF StudyInv
  <2>2. Reported(self)
    <3>1. /\ study.issuer \in AnyIssuer /\ study.ledger \in Seq(AnyFiling)
          /\ study.now \in Nat /\ study.asOf \in Nat
      BY DEF StudyInv
    <3>2. self.report = Report(self.issuer, study.ledger, study.now, study.asOf)
      BY DEF BuiltReport
    <3>3. self.issuer \in AnyIssuer /\ self.lag \in Nat
      BY <3>1
    <3> HIDE DEF self
    <3> QED  BY <3>1, <3>2, <3>3 DEF Reported
  <2> HIDE DEF self
  <2>3. Releasable(Compared(self, rival, op)) =>
          /\ \A c \in {self, rival} :
               /\ op \in DOMAIN c.report.receipts
               /\ \A i \in DOMAIN c.report.receipts[op] :
                    \A f \in c.report.receipts[op][i].evidence :
                      f.concept \in {"ContractRevenue", "PropertyPlantEquipment", "OperatingCash"}
          /\ LastEndOf(self, op) - LastEndOf(rival, op) \in -1 .. 1
          /\ Compared(self, rival, op) = "comparable" => LastEndOf(self, op) = LastEndOf(rival, op)
    BY <2>1, <2>2, AnyPairIsLikeForLike
  <2> QED  BY <2>3 DEF self
<1> QED  BY <1>1, StudyInvariant, PTL

-----------------------------------------------------------------------------
(* Conversation: what a chain of follow-ups inherits, for any calendar.    *)

\* What is asked for is typed, is not about a time to come, and sets two companies
\* against each other or none.
Asked(s, now) ==
  /\ s.period.year \in Int /\ s.asOf \in Int
  /\ s.asOf <= now
  /\ s.period.kind = "range" => s.period.year <= now
  /\ s.period.kind = "fiscal_year" => s.period.year <= now + 1
  /\ s.comparison.mode = "peer" =>
       s.comparison.companies = s.entities /\ Cardinality(s.entities) = 2

\* A request that is bound to its authority, and is ready to compare a promoted pair only.
Bound(r, now) ==
  /\ Asked(r, now)
  /\ r.comparison.mode = "peer" /\ r.authority = "comparison_ready" =>
       PairPromoted(r.comparison.companies)

\* A run asks for what may be asked now, and the case it may become a follow-up of did
\* so when it was asked, which is not later.
TalkInv ==
  /\ talk = [now |-> talk.now, parent |-> talk.parent, run |-> talk.run]
  /\ talk.now \in Nat
  /\ talk.parent = Nobody \/ Asked(talk.parent, talk.now)
  /\ talk.run.status = "planned" => Bound(talk.run.request, talk.now)

\* What a question says of its moment has a year.
LEMMA MomentsHaveYears ==
  \A q \in Questions \cup FollowUpQuestions : q.moment.year \in Int
<1>1. ASSUME NEW m \in Moments PROVE m.year \in Int
  <2>1. CASE \E k : m = [kind |-> k, year |-> 0, spelled |-> TRUE]
    BY <2>1
  <2>2. CASE m \in [kind : {"range"}, year : {0, 2}, spelled : BOOLEAN]
    <3>1. m.year \in {0, 2}
      BY <2>2, Zenon
    <3> QED BY <3>1
  <2>3. CASE m \in [kind : {"fiscal_year"}, year : {1, 3}, spelled : BOOLEAN]
    <3>1. m.year \in {1, 3}
      BY <2>3, Zenon
    <3> QED BY <3>1
  <2> QED BY <1>1, <2>1, <2>2, <2>3, Zenon DEF Moments
<1>2. ASSUME NEW m \in Undated PROVE m.year \in Int
  BY <1>2 DEF Undated
<1>3. ASSUME NEW ps, NEW ms, NEW q \in Asks(ps, ms) PROVE q.moment \in ms
  BY <1>3 DEF Asks
<1> QED BY <1>1, <1>2, <1>3 DEF Questions, FollowUpQuestions

\* The request of any question that asks for an allowed period and whose companies are
\* governed is as it should be, whatever it inherits from a case that was.
LEMMA AnyRequestIsAsked ==
  ASSUME NEW q, NEW intent, NEW now \in Nat, NEW parent,
         q.moment.year \in Int,
         parent = Nobody \/ Asked(parent, now),
         ~RequestOf(q, intent, now, parent).ambiguous,
         Governed(RequestOf(q, intent, now, parent))
  PROVE  Asked(RequestOf(q, intent, now, parent), now)
<1> DEFINE r == RequestOf(q, intent, now, parent)
           inherits == parent.entities # {}
<1>1. PeriodAllowed(q.moment, now)
  BY DEF RequestOf
<1>2. inherits => Asked(parent, now)
  BY DEF Nobody
<1>3. /\ r.period.year \in Int
      /\ r.period.kind = "range" => r.period.year <= now
      /\ r.period.kind = "fiscal_year" => r.period.year <= now + 1
  <2>1. CASE inherits /\ ~HasExplicitPeriod(q.moment)
    <3>1. r.period = parent.period
      BY <2>1 DEF RequestOf
    <3> QED BY <1>2, <2>1, <3>1 DEF Asked
  <2>2. CASE ~(inherits /\ ~HasExplicitPeriod(q.moment))
    <3>1. r.period = PeriodOf(q.moment)
      BY <2>2 DEF RequestOf
    <3> HIDE DEF r
    <3> QED BY <1>1, <3>1 DEF PeriodOf, PeriodAllowed, Latest
  <2> QED BY <2>1, <2>2
<1>4. r.asOf \in Int /\ r.asOf <= now
  <2>1. r.asOf = IF inherits /\ ~RequestsFreshAsOf(q.moment) THEN parent.asOf ELSE now
    BY DEF RequestOf
  <2> HIDE DEF r
  <2> QED BY <1>2, <2>1 DEF Asked
<1>5. ASSUME r.comparison.mode = "peer"
      PROVE  r.comparison.companies = r.entities /\ Cardinality(r.entities) = 2
  <2> DEFINE kept == inherits /\ ~HasExplicitComparison(q)
             told == IF kept THEN parent.comparison ELSE Comparison(q)
  <2>1. /\ r.entities = (IF q.named = {} THEN parent.entities ELSE q.named)
        /\ r.comparison = CompletedComparison(told, r.entities)
    BY DEF RequestOf
  <2>2. Cardinality(r.entities) = 2
    BY <1>5 DEF Governed
  <2>3. CASE kept
    <3>1. q.named = {}
      BY <2>1, <2>2, <2>3 DEF HasExplicitComparison
    <3>2. Asked(parent, now) /\ parent.entities # {}
      BY <1>2, <2>3
    <3>3. r.comparison = CompletedComparison(parent.comparison, parent.entities)
      BY <2>1, <2>3, <3>1
    <3>4. parent.comparison.mode = "peer" /\ parent.comparison.companies = {} =>
            parent.entities = {}
      BY <3>2 DEF Asked
    <3>5. r.comparison = parent.comparison
      BY <3>2, <3>3, <3>4 DEF CompletedComparison
    <3> HIDE DEF r, kept, told
    <3> QED BY <1>5, <2>1, <2>2, <3>1, <3>2, <3>5 DEF Asked
  <2>4. CASE ~kept
    <3>1. r.comparison = CompletedComparison(Comparison(q), r.entities)
      BY <2>1, <2>4
    <3> HIDE DEF r, kept, told
    <3>2. CASE HasExplicitComparison(q)
      <4>1. Comparison(q) = [mode |-> "peer", companies |-> q.named]
        BY <3>2 DEF Comparison
      <4> QED BY <2>1, <2>2, <3>1, <4>1 DEF CompletedComparison
    <3>3. CASE ~HasExplicitComparison(q)
      BY <1>5, <3>1, <3>3 DEF Comparison, CompletedComparison
    <3> QED BY <3>2, <3>3
  <2> QED BY <2>3, <2>4
<1> HIDE DEF r
<1> QED BY <1>3, <1>4, <1>5 DEF Asked, r

\* A run that is planned is bound to a request as it should be.
LEMMA OutcomesAreBound ==
  ASSUME NEW q, NEW now \in Nat, NEW parent,
         q.moment.year \in Int,
         parent = Nobody \/ Asked(parent, now),
         RunOf(q, now, parent).status = "planned"
  PROVE  Bound(RunOf(q, now, parent).request, now)
<1> DEFINE intent == CHOOSE i \in InterpretQuestion(q) : TRUE
           asked == RequestOf(q, intent, now, parent)
           request == [asked EXCEPT !.authority = AuthorityState(asked)]
           plan == Steps(ContextRoles(q, request), Detected(q))
<1>1. \A why : Refused(why).status # "planned"
  BY DEF Refused
<1>2. RunOf(q, now, parent) = BindAndBuild(q, asked)
  BY <1>1 DEF RunOf
<1> HIDE DEF asked
<1>3. /\ Governed(asked)
      /\ RunOf(q, now, parent) = PlanOf(q, request)
  BY <1>1, <1>2 DEF BindAndBuild
<1> HIDE DEF request
<1>4. /\ ~request.ambiguous
      /\ RunOf(q, now, parent) = PlanBuilt(request, plan)
  BY <1>1, <1>3 DEF PlanOf
<1> HIDE DEF plan
<1>5. RunOf(q, now, parent).request = request
  BY <1>1, <1>4 DEF PlanBuilt
<1>6. /\ request.ambiguous = asked.ambiguous /\ request.period = asked.period
      /\ request.asOf = asked.asOf /\ request.comparison = asked.comparison
      /\ request.entities = asked.entities
      /\ request.authority = AuthorityState(asked)
  BY DEF request, asked, RequestOf
<1>7. Asked(asked, now)
  BY <1>3, <1>4, <1>6, AnyRequestIsAsked DEF asked
<1>8. Asked(request, now)
  BY <1>6, <1>7 DEF Asked
<1>9. asked.comparison.mode = "peer" /\ AuthorityState(asked) = "comparison_ready" =>
        PairPromoted(asked.entities)
  BY DEF AuthorityState
<1> QED BY <1>5, <1>6, <1>7, <1>8, <1>9 DEF Bound, Asked

\* What may be asked stays what may be asked.
LEMMA AskedLater ==
  ASSUME NEW now \in Nat, NEW s, Asked(s, now)
  PROVE  Asked(s, now + 1)
BY DEF Asked

LEMMA TalkGoesOn == TalkInv /\ [ConversationNext]_talk => TalkInv'
<1> SUFFICES ASSUME TalkInv, [ConversationNext]_talk PROVE TalkInv'
  OBVIOUS
<1> USE DEF TalkInv
<1>1. ASSUME NEW outcome, talk' = [talk EXCEPT !.run = outcome],
             outcome.status = "planned" => Bound(outcome.request, talk.now)
      PROVE  TalkInv'
  <2>1. talk' = [now |-> talk.now, parent |-> talk.parent, run |-> outcome]
    BY <1>1
  <2> QED BY <1>1, <2>1
<1>2. Idle.status # "planned"
  BY DEF Idle
<1>3. CASE AskQuestion
  <2>1. PICK q \in Questions :
          talk' = [talk EXCEPT !.run = RunOf(q, talk.now, Nobody)]
    BY <1>3 DEF AskQuestion
  <2>2. q.moment.year \in Int
    BY MomentsHaveYears
  <2> HIDE DEF TalkInv
  <2>3. talk.now \in Nat
    BY DEF TalkInv
  <2> QED BY <1>1, <2>1, <2>2, <2>3, OutcomesAreBound
<1>4. CASE FollowUp
  <2>1. PICK q \in FollowUpQuestions :
          talk' = [talk EXCEPT !.run = RunOf(q, talk.now, talk.parent)]
    BY <1>4 DEF FollowUp
  <2>2. q.moment.year \in Int
    BY MomentsHaveYears
  <2> HIDE DEF TalkInv
  <2>3. talk.now \in Nat /\ (talk.parent = Nobody \/ Asked(talk.parent, talk.now))
    BY DEF TalkInv
  <2> QED BY <1>1, <2>1, <2>2, <2>3, OutcomesAreBound
<1>5. CASE Answered
  <2>1. /\ talk.run.status = "planned"
        /\ talk' = [now |-> talk.now, parent |-> Scope(talk.run.request),
                    run |-> Idle]
    BY <1>5 DEF Answered
  <2>2. Asked(Scope(talk.run.request), talk.now)
    BY <2>1 DEF Bound, Asked, Scope
  <2> QED BY <1>2, <2>1, <2>2
<1>6. CASE Fails
  BY <1>1, <1>2, <1>6 DEF Fails
<1>7. CASE YearPasses
  <2>1. /\ talk' = [now |-> talk.now + 1, parent |-> talk.parent, run |-> talk.run]
        /\ talk.run = Idle
    BY <1>7 DEF YearPasses
  <2> QED BY <1>2, <2>1, AskedLater
<1>8. CASE UNCHANGED talk
  BY <1>8
<1> QED BY <1>3, <1>4, <1>5, <1>6, <1>7, <1>8 DEF ConversationNext

\* Through any chain of questions, follow-ups, failures and years, a planned run is not
\* about a time to come, compares the two companies it is about, and is ready to compare
\* only a promoted pair (ParseDeterministic, BindRequestAuthority).
THEOREM RunsStayAsAsked == ConversationSpec => []RunsAreAsAsked
<1>1. ConversationInit => TalkInv
  BY DEF ConversationInit, TalkInv, Idle
<1>2. TalkInv => RunsAreAsAsked
  BY DEF TalkInv, Bound, Asked, RunsAreAsAsked, NothingFromTheFuture,
         PeersAreCompared, Planned
<1> QED BY <1>1, <1>2, TalkGoesOn, PTL DEF ConversationSpec

Distinct(s) == \A i, j \in 1 .. Len(s) : s[i] = s[j] => i = j

\* A rule that adds a role loses none, and adds it once.
LEMMA RoleIsAdded ==
  ASSUME NEW S, NEW s \in Seq(S), NEW role \in S
  PROVE  /\ AppendUnique(s, role) \in Seq(S)
         /\ ToSet(AppendUnique(s, role)) = ToSet(s) \cup {role}
         /\ Distinct(s) => Distinct(AppendUnique(s, role))
<1>1. CASE role \in ToSet(s)
  BY <1>1 DEF AppendUnique
<1>2. CASE role \notin ToSet(s)
  <2> DEFINE t == Append(s, role)
  <2>1. /\ t \in Seq(S) /\ Len(t) = Len(s) + 1 /\ t[Len(t)] = role
        /\ \A i \in 1 .. Len(s) : t[i] = s[i]
        /\ DOMAIN t = 1 .. Len(t) /\ DOMAIN s = 1 .. Len(s) /\ Len(s) \in Nat
    OBVIOUS
  <2>2. AppendUnique(s, role) = t
    BY <1>2 DEF AppendUnique
  <2> HIDE DEF t
  <2>3. ToSet(t) \subseteq ToSet(s) \cup {role}
    BY <2>1 DEF ToSet
  <2>4. ToSet(s) \cup {role} \subseteq ToSet(t)
    <3>1. ASSUME NEW i \in DOMAIN s PROVE s[i] \in ToSet(t)
      BY <2>1 DEF ToSet
    <3>2. role \in ToSet(t)
      BY <2>1 DEF ToSet
    <3> QED BY <3>1, <3>2 DEF ToSet
  <2>5. Distinct(s) => Distinct(t)
    <3>1. \A i \in 1 .. Len(s) : s[i] # role
      BY <1>2, <2>1 DEF ToSet
    <3>2. \A i \in 1 .. Len(t) : i \in 1 .. Len(s) \/ i = Len(t)
      BY <2>1
    <3> QED BY <2>1, <3>1, <3>2 DEF Distinct
  <2> QED BY <2>1, <2>2, <2>3, <2>4, <2>5
<1> QED BY <1>1, <1>2

\* Where every number up to a bound that holds is followed by one that does, all do.
LEMMA UpTo ==
  ASSUME NEW N \in Nat, NEW G \in SUBSET (0 .. N), 0 \in G,
         \A n \in G : n < N => n + 1 \in G
  PROVE  N \in G
<1>1. PICK m \in G : \A n \in G : n <= m
  BY Largest
<1>2. m \in 0 .. N /\ (m < N => m + 1 <= m)
  BY <1>1
<1> QED BY <1>1, <1>2

\* The roles after each of the rules.
After(roles, rules, chosen, f, n) ==
  IF n = 0 THEN roles
  ELSE IF n \in chosen THEN AppendUnique(f[n - 1], rules[n].role) ELSE f[n - 1]

\* There are such.
LEMMA AfterEach ==
  ASSUME NEW roles, NEW rules, NEW chosen, Len(rules) \in Nat
  PROVE  \E f : f = [n \in 0 .. Len(rules) |-> After(roles, rules, chosen, f, n)]
<1> DEFINE N == Len(rules)
           Up(k) == \E f : f = [n \in 0 .. k |-> After(roles, rules, chosen, f, n)]
           G == {k \in 0 .. N : Up(k)}
<1>1. Up(0)
  <2> DEFINE f == [n \in 0 .. 0 |-> roles]
  <2>1. f = [n \in 0 .. 0 |-> After(roles, rules, chosen, f, n)]
    BY DEF After
  <2> QED BY <2>1
<1>2. ASSUME NEW k \in 0 .. N, k < N, Up(k) PROVE Up(k + 1)
  <2>1. PICK f : f = [n \in 0 .. k |-> After(roles, rules, chosen, f, n)]
    BY <1>2
  <2> DEFINE g == [n \in 0 .. k + 1 |->
                     IF n <= k THEN f[n] ELSE After(roles, rules, chosen, f, n)]
  <2>2. \A n \in 0 .. k : g[n] = f[n]
    OBVIOUS
  <2>3. ASSUME NEW n \in 0 .. k + 1
        PROVE  g[n] = After(roles, rules, chosen, g, n)
    <3>1. n # 0 => n - 1 \in 0 .. k /\ g[n - 1] = f[n - 1]
      BY <2>2
    <3>2. g[n] = After(roles, rules, chosen, f, n)
      <4>1. CASE n <= k
        <5>1. n \in 0 .. k
          BY <4>1
        <5>2. f[n] = After(roles, rules, chosen, f, n)
          BY <2>1, <5>1
        <5> QED BY <2>2, <5>1, <5>2
      <4>2. CASE ~(n <= k)
        BY <4>2
      <4> QED BY <4>1, <4>2
    <3> HIDE DEF g
    <3> QED BY <3>1, <3>2 DEF After
  <2>4. g = [n \in 0 .. k + 1 |-> After(roles, rules, chosen, g, n)]
    <3>1. g = [n \in 0 .. k + 1 |-> g[n]]
      OBVIOUS
    <3> HIDE DEF g
    <3> QED BY <2>3, <3>1
  <2> QED BY <2>4
<1>3. G \in SUBSET (0 .. N) /\ 0 \in G /\ \A k \in G : k < N => k + 1 \in G
  <2>1. \A k \in 0 .. N : k < N => k + 1 \in 0 .. N
    OBVIOUS
  <2> HIDE DEF Up
  <2> QED BY <1>1, <1>2, <2>1
<1>4. N \in G
  <2> HIDE DEF G
  <2> QED BY <1>3, UpTo
<1> QED BY <1>4

\* What rules add is what they were chosen for, once, after what there was.
LEMMA RulesAdd ==
  ASSUME NEW S, NEW roles \in Seq(S), NEW rules, Len(rules) \in Nat,
         \A i \in 1 .. Len(rules) : rules[i].role \in S, NEW chosen
  PROVE  /\ Extended(roles, rules, chosen) \in Seq(S)
         /\ ToSet(roles) \subseteq ToSet(Extended(roles, rules, chosen))
         /\ \A i \in 1 .. Len(rules) :
              i \in chosen => rules[i].role \in ToSet(Extended(roles, rules, chosen))
         /\ Distinct(roles) => Distinct(Extended(roles, rules, chosen))
<1> DEFINE N == Len(rules)
           Fits(f) == f = [n \in 0 .. N |-> After(roles, rules, chosen, f, n)]
           after == CHOOSE f : Fits(f)
<1>1. Extended(roles, rules, chosen) = after[N]
  BY Zenon DEF Extended, After
<1>2. Fits(after)
  <2>1. \E f : Fits(f)
    BY AfterEach
  <2> HIDE DEF Fits
  <2> QED BY <2>1, Zenon
<1> HIDE DEF after
<1>3. \A n \in 0 .. N : after[n] = After(roles, rules, chosen, after, n)
  BY <1>2
<1> HIDE DEF Fits
<1> DEFINE Told(n) == /\ after[n] \in Seq(S) /\ ToSet(roles) \subseteq ToSet(after[n])
                      /\ \A i \in 1 .. n : i \in chosen => rules[i].role \in ToSet(after[n])
                      /\ Distinct(roles) => Distinct(after[n])
           G == {n \in 0 .. N : Told(n)}
<1>4. Told(0)
  <2>1. after[0] = roles
    BY <1>3 DEF After
  <2> QED BY <2>1
<1>5. ASSUME NEW n \in 0 .. N, n < N, Told(n) PROVE Told(n + 1)
  <2>1. /\ n + 1 \in 1 .. N /\ (n + 1) - 1 = n
        /\ \A i \in 1 .. n + 1 : i \in 1 .. n \/ i = n + 1
    BY <1>5
  <2>2. after[n + 1] = IF n + 1 \in chosen THEN AppendUnique(after[n], rules[n + 1].role)
                       ELSE after[n]
    BY <1>3, <2>1 DEF After
  <2>3. CASE n + 1 \in chosen
    <3>1. /\ after[n + 1] \in Seq(S)
          /\ ToSet(after[n + 1]) = ToSet(after[n]) \cup {rules[n + 1].role}
          /\ Distinct(after[n]) => Distinct(after[n + 1])
      BY <1>5, <2>1, <2>2, <2>3, RoleIsAdded
    <3> QED BY <1>5, <2>1, <3>1
  <2>4. CASE n + 1 \notin chosen
    BY <1>5, <2>1, <2>2, <2>4
  <2> QED BY <2>3, <2>4
<1>6. N \in G
  <2>1. \A k \in 0 .. N : k < N => k + 1 \in 0 .. N
    OBVIOUS
  <2> HIDE DEF Told
  <2>2. G \in SUBSET (0 .. N) /\ 0 \in G /\ \A k \in G : k < N => k + 1 \in G
    BY <1>4, <1>5, <2>1
  <2> HIDE DEF G
  <2> QED BY <2>2, UpTo
<1> QED BY <1>1, <1>6

Roles == {"business", "quality", "accounting", "economics", "valuation", "market"}
Intents == DOMAIN RequiredFinalSections

\* The rules add roles, and each output that demands some has its rules.
LEMMA RulesName ==
  /\ Len(RouteRules) \in Nat /\ \A i \in 1 .. Len(RouteRules) : RouteRules[i].role \in Roles
  /\ Len(OutputRules) \in Nat /\ \A i \in 1 .. Len(OutputRules) : OutputRules[i].role \in Roles
  /\ DOMAIN OutputRules = 1 .. Len(OutputRules)
  /\ \E i \in 1 .. Len(OutputRules) :
       OutputRules[i] = [output |-> "transmission_mechanisms", role |-> "economics"]
  /\ \E i \in 1 .. Len(OutputRules) :
       OutputRules[i] = [output |-> "scenarios", role |-> "valuation"]
  /\ \E i \in 1 .. Len(OutputRules) :
       OutputRules[i] = [output |-> "market_measurement", role |-> "market"]
  /\ \A role \in {"business", "accounting", "quality"} :
       \E i \in 1 .. Len(OutputRules) :
         OutputRules[i] = [output |-> "comparison", role |-> role]
<1>1. /\ Len(RouteRules) = 5
      /\ \A i \in 1 .. 5 : RouteRules[i].role \in Roles
  <2> DEFINE rules == RouteRules
  <2>1. /\ Len(rules) = 5
        /\ rules[1].role = "economics" /\ rules[2].role = "valuation"
        /\ rules[3].role = "market" /\ rules[4].role = "accounting"
        /\ rules[5].role = "accounting"
    BY DEF RouteRules
  <2> HIDE DEF rules
  <2>2. \A i \in 1 .. 5 : i = 1 \/ i = 2 \/ i = 3 \/ i = 4 \/ i = 5
    OBVIOUS
  <2> QED BY <2>1, <2>2 DEF Roles, rules
<1>2. /\ Len(OutputRules) = 13 /\ DOMAIN OutputRules = 1 .. 13
      /\ \A i \in 1 .. 13 : OutputRules[i].role \in Roles
  BY DEF OutputRules, Roles
<1>3. /\ OutputRules[4] = [output |-> "transmission_mechanisms", role |-> "economics"]
      /\ OutputRules[5] = [output |-> "scenarios", role |-> "valuation"]
      /\ OutputRules[13] = [output |-> "market_measurement", role |-> "market"]
      /\ OutputRules[8] = [output |-> "comparison", role |-> "business"]
      /\ OutputRules[9] = [output |-> "comparison", role |-> "accounting"]
      /\ OutputRules[10] = [output |-> "comparison", role |-> "quality"]
  BY DEF OutputRules
<1> QED BY <1>1, <1>2, <1>3

\* The sections of an answer bring the roles that are demanded for them, whatever roles
\* there were.
LEMMA OutputsBringRoles ==
  ASSUME NEW contextRoles \in Seq(Roles), NEW outputs
  PROVE  /\ EnsureOutputAuthority(contextRoles, outputs) \in Seq(Roles)
         /\ \A i \in 1 .. Len(OutputRules) :
              OutputRules[i].output \in outputs =>
                OutputRules[i].role \in ToSet(EnsureOutputAuthority(contextRoles, outputs))
         /\ Distinct(contextRoles) => Distinct(EnsureOutputAuthority(contextRoles, outputs))
<1> DEFINE chosen == {i \in DOMAIN OutputRules : OutputRules[i].output \in outputs}
<1>1. EnsureOutputAuthority(contextRoles, outputs) = Extended(contextRoles, OutputRules, chosen)
  BY DEF EnsureOutputAuthority
<1>2. \A i \in 1 .. Len(OutputRules) : OutputRules[i].output \in outputs => i \in chosen
  BY RulesName
<1> HIDE DEF chosen
<1> QED BY <1>1, <1>2, RulesName, RulesAdd

\* The policy of an intent is a route.
LEMMA PolicyNames ==
  \A intent \in Intents : RoutePolicy[intent] \in Seq(Roles) /\ Distinct(RoutePolicy[intent])
<1>1. \A x, y \in Roles : /\ <<x>> \in Seq(Roles) /\ <<x, y>> \in Seq(Roles)
                          /\ Distinct(<<x>>) /\ (x # y => Distinct(<<x, y>>))
  BY DEF Distinct
<1>2. \A intent \in Intents : \E x, y \in Roles :
        RoutePolicy[intent] = <<x>> \/ (x # y /\ RoutePolicy[intent] = <<x, y>>)
  BY DEF Intents, RequiredFinalSections, RoutePolicy, Roles
<1> QED BY <1>1, <1>2

\* The roles of the context steps, whatever the question, are enough for the sections
\* of its intent, and each has one step.
LEMMA RolesAreEnough ==
  ASSUME NEW q, NEW request, request.intent \in Intents,
         request.outputs = RequiredFinalSections[request.intent]
  PROVE  /\ ContextRoles(q, request) \in Seq(Roles) /\ Distinct(ContextRoles(q, request))
         /\ \A output \in request.outputs :
              Demands(output, request.intent) \subseteq ToSet(ContextRoles(q, request))
<1> DEFINE routed == Route(q, request.intent)
           joined == IF request.intent = "company_comparison"
                     THEN EnsureOutputAuthority(routed, {"comparison"}) ELSE routed
           contextRoles == EnsureOutputAuthority(joined, request.outputs)
<1>1. ContextRoles(q, request) = contextRoles
  BY DEF ContextRoles
<1>2. routed \in Seq(Roles) /\ Distinct(routed)
  <2>1. RoutePolicy[request.intent] \in Seq(Roles) /\ Distinct(RoutePolicy[request.intent])
    BY PolicyNames
  <2> QED BY <2>1, RulesName, RulesAdd DEF Route
<1> HIDE DEF routed
<1>3. joined \in Seq(Roles) /\ Distinct(joined)
  BY <1>2, OutputsBringRoles
<1> HIDE DEF joined
<1>4. /\ contextRoles \in Seq(Roles) /\ Distinct(contextRoles)
      /\ \A i \in 1 .. Len(OutputRules) :
           OutputRules[i].output \in request.outputs => OutputRules[i].role \in ToSet(contextRoles)
  BY <1>3, OutputsBringRoles
<1> HIDE DEF contextRoles
<1>5. ASSUME NEW output \in request.outputs
      PROVE  Demands(output, request.intent) \subseteq ToSet(contextRoles)
  <2>1. \A i \in 1 .. Len(OutputRules) : \A role :
          OutputRules[i] = [output |-> output, role |-> role] => role \in ToSet(contextRoles)
    BY <1>4
  <2>2. CASE output = "transmission_mechanisms"
    <3>1. "economics" \in ToSet(contextRoles)
      BY <2>1, <2>2, RulesName
    <3>2. Demands(output, request.intent) = {"economics"}
      BY <2>2, Zenon DEF Demands
    <3> QED BY <3>1, <3>2
  <2>3. CASE output = "comparison"
    <3>1. {"business", "accounting", "quality"} \subseteq ToSet(contextRoles)
      BY <2>1, <2>3, RulesName
    <3>2. Demands(output, request.intent) = {"business", "accounting", "quality"}
      BY <2>3 DEF Demands
    <3> QED BY <3>1, <3>2
  <2>4. CASE output = "market_measurement"
    <3>1. "market" \in ToSet(contextRoles)
      BY <2>1, <2>4, RulesName
    <3>2. Demands(output, request.intent) = {"market"}
      BY <2>4 DEF Demands
    <3> QED BY <3>1, <3>2
  <2>5. CASE output = "scenarios"
    <3>1. /\ request.intent = "economic_transmission"
          /\ "transmission_mechanisms" \in request.outputs
      BY <2>5 DEF Intents, RequiredFinalSections
    <3>2. "economics" \in ToSet(contextRoles)
      BY <1>4, <3>1, RulesName
    <3>3. Demands(output, request.intent) = {"economics"}
      BY <2>5, <3>1 DEF Demands
    <3> QED BY <3>2, <3>3
  <2>6. CASE output \notin {"transmission_mechanisms", "comparison", "market_measurement",
                            "scenarios"}
    <3>1. Demands(output, request.intent) = {}
      BY <2>6 DEF Demands
    <3> QED BY <3>1
  <2> QED BY <2>2, <2>3, <2>4, <2>5, <2>6
<1> QED BY <1>1, <1>4, <1>5

\* An interpreted question has one of the intents.
LEMMA InterpretedIsIntent == \A q : InterpretQuestion(q) \subseteq Intents
<1>1. \A i \in DOMAIN IntentRules : IntentRules[i].intent \in Intents
  <2> DEFINE rules == IntentRules
  <2>1. DOMAIN rules = 1 .. 8
    BY DEF IntentRules
  <2>2. /\ rules[1].intent = "thesis_review" /\ rules[2].intent = "concept_education"
        /\ rules[3].intent = "market_behavior" /\ rules[4].intent = "company_comparison"
    BY DEF IntentRules
  <2>3. /\ rules[5].intent = "economic_transmission" /\ rules[6].intent = "valuation"
        /\ rules[7].intent = "financial_quality" /\ rules[8].intent = "company_understanding"
    BY DEF IntentRules
  <2> HIDE DEF rules
  <2>4. \A i \in 1 .. 8 : i = 1 \/ i = 2 \/ i = 3 \/ i = 4 \/ i = 5 \/ i = 6 \/ i = 7 \/ i = 8
    OBVIOUS
  <2> QED BY <2>1, <2>2, <2>3, <2>4 DEF Intents, RequiredFinalSections, rules
<1> QED BY <1>1 DEF InterpretQuestion

\* A plan of context steps, two reviews and a synthesis, in this order.
LEMMA StepsInOrder ==
  ASSUME NEW contextRoles \in Seq(Roles), NEW operations
  PROVE  LET plan == Steps(contextRoles, operations)
             n == Len(contextRoles)
         IN  /\ Len(plan) = n + 3 /\ DOMAIN plan = 1 .. n + 3
             /\ \A i \in 1 .. n : plan[i].kind = "context" /\ plan[i].role = contextRoles[i]
             /\ \A i \in 1 .. n : /\ plan[i].wave = Wave(i)
                                 /\ plan[i].deps = IF Wave(i) > 1 THEN 1 .. MaxParallel ELSE {}
             /\ plan[n + 1].kind = "review" /\ plan[n + 1].deps = 1 .. n
             /\ plan[n + 2].kind = "review" /\ plan[n + 2].deps = (1 .. n) \cup {n + 1}
             /\ plan[n + 3].kind = "synthesis" /\ plan[n + 3].deps = {n + 1, n + 2}
             /\ plan[n + 3].calls = {}
<1> DEFINE n == Len(contextRoles)
           Context(i) ==
             Step("context", contextRoles[i], Wave(i), IF Wave(i) > 1 THEN 1 .. MaxParallel ELSE {},
                  {op \in operations : contextRoles[i] \in AllowedRoles[op]})
           contexts == [i \in 1 .. n |-> Context(i)]
           risk == Step("review", "risk_contrarian", 0, AllContexts(n), {})
           evidence == Step("review", "evidence_critic", 0, AllContexts(n) \cup {n + 1}, {})
           synthesis == Step("synthesis", "final", 0, {n + 1, n + 2}, {})
           rest == <<risk, evidence, synthesis>>
           S == {Context(i) : i \in 1 .. n} \cup {risk, evidence, synthesis}
<1>1. n \in Nat
  OBVIOUS
<1>2. \A i \in 1 .. n :
        /\ Context(i).kind = "context" /\ Context(i).role = contextRoles[i]
        /\ Context(i).wave = Wave(i)
        /\ Context(i).deps = IF Wave(i) > 1 THEN 1 .. MaxParallel ELSE {}
  BY DEF Step
<1>3. /\ risk.kind = "review" /\ risk.deps = 1 .. n
      /\ evidence.kind = "review" /\ evidence.deps = (1 .. n) \cup {n + 1}
      /\ synthesis.kind = "synthesis" /\ synthesis.deps = {n + 1, n + 2}
      /\ synthesis.calls = {}
  BY DEF Step, AllContexts
<1>4. Steps(contextRoles, operations) = contexts \o rest
  BY DEF Steps
<1> HIDE DEF Context, risk, evidence, synthesis, n
<1>5. /\ contexts \in Seq(S) /\ Len(contexts) = n
      /\ \A i \in 1 .. n : contexts[i] = Context(i)
  BY <1>1
<1>6. /\ rest \in Seq(S) /\ Len(rest) = 3
      /\ rest[1] = risk /\ rest[2] = evidence /\ rest[3] = synthesis
  OBVIOUS
<1> HIDE DEF contexts, rest, S
<1> DEFINE plan == contexts \o rest
<1>7. /\ Len(plan) = n + 3 /\ DOMAIN plan = 1 .. n + 3
      /\ \A i \in 1 .. n : plan[i] = contexts[i]
      /\ plan[n + 1] = rest[1] /\ plan[n + 2] = rest[2] /\ plan[n + 3] = rest[3]
  <2>1. /\ Len(plan) = n + 3 /\ plan \in Seq(S)
        /\ \A i \in 1 .. n + 3 : plan[i] = IF i <= n THEN contexts[i] ELSE rest[i - n]
    <3>1. /\ Len(plan) = Len(contexts) + Len(rest) /\ plan \in Seq(S)
          /\ \A i \in 1 .. Len(contexts) + Len(rest) :
               plan[i] = IF i <= Len(contexts) THEN contexts[i] ELSE rest[i - Len(contexts)]
      BY <1>5, <1>6, ConcatProperties, Zenon
    <3> HIDE DEF plan
    <3> QED BY <1>5, <1>6, <3>1
  <2> HIDE DEF plan
  <2> QED BY <1>1, <2>1
<1> HIDE DEF plan
<1> QED BY <1>2, <1>3, <1>4, <1>5, <1>6, <1>7 DEF n, plan

\* A run whose plan can end with its answer.
Carries(run) ==
  /\ \A output \in run.request.outputs :
       Demands(output, run.request.intent) \subseteq
         {run.plan[i].role : i \in OfKind(run.plan, "context")}
  /\ run.plan[Len(run.plan)].kind = "synthesis"
  /\ \A i \in 1 .. Len(run.plan) - 1 :
       \E j \in i + 1 .. Len(run.plan) : i \in run.plan[j].deps

\* Any question about any companies, whatever it follows up, is refused or is planned
\* with what its answer needs.
THEOREM AnyPlanCarriesAuthority ==
  ASSUME NEW q, NEW now, NEW parent, RunOf(q, now, parent).status = "planned"
  PROVE  Carries(RunOf(q, now, parent))
<1> DEFINE intent == CHOOSE i \in InterpretQuestion(q) : TRUE
           asked == RequestOf(q, intent, now, parent)
           request == [asked EXCEPT !.authority = AuthorityState(asked)]
           contextRoles == ContextRoles(q, request)
           plan == Steps(contextRoles, Detected(q))
           n == Len(contextRoles)
           run == RunOf(q, now, parent)
<1>1. \A why : Refused(why).status # "planned"
  BY DEF Refused
<1>2. run = BindAndBuild(q, asked) /\ InterpretQuestion(q) # {}
  BY <1>1 DEF RunOf
<1>3. intent \in Intents
  BY <1>2, InterpretedIsIntent
<1> HIDE DEF intent
<1>4. asked.intent = intent /\ asked.outputs = RequiredFinalSections[intent]
  BY DEF RequestOf
<1>5. request.intent = intent /\ request.outputs = RequiredFinalSections[intent]
  BY <1>4 DEF RequestOf
<1> HIDE DEF asked
<1>6. run = PlanOf(q, request)
  BY <1>1, <1>2 DEF BindAndBuild
<1> HIDE DEF request
<1>7. run = PlanBuilt(request, plan)
  BY <1>1, <1>6 DEF PlanOf
<1>8. /\ contextRoles \in Seq(Roles)
      /\ \A output \in request.outputs :
           Demands(output, request.intent) \subseteq ToSet(contextRoles)
  BY <1>3, <1>5, RolesAreEnough
<1> HIDE DEF contextRoles
<1>9. /\ Len(plan) = n + 3 /\ DOMAIN plan = 1 .. n + 3
      /\ \A i \in 1 .. n : plan[i].kind = "context" /\ plan[i].role = contextRoles[i]
      /\ plan[n + 1].deps = 1 .. n
      /\ plan[n + 3].kind = "synthesis" /\ plan[n + 3].deps = {n + 1, n + 2}
  BY <1>8, StepsInOrder
<1> HIDE DEF plan
<1>10. run.plan = plan /\ run.request = request
  BY <1>1, <1>7 DEF PlanBuilt
<1>11. n \in Nat /\ DOMAIN contextRoles = 1 .. n
  BY <1>8
<1> HIDE DEF n
<1>12. ToSet(contextRoles) \subseteq {plan[i].role : i \in OfKind(plan, "context")}
  BY <1>9, <1>11 DEF ToSet, OfKind
<1>13. ASSUME NEW i \in 1 .. (n + 3) - 1 PROVE \E j \in i + 1 .. n + 3 : i \in plan[j].deps
  <2>1. CASE i \in 1 .. n
    BY <1>9, <1>11, <2>1
  <2>2. CASE i \in {n + 1, n + 2}
    BY <1>9, <1>11, <2>2
  <2> QED BY <1>11, <2>1, <2>2
<1> HIDE DEF run
<1>14. Carries(run)
  BY <1>8, <1>9, <1>10, <1>12, <1>13 DEF Carries
<1> QED BY <1>14 DEF run

\* A planned run carries what it needs.
RunInv ==
  /\ talk = [now |-> talk.now, parent |-> talk.parent, run |-> talk.run]
  /\ talk.run.status = "planned" => Carries(talk.run)

LEMMA RunGoesOn == RunInv /\ [ConversationNext]_talk => RunInv'
<1> SUFFICES ASSUME RunInv, [ConversationNext]_talk PROVE RunInv'
  OBVIOUS
<1> USE DEF RunInv
<1>1. ASSUME NEW outcome, talk' = [talk EXCEPT !.run = outcome],
             outcome.status = "planned" => Carries(outcome)
      PROVE  RunInv'
  <2>1. talk' = [now |-> talk.now, parent |-> talk.parent, run |-> outcome]
    BY <1>1
  <2>2. talk'.run.status = "planned" => Carries(talk'.run)
    BY <1>1, <2>1
  <2> QED BY <2>1, <2>2 DEF Carries
<1>2. Idle.status # "planned"
  BY DEF Idle
<1>3. CASE AskQuestion
  BY <1>1, <1>3, AnyPlanCarriesAuthority DEF AskQuestion
<1>4. CASE FollowUp
  BY <1>1, <1>4, AnyPlanCarriesAuthority DEF FollowUp
<1>5. CASE Answered
  <2>1. talk' = [now |-> talk.now, parent |-> Scope(talk.run.request), run |-> Idle]
    BY <1>5 DEF Answered
  <2> QED BY <1>2, <2>1
<1>6. CASE Fails
  BY <1>1, <1>2, <1>6 DEF Fails
<1>7. CASE YearPasses
  <2>1. /\ talk' = [now |-> talk.now + 1, parent |-> talk.parent, run |-> talk.run]
        /\ talk.run = Idle
    BY <1>7 DEF YearPasses
  <2> QED BY <1>2, <2>1
<1>8. CASE UNCHANGED talk
  BY <1>8 DEF Carries
<1> QED BY <1>3, <1>4, <1>5, <1>6, <1>7, <1>8 DEF ConversationNext

\* Every planned run has the roles whose claims the synthesizer demands for its sections,
\* and its synthesis comes after every other step (Build, ensureOutputAuthority).
THEOREM PlansAlwaysCarryAuthority == ConversationSpec => []PlansCarryAuthority
<1>1. ConversationInit => RunInv
  BY DEF ConversationInit, RunInv, Idle
<1>2. RunInv => PlansCarryAuthority
  BY DEF RunInv, Carries, PlansCarryAuthority, Planned
<1> QED BY <1>1, <1>2, RunGoesOn, PTL DEF ConversationSpec

\* There are six roles for a context step.
LEMMA SixRoles == \A s \in Seq(Roles) : Distinct(s) => Len(s) <= 6
<1> SUFFICES ASSUME NEW s \in Seq(Roles), Distinct(s) PROVE Len(s) <= 6
  OBVIOUS
<1>1. IsFiniteSet(Roles) /\ Cardinality(Roles) <= 6
  <2> DEFINE A == {"business"}
             B == A \cup {"quality"}
             C == B \cup {"accounting"}
             D == C \cup {"economics"}
             E == D \cup {"valuation"}
             F == E \cup {"market"}
  <2>1. Roles = F
    BY DEF Roles
  <2>2. IsFiniteSet(A) /\ Cardinality(A) = 1
    BY FS_Singleton
  <2> HIDE DEF A
  <2>3. IsFiniteSet(B) /\ Cardinality(B) \in 1 .. 2
    <3>1. /\ IsFiniteSet(B)
          /\ Cardinality(B) = IF "quality" \in A THEN Cardinality(A) ELSE Cardinality(A) + 1
      BY <2>2, FS_AddElement
    <3> QED BY <2>2, <3>1
  <2> HIDE DEF B
  <2>4. IsFiniteSet(C) /\ Cardinality(C) \in 1 .. 3
    <3>1. /\ IsFiniteSet(C)
          /\ Cardinality(C) = IF "accounting" \in B THEN Cardinality(B) ELSE Cardinality(B) + 1
      BY <2>3, FS_AddElement
    <3> QED BY <2>3, <3>1
  <2> HIDE DEF C
  <2>5. IsFiniteSet(D) /\ Cardinality(D) \in 1 .. 4
    <3>1. /\ IsFiniteSet(D)
          /\ Cardinality(D) = IF "economics" \in C THEN Cardinality(C) ELSE Cardinality(C) + 1
      BY <2>4, FS_AddElement
    <3> QED BY <2>4, <3>1
  <2> HIDE DEF D
  <2>6. IsFiniteSet(E) /\ Cardinality(E) \in 1 .. 5
    <3>1. /\ IsFiniteSet(E)
          /\ Cardinality(E) = IF "valuation" \in D THEN Cardinality(D) ELSE Cardinality(D) + 1
      BY <2>5, FS_AddElement
    <3> QED BY <2>5, <3>1
  <2> HIDE DEF E
  <2>7. IsFiniteSet(F) /\ Cardinality(F) \in 1 .. 6
    <3>1. /\ IsFiniteSet(F)
          /\ Cardinality(F) = IF "market" \in E THEN Cardinality(E) ELSE Cardinality(E) + 1
      BY <2>6, FS_AddElement
    <3> QED BY <2>6, <3>1
  <2> HIDE DEF F
  <2> QED BY <2>1, <2>7
<1>2. Len(s) \in Nat /\ s \in [1 .. Len(s) -> Roles]
  OBVIOUS
<1> DEFINE n == Len(s)
<1>3. IsFiniteSet(1 .. n) /\ Cardinality(1 .. n) = n
  BY <1>2, FS_Interval
<1>4. Cardinality(Roles) \in Nat
  BY <1>1, FS_CardinalityType
<1>5. ~(Cardinality(Roles) < n)
  <2> SUFFICES ASSUME Cardinality(Roles) < Cardinality(1 .. n) PROVE FALSE
    BY <1>3
  <2>1. \E x, y \in 1 .. n : x # y /\ s[x] = s[y]
    BY <1>1, <1>2, <1>3, FS_PigeonHole
  <2> QED BY <2>1 DEF Distinct
<1> QED BY <1>1, <1>2, <1>4, <1>5

\* What is reached of a plan in so many layers.
Layer(plan, f, n) == IF n = 0 THEN {} ELSE Ready(plan, f[n - 1])

\* There are such layers.
LEMMA LayersAre ==
  ASSUME NEW plan, Len(plan) \in Nat
  PROVE  \E f : f = [n \in 0 .. Len(plan) |-> Layer(plan, f, n)]
<1> DEFINE N == Len(plan)
           Up(k) == \E f : f = [n \in 0 .. k |-> Layer(plan, f, n)]
           G == {k \in 0 .. N : Up(k)}
<1>1. Up(0)
  <2> DEFINE f == [n \in 0 .. 0 |-> {}]
  <2>1. f = [n \in 0 .. 0 |-> Layer(plan, f, n)]
    BY DEF Layer
  <2> QED BY <2>1
<1>2. ASSUME NEW k \in 0 .. N, k < N, Up(k) PROVE Up(k + 1)
  <2>1. PICK f : f = [n \in 0 .. k |-> Layer(plan, f, n)]
    BY <1>2
  <2> DEFINE g == [n \in 0 .. k + 1 |-> IF n <= k THEN f[n] ELSE Layer(plan, f, n)]
  <2>2. \A n \in 0 .. k : g[n] = f[n]
    OBVIOUS
  <2>3. ASSUME NEW n \in 0 .. k + 1 PROVE g[n] = Layer(plan, g, n)
    <3>1. n # 0 => n - 1 \in 0 .. k /\ g[n - 1] = f[n - 1]
      BY <2>2
    <3>2. g[n] = Layer(plan, f, n)
      <4>1. CASE n <= k
        <5>1. n \in 0 .. k
          BY <4>1
        <5>2. f[n] = Layer(plan, f, n)
          BY <2>1, <5>1
        <5> QED BY <2>2, <5>1, <5>2
      <4>2. CASE ~(n <= k)
        BY <4>2
      <4> QED BY <4>1, <4>2
    <3> HIDE DEF g
    <3> QED BY <3>1, <3>2 DEF Layer
  <2>4. g = [n \in 0 .. k + 1 |-> Layer(plan, g, n)]
    <3>1. g = [n \in 0 .. k + 1 |-> g[n]]
      OBVIOUS
    <3> HIDE DEF g
    <3> QED BY <2>3, <3>1
  <2> QED BY <2>4
<1>3. G \in SUBSET (0 .. N) /\ 0 \in G /\ \A k \in G : k < N => k + 1 \in G
  <2>1. \A k \in 0 .. N : k < N => k + 1 \in 0 .. N
    OBVIOUS
  <2> HIDE DEF Up
  <2> QED BY <1>1, <1>2, <2>1
<1>4. N \in G
  <2> HIDE DEF G
  <2> QED BY <1>3, UpTo
<1> QED BY <1>4

\* A plan whose steps wait for earlier ones only is acyclic.
LEMMA EarlierIsAcyclic ==
  ASSUME NEW plan, Len(plan) \in Nat, DOMAIN plan = 1 .. Len(plan),
         \A i \in 1 .. Len(plan) : plan[i].deps \subseteq 1 .. i - 1
  PROVE  Acyclic(plan)
<1> DEFINE N == Len(plan)
           Fits(f) == f = [n \in 0 .. N |-> Layer(plan, f, n)]
           done == CHOOSE f : Fits(f)
<1>1. Acyclic(plan) <=> done[N] = DOMAIN plan
  BY Zenon DEF Acyclic, Layer
<1>2. Fits(done)
  <2>1. \E f : Fits(f)
    BY LayersAre
  <2> HIDE DEF Fits
  <2> QED BY <2>1, Zenon
<1> HIDE DEF done
<1>3. \A n \in 0 .. N : done[n] = Layer(plan, done, n)
  BY <1>2
<1> HIDE DEF Fits
<1> DEFINE G == {n \in 0 .. N : 1 .. n \subseteq done[n] /\ done[n] \subseteq 1 .. N}
<1>4. 0 \in G
  BY <1>3 DEF Layer
<1>5. ASSUME NEW n \in G, n < N PROVE n + 1 \in G
  <2>1. n + 1 \in 1 .. N /\ (n + 1) - 1 = n
    BY <1>5
  <2>2. done[n + 1] = Ready(plan, done[n])
    BY <1>3, <2>1 DEF Layer
  <2>3. plan[n + 1].deps \subseteq done[n]
    BY <2>1
  <2>4. n + 1 \in done[n + 1] /\ done[n] \subseteq done[n + 1] /\ done[n + 1] \subseteq 1 .. N
    BY <2>1, <2>2, <2>3 DEF Ready
  <2>5. \A i \in 1 .. n + 1 : i \in 1 .. n \/ i = n + 1
    OBVIOUS
  <2> QED BY <2>1, <2>4, <2>5
<1>6. G \in SUBSET (0 .. N)
  OBVIOUS
<1>7. N \in G
  <2> HIDE DEF G
  <2> QED BY <1>4, <1>5, <1>6, UpTo
<1> QED BY <1>1, <1>7

\* The plan that is built for any roles is one that the validator accepts.
LEMMA BuiltIsValid ==
  ASSUME NEW contextRoles \in Seq(Roles), Distinct(contextRoles), NEW operations
  PROVE  ValidPlan(Steps(contextRoles, operations))
<1> DEFINE n == Len(contextRoles)
           plan == Steps(contextRoles, operations)
<1>1. n \in 0 .. 6
  <2>1. n \in Nat
    OBVIOUS
  <2>2. n <= 6
    BY SixRoles, Zenon
  <2> HIDE DEF n
  <2> QED BY <2>1, <2>2
<1>2. /\ Len(plan) = n + 3 /\ DOMAIN plan = 1 .. n + 3
      /\ \A i \in 1 .. n : /\ plan[i].kind = "context" /\ plan[i].wave = Wave(i)
                          /\ plan[i].deps = IF Wave(i) > 1 THEN 1 .. MaxParallel ELSE {}
      /\ plan[n + 1].kind = "review" /\ plan[n + 1].deps = 1 .. n
      /\ plan[n + 2].kind = "review" /\ plan[n + 2].deps = (1 .. n) \cup {n + 1}
      /\ plan[n + 3].kind = "synthesis" /\ plan[n + 3].deps = {n + 1, n + 2}
      /\ plan[n + 3].calls = {}
  BY StepsInOrder
<1> HIDE DEF n, plan
<1>3. \A i \in 1 .. n : Wave(i) = IF i <= 4 THEN 1 ELSE 2
  BY <1>1 DEF Wave, MaxParallel
<1>4. \A i \in 1 .. n + 3 : i \in 1 .. n \/ i = n + 1 \/ i = n + 2 \/ i = n + 3
  BY <1>1
<1>5. OfKind(plan, "context") = 1 .. n /\ OfKind(plan, "synthesis") = {n + 3}
  <2>1. \A i \in 1 .. n : i \in 1 .. n + 3
    BY <1>1
  <2>2. n + 1 \notin 1 .. n /\ n + 2 \notin 1 .. n /\ n + 3 \notin 1 .. n /\ n + 3 \in 1 .. n + 3
    BY <1>1
  <2> QED BY <1>2, <1>4, <2>1, <2>2 DEF OfKind
<1>6. Cardinality(1 .. n) <= MaxContexts /\ Cardinality({n + 3}) = 1
  <2>1. 1 \in Int /\ n \in Int
    BY <1>1
  <2>2. Cardinality(1 .. n) = IF 1 > n THEN 0 ELSE n - 1 + 1
    BY <2>1, FS_Interval
  <2>3. Cardinality({n + 3}) = 1
    BY FS_Singleton
  <2> QED BY <1>1, <2>2, <2>3 DEF MaxContexts
<1>7. ASSUME NEW i \in 1 .. n
      PROVE  /\ plan[i].wave \in 1 .. 4
             /\ Cardinality({j \in 1 .. n : plan[j].wave = plan[i].wave}) <= MaxParallel
             /\ \A j \in plan[i].deps \cap (1 .. n) : plan[j].wave < plan[i].wave
  <2> DEFINE wave == plan[i].wave
             others == {j \in 1 .. n : plan[j].wave = wave}
             a == IF wave = 1 THEN 1 ELSE 5
  <2>1. wave \in {1, 2}
    BY <1>2, <1>3
  <2>2. others \subseteq a .. a + 3
    BY <1>1, <1>2, <1>3, <2>1
  <2>3. a \in Int /\ IsFiniteSet(a .. a + 3) /\ Cardinality(a .. a + 3) = 4
    <3>1. a \in Int
      OBVIOUS
    <3> HIDE DEF a
    <3> QED BY <3>1, FS_Interval
  <2> HIDE DEF others, a
  <2>4. Cardinality(others) <= 4
    BY <2>2, <2>3, FS_Subset
  <2>5. \A j \in plan[i].deps \cap (1 .. n) : plan[j].wave < wave
    BY <1>1, <1>2, <1>3 DEF MaxParallel
  <2> QED BY <2>1, <2>4, <2>5 DEF others, MaxParallel
<1>8. \A i \in 1 .. Len(plan) : plan[i].deps \subseteq 1 .. i - 1
  <2>1. \A i \in 1 .. n : plan[i].deps \subseteq 1 .. i - 1
    BY <1>1, <1>2, <1>3 DEF MaxParallel
  <2>2. /\ plan[n + 1].deps \subseteq 1 .. (n + 1) - 1 /\ plan[n + 2].deps \subseteq 1 .. (n + 2) - 1
        /\ plan[n + 3].deps \subseteq 1 .. (n + 3) - 1
    BY <1>1, <1>2
  <2> QED BY <1>2, <1>4, <2>1, <2>2
<1>9. Acyclic(plan)
  <2>1. Len(plan) \in Nat /\ DOMAIN plan = 1 .. Len(plan)
    BY <1>1, <1>2
  <2> QED BY <1>8, <2>1, EarlierIsAcyclic
<1>10. \A i \in DOMAIN plan : plan[i].deps \subseteq DOMAIN plan
  <2>1. \A i \in 1 .. n + 3 : 1 .. i - 1 \subseteq 1 .. n + 3
    BY <1>1
  <2> QED BY <1>2, <1>8, <2>1
<1>11. ValidPlan(plan)
  BY <1>2, <1>5, <1>6, <1>7, <1>9, <1>10, Zenon DEF ValidPlan
<1> QED BY <1>11 DEF plan

\* Why a question may be refused.
Reasons == {"ambiguous_intent", "authority", "clarification_required"}

\* Any question about any companies, whatever it follows up, is planned or is refused for
\* what it asks, and never for its plan.
THEOREM AnyQuestionIsPlanned ==
  ASSUME NEW q, NEW now, NEW parent
  PROVE  \/ RunOf(q, now, parent).status = "planned"
         \/ \E why \in Reasons : RunOf(q, now, parent) = Refused(why)
<1> DEFINE intent == CHOOSE i \in InterpretQuestion(q) : TRUE
           asked == RequestOf(q, intent, now, parent)
           request == [asked EXCEPT !.authority = AuthorityState(asked)]
           contextRoles == ContextRoles(q, request)
           run == RunOf(q, now, parent)
<1>1. CASE InterpretQuestion(q) = {}
  BY <1>1 DEF RunOf, Reasons
<1>2. CASE InterpretQuestion(q) # {}
  <2>1. run = BindAndBuild(q, asked)
    BY <1>2 DEF RunOf
  <2>2. intent \in Intents
    BY <1>2, InterpretedIsIntent
  <2> HIDE DEF intent
  <2>3. request.intent = intent /\ request.outputs = RequiredFinalSections[intent]
    BY DEF RequestOf
  <2> HIDE DEF asked
  <2>4. CASE ~Governed(asked)
    BY <2>1, <2>4 DEF BindAndBuild, Reasons
  <2>5. CASE Governed(asked)
    <3>1. run = PlanOf(q, request)
      BY <2>1, <2>5 DEF BindAndBuild
    <3> HIDE DEF request
    <3>2. ValidPlan(Steps(contextRoles, Detected(q)))
      <4>1. contextRoles \in Seq(Roles) /\ Distinct(contextRoles)
        BY <2>2, <2>3, RolesAreEnough
      <4> HIDE DEF contextRoles
      <4> QED BY <4>1, BuiltIsValid
    <3>3. run = Refused("clarification_required") \/ run.status = "planned"
      BY <3>1, <3>2 DEF PlanOf, PlanBuilt
    <3> QED BY <3>3 DEF Reasons
  <2> QED BY <2>4, <2>5
<1> QED BY <1>1, <1>2

\* No question is refused for the plan that was built for it, whatever its words and its
\* sections bring together (Build, ValidateResearchPlan).
THEOREM BuilderAgreesWithValidator == ConversationSpec => []BuiltPlansAreValid
<1> DEFINE Inv == /\ talk = [now |-> talk.now, parent |-> talk.parent, run |-> talk.run]
                  /\ BuiltPlansAreValid
<1>1. ConversationInit => Inv
  BY DEF ConversationInit, Idle, BuiltPlansAreValid
<1>2. Inv /\ [ConversationNext]_talk => Inv'
  <2> SUFFICES ASSUME Inv, [ConversationNext]_talk PROVE Inv'
    OBVIOUS
  <2> USE DEF BuiltPlansAreValid
  <2>1. ASSUME NEW outcome, talk' = [talk EXCEPT !.run = outcome],
               \/ outcome.status # "refused"
               \/ \E why \in Reasons : outcome = Refused(why)
        PROVE  Inv'
    <3>1. talk' = [now |-> talk.now, parent |-> talk.parent, run |-> outcome]
      BY <2>1
    <3>2. talk'.run.status = "refused" => talk'.run.why # "invalid_plan"
      BY <2>1, <3>1 DEF Refused, Reasons
    <3> QED BY <3>1, <3>2
  <2>2. Idle.status # "refused"
    BY DEF Idle
  <2>3. CASE AskQuestion
    BY <2>1, <2>3, AnyQuestionIsPlanned DEF AskQuestion
  <2>4. CASE FollowUp
    BY <2>1, <2>4, AnyQuestionIsPlanned DEF FollowUp
  <2>5. CASE Answered
    <3>1. talk' = [now |-> talk.now, parent |-> Scope(talk.run.request), run |-> Idle]
      BY <2>5 DEF Answered
    <3> QED BY <2>2, <3>1
  <2>6. CASE Fails
    BY <2>1, <2>2, <2>6 DEF Fails
  <2>7. CASE YearPasses
    BY <2>7 DEF YearPasses
  <2>8. CASE UNCHANGED talk
    BY <2>8
  <2> QED BY <2>3, <2>4, <2>5, <2>6, <2>7, <2>8 DEF ConversationNext
<1> QED BY <1>1, <1>2, PTL DEF ConversationSpec

\* In a conversation of any length, a question that is not refused for what it asks has a
\* plan, and the plan can end with its answer (Build, ensureOutputAuthority,
\* ValidateResearchPlan).
THEOREM QuestionsStayAnswerable == ConversationSpec => []QuestionsCanBeAnswered
BY PlansAlwaysCarryAuthority, BuilderAgreesWithValidator, PTL DEF QuestionsCanBeAnswered

-----------------------------------------------------------------------------
(* Activity: what a step shows of its own work, for any number of tools.   *)

WorkFields == {"kind", "hybrid", "at", "step", "calls", "attempt", "pass", "variant",
               "retryable", "provider", "made", "peak", "tools"}
StepFields == {"status", "attempt", "route", "checks"}
HasFields(r, fields) == r = [x \in fields |-> r[x]]
IsStep(s) == HasFields(s, StepFields) /\ s.checks = [c \in DOMAIN s.checks |-> s.checks[c]]

Providers == {"radeon_api", "local_rocm"}

\* The route is the way the calls went, and ends where the last of them went.
RouteKept(w) ==
  /\ w.provider \in Providers /\ w.made \in Seq(Providers) /\ w.step.route \in Seq(Providers)
  /\ TellsOf(w.step.route, w.made)
  /\ w.calls.attempts = Len(w.made)
  /\ w.made # << >> =>
       /\ w.calls.route = w.made[Len(w.made)]
       /\ w.step.route # << >>
       /\ w.step.route[Len(w.step.route)] = w.made[Len(w.made)]

\* The attempt shown is that of the last call or of the next one.
AttemptKept(w) ==
  /\ w.step.attempt \in 0 .. MaxAttempts /\ w.peak = w.step.attempt
  /\ w.step.attempt <= Len(w.made) + 1
  /\ w.step.attempt >= Len(w.made) \/ w.step.attempt = MaxAttempts
  /\ w.at = "answered" => w.step.attempt <= Len(w.made)

\* A step that is worked on is open; one for the tools only is never worked on.
StatusKept(w) ==
  /\ w.kind \in {"context", "review", "tool"}
  /\ w.kind = "tool" => w.at = "waiting" /\ w.made = << >>
  /\ w.kind # "tool" /\ w.at = "waiting" =>
       w.step.status = "pending" /\ w.step.attempt = 0 /\ w.made = << >>
  /\ w.at \notin {"waiting", "over"} => w.step.status \in {"running", "repairing"}

\* Only a retrieval under way is shown as running, and only what the plan wanted is still to come.
ChecksKept(w) ==
  \A c \in DOMAIN w.step.checks :
    /\ w.step.checks[c] = "running" => w.at = "retrieving" /\ c = "retrieval"
    /\ w.step.checks[c] = "pending" =>
         /\ c \in PlannedChecks(w.kind)
         /\ ~(w.at = "over" /\ w.step.status \in {"passed", "degraded"})

\* A step for the tools has a check for each one told, and passes with all of them.
ToolsKept(w) ==
  /\ DOMAIN w.tools \subseteq Tools
  /\ \A t \in DOMAIN w.tools :
       /\ w.tools[t] \in {"passed", "failed"}
       /\ w.kind = "tool" => t \in DOMAIN w.step.checks /\ w.step.checks[t] = w.tools[t]
       /\ w.kind = "tool" /\ w.step.status = "passed" => w.tools[t] = "passed"
       /\ w.kind # "tool" => w.tools[t] = "passed"

WorkKept(w) ==
  /\ HasFields(w, WorkFields) /\ IsStep(w.step)
  /\ RouteKept(w) /\ AttemptKept(w) /\ StatusKept(w) /\ ChecksKept(w) /\ ToolsKept(w)

\* The smaller and the larger of two numbers.
LEMMA OfTwo ==
  \A a, b \in Int : /\ Min({a, b}) = IF a <= b THEN a ELSE b
                    /\ Max({a, b}) = IF a >= b THEN a ELSE b
<1> SUFFICES ASSUME NEW a \in Int, NEW b \in Int
             PROVE  /\ Min({a, b}) = IF a <= b THEN a ELSE b
                    /\ Max({a, b}) = IF a >= b THEN a ELSE b
  OBVIOUS
<1>1. \A x \in {a, b} : (\A y \in {a, b} : x <= y) => x = IF a <= b THEN a ELSE b
  OBVIOUS
<1>2. \A x \in {a, b} : (\A y \in {a, b} : x >= y) => x = IF a >= b THEN a ELSE b
  OBVIOUS
<1>3. \E x \in {a, b} : \A y \in {a, b} : x <= y
  OBVIOUS
<1>4. \E x \in {a, b} : \A y \in {a, b} : x >= y
  OBVIOUS
<1> QED BY <1>1, <1>2, <1>3, <1>4 DEF Min, Max

\* A mark changes the checks it names and the step has, and leaves the rest alone.
LEMMA Marked ==
  ASSUME NEW s, IsStep(s), NEW marks
  PROVE  LET m == Mark(s, marks) IN
         /\ IsStep(m) /\ m.status = s.status /\ m.attempt = s.attempt /\ m.route = s.route
         /\ DOMAIN m.checks = DOMAIN s.checks
         /\ \A c \in DOMAIN s.checks :
              m.checks[c] = IF c \in DOMAIN marks THEN marks[c] ELSE s.checks[c]
BY DEF Mark, IsStep, HasFields, StepFields

\* A check that is told of is the only one changed, and there if it was not.
LEMMA Upserted ==
  ASSUME NEW s, IsStep(s), NEW check, NEW status
  PROVE  LET u == Upsert(s, check, status) IN
         /\ IsStep(u) /\ u.status = s.status /\ u.attempt = s.attempt /\ u.route = s.route
         /\ DOMAIN u.checks = DOMAIN s.checks \cup {check}
         /\ \A c \in DOMAIN u.checks :
              u.checks[c] = IF c = check THEN status ELSE s.checks[c]
BY DEF Upsert, With, IsStep, HasFields, StepFields

\* A showing changes the step and the highest attempt shown, and nothing else.
LEMMA ShowChanges ==
  ASSUME NEW w, HasFields(w, WorkFields), NEW s, w.peak \in Int, s.attempt \in Int
  PROVE  LET v == Show(w, s) IN
         /\ HasFields(v, WorkFields) /\ v.step = s
         /\ v.peak = IF w.peak >= s.attempt THEN w.peak ELSE s.attempt
         /\ \A x \in WorkFields \ {"step", "peak"} : v[x] = w[x]
BY OfTwo DEF Show, HasFields, WorkFields

\* A call over another route than the last one makes the way longer by its route, and a
\* call over the same leaves it.
LEMMA RouteGrows ==
  ASSUME NEW route \in Seq(Providers), NEW made \in Seq(Providers), NEW p \in Providers,
         TellsOf(route, made)
  PROVE  LET grown == IF made # << >> /\ made[Len(made)] = p THEN route ELSE Append(route, p)
         IN  TellsOf(grown, Append(made, p))
<1> DEFINE n == Len(made)
           more == Append(made, p)
           changes == {i \in DOMAIN made : i = 1 \/ made[i] # made[i - 1]}
           changesOfMore == {i \in DOMAIN more : i = 1 \/ more[i] # more[i - 1]}
           Rank(i) == {j \in changes : j <= i}
           RankInMore(i) == {j \in changesOfMore : j <= i}
           same == made # << >> /\ made[n] = p
           grown == IF same THEN route ELSE Append(route, p)
<1> SUFFICES TellsOf(grown, more)
  OBVIOUS
<1>1. /\ n \in Nat /\ DOMAIN made = 1 .. n /\ DOMAIN more = 1 .. n + 1
      /\ more[n + 1] = p /\ \A i \in 1 .. n : more[i] = made[i]
      /\ (made = << >>) <=> n = 0
  OBVIOUS
<1>2. /\ Len(route) = Cardinality(changes)
      /\ \A i \in changes : route[Cardinality(Rank(i))] = made[i]
  BY DEF TellsOf
<1> HIDE DEF n, more
<1>3. changes \subseteq 1 .. n
  BY <1>1
<1>4. /\ same => changesOfMore = changes
      /\ ~same => changesOfMore = changes \cup {n + 1}
      /\ changesOfMore \subseteq 1 .. n + 1
  <2>1. ASSUME NEW i \in 1 .. n PROVE i \in changesOfMore <=> i \in changes
    <3>1. i # 1 => i - 1 \in 1 .. n
      BY <1>1
    <3> QED BY <1>1, <3>1
  <2>2. n + 1 \in changesOfMore <=> ~same
    <3>1. n # 0 => n \in 1 .. n /\ (n + 1) - 1 = n /\ n + 1 # 1
      BY <1>1
    <3> QED BY <1>1, <3>1
  <2>3. changesOfMore \subseteq 1 .. n + 1
    BY <1>1
  <2> HIDE DEF changesOfMore, changes, same
  <2>4. /\ \A i \in 1 .. n + 1 : i \in 1 .. n \/ i = n + 1
        /\ n + 1 \notin 1 .. n
    BY <1>1
  <2>5. \A i : i \in changesOfMore <=> i \in changes \/ (~same /\ i = n + 1)
    BY <1>3, <2>1, <2>2, <2>3, <2>4, Zenon
  <2> QED BY <2>3, <2>5
<1> HIDE DEF changes, changesOfMore, same
<1>5. IsFiniteSet(changes)
  <2>1. IsFiniteSet(1 .. n)
    BY <1>1, FS_Interval
  <2> QED BY <1>3, <2>1, FS_Subset
<1>6. \A i \in changes : RankInMore(i) = Rank(i)
  BY <1>1, <1>3, <1>4
<1>7. ASSUME NEW i \in changes PROVE Cardinality(Rank(i)) \in 1 .. Len(route)
  <2>1. Rank(i) \subseteq changes /\ i \in Rank(i)
    BY <1>1, <1>3
  <2> HIDE DEF Rank
  <2>2. IsFiniteSet(Rank(i)) /\ Cardinality(Rank(i)) <= Cardinality(changes)
    BY <1>5, <2>1, FS_Subset
  <2>3. Cardinality(Rank(i)) \in Nat /\ Cardinality(Rank(i)) # 0
    BY <2>1, <2>2, FS_CardinalityType, FS_EmptySet
  <2> QED BY <1>2, <2>2, <2>3
<1>8. CASE same
  <2>1. changesOfMore = changes /\ Len(route) = Cardinality(changesOfMore)
    BY <1>2, <1>4, <1>8
  <2>2. \A i \in changesOfMore : route[Cardinality(RankInMore(i))] = more[i]
    <3> SUFFICES ASSUME NEW i \in changes PROVE route[Cardinality(RankInMore(i))] = more[i]
      BY <2>1
    <3>1. RankInMore(i) = Rank(i) /\ more[i] = made[i]
      BY <1>1, <1>3, <1>6
    <3>2. route[Cardinality(Rank(i))] = made[i]
      BY <1>2
    <3> HIDE DEF Rank, RankInMore
    <3> QED BY <3>1, <3>2
  <2>3. TellsOf(route, more)
    BY <2>1, <2>2, Zenon DEF TellsOf, changesOfMore
  <2> QED BY <1>8, <2>3
<1>9. CASE ~same
  <2>1. n + 1 \notin changes /\ changesOfMore = changes \cup {n + 1}
    BY <1>1, <1>3, <1>4, <1>9
  <2>2. Cardinality(changesOfMore) = Len(route) + 1
    BY <1>2, <1>5, <2>1, FS_AddElement
  <2>3. RankInMore(n + 1) = changesOfMore
    <3>1. \A j \in changesOfMore : j <= n + 1
      BY <1>1, <1>4
    <3> QED BY <3>1
  <2> DEFINE longer == Append(route, p)
  <2>4. /\ Len(longer) = Len(route) + 1 /\ longer[Len(route) + 1] = p
        /\ \A k \in 1 .. Len(route) : longer[k] = route[k]
    OBVIOUS
  <2> HIDE DEF longer
  <2>5. ASSUME NEW i \in changesOfMore
        PROVE  longer[Cardinality(RankInMore(i))] = more[i]
    <3>1. CASE i = n + 1
      BY <1>1, <2>2, <2>3, <2>4, <3>1
    <3>2. CASE i \in changes
      <4>1. RankInMore(i) = Rank(i) /\ Cardinality(Rank(i)) \in 1 .. Len(route)
        BY <1>6, <1>7, <3>2
      <4>2. more[i] = made[i]
        BY <1>1, <1>3, <3>2
      <4> HIDE DEF Rank, RankInMore
      <4> QED BY <1>2, <2>4, <3>2, <4>1, <4>2 DEF Rank
    <3> QED BY <2>1, <3>1, <3>2
  <2>6. TellsOf(longer, more)
    <3>1. Len(longer) = Cardinality(changesOfMore)
      BY <2>2, <2>4
    <3> QED BY <2>5, <3>1, Zenon DEF TellsOf, changesOfMore
  <2> QED BY <1>9, <2>6 DEF longer
<1> QED BY <1>8, <1>9

\* An open step is not over.
LEMMA OpenIsNotTerminal ==
  \A status \in {"running", "repairing"} : ~Shown!Terminal(status)
BY DEF Shown!Terminal

\* What a call of the model makes of a step that is open.
LEMMA CallChanges ==
  ASSUME NEW s, IsStep(s), ~Shown!Terminal(s.status), NEW attempts \in Nat, NEW kind,
         NEW route, NEW ok
  PROVE  LET m == ApplyModel(s, attempts, kind, route, ok) IN
         /\ IsStep(m) /\ m.status = s.status
         /\ m.attempt = IF attempts <= MaxAttempts THEN attempts ELSE MaxAttempts
         /\ m.route = IF s.route # << >> /\ kind = "fallback" /\ s.route # <<route>>
                      THEN Append(s.route, route)
                      ELSE IF s.route = << >> \/ Last(s.route) # route THEN <<route>>
                      ELSE s.route
         /\ DOMAIN m.checks = DOMAIN s.checks
         /\ \A c \in DOMAIN s.checks :
              m.checks[c] \in {"passed", "degraded", s.checks[c]}
<1> DEFINE marks == [c \in {"model-route"} |-> IF ok THEN "passed" ELSE "degraded"]
           marked == Mark(s, marks)
           m == [marked EXCEPT
                   !.attempt = Min({attempts, MaxAttempts}),
                   !.route = IF @ # << >> /\ kind = "fallback" /\ @ # <<route>> THEN Append(@, route)
                             ELSE IF @ = << >> \/ Last(@) # route THEN <<route>>
                             ELSE @]
<1>1. ApplyModel(s, attempts, kind, route, ok) = m
  BY DEF ApplyModel
<1>2. /\ IsStep(marked) /\ marked.status = s.status /\ marked.attempt = s.attempt
      /\ marked.route = s.route /\ DOMAIN marked.checks = DOMAIN s.checks
      /\ \A c \in DOMAIN s.checks :
           marked.checks[c] = IF c \in DOMAIN marks THEN marks[c] ELSE s.checks[c]
  BY Marked
<1>3. \A c \in DOMAIN s.checks : marked.checks[c] \in {"passed", "degraded", s.checks[c]}
  BY <1>2
<1>4. Min({attempts, MaxAttempts}) = IF attempts <= MaxAttempts THEN attempts ELSE MaxAttempts
  BY OfTwo DEF MaxAttempts
<1> HIDE DEF marked
<1>5. /\ IsStep(m) /\ m.status = marked.status /\ m.attempt = Min({attempts, MaxAttempts})
      /\ m.checks = marked.checks
      /\ m.route = IF marked.route # << >> /\ kind = "fallback" /\ marked.route # <<route>>
                   THEN Append(marked.route, route)
                   ELSE IF marked.route = << >> \/ Last(marked.route) # route THEN <<route>>
                   ELSE marked.route
  BY <1>2 DEF IsStep, HasFields, StepFields
<1> HIDE DEF m
<1> QED BY <1>1, <1>2, <1>3, <1>4, <1>5

\* What a step of the work leaves unchanged of it.
Keeps(fields) == \A x \in fields : work'[x] = work[x]

\* Work that goes on elsewhere, with nothing to show for it.
LEMMA GoesOn ==
  ASSUME WorkKept(work), HasFields(work', WorkFields),
         Keeps({"kind", "step", "calls", "made", "peak", "tools"}),
         work'.provider \in Providers,
         work.at \notin {"waiting", "over", "retrieving"},
         work'.at \notin {"waiting", "over", "retrieving", "answered"}
  PROVE  WorkKept(work')
<1>1. /\ work'.kind = work.kind /\ work'.step = work.step /\ work'.calls = work.calls
      /\ work'.made = work.made /\ work'.peak = work.peak /\ work'.tools = work.tools
  BY DEF Keeps
<1>2. RouteKept(work')
  BY <1>1 DEF WorkKept, RouteKept
<1>3. AttemptKept(work') /\ StatusKept(work')
  BY <1>1 DEF WorkKept, AttemptKept, StatusKept
<1>4. ChecksKept(work') /\ ToolsKept(work')
  BY <1>1 DEF WorkKept, ChecksKept, ToolsKept
<1> QED BY <1>1, <1>2, <1>3, <1>4 DEF WorkKept

\* Work of which a check is told while it goes on.
LEMMA CheckIsTold ==
  ASSUME WorkKept(work), HasFields(work', WorkFields),
         Keeps({"kind", "calls", "made", "peak", "provider"}),
         NEW check, NEW status, work'.step = Upsert(work.step, check, status),
         status # "pending",
         work.at \notin {"waiting", "over"},
         work'.at \notin {"waiting", "over", "answered"},
         work.at = "retrieving" => check = "retrieval",
         status = "running" => check = "retrieval" /\ work'.at = "retrieving",
         DOMAIN work'.tools \subseteq Tools,
         \A t \in DOMAIN work'.tools :
           \/ t \in DOMAIN work.tools /\ work'.tools[t] = work.tools[t]
           \/ work'.tools[t] = "passed"
  PROVE  WorkKept(work')
<1>1. /\ work'.kind = work.kind /\ work'.calls = work.calls
      /\ work'.made = work.made /\ work'.peak = work.peak /\ work'.provider = work.provider
  BY DEF Keeps
<1>2. /\ IsStep(work'.step) /\ work'.step.status = work.step.status
      /\ work'.step.attempt = work.step.attempt /\ work'.step.route = work.step.route
      /\ DOMAIN work'.step.checks = DOMAIN work.step.checks \cup {check}
      /\ \A c \in DOMAIN work'.step.checks :
           work'.step.checks[c] = IF c = check THEN status ELSE work.step.checks[c]
  BY Upserted DEF WorkKept
<1>3. RouteKept(work')
  BY <1>1, <1>2 DEF WorkKept, RouteKept
<1>4. AttemptKept(work') /\ StatusKept(work')
  BY <1>1, <1>2 DEF WorkKept, AttemptKept, StatusKept
<1>5. ChecksKept(work')
  <2> SUFFICES ASSUME NEW c \in DOMAIN work'.step.checks
               PROVE  /\ work'.step.checks[c] = "running" =>
                           work'.at = "retrieving" /\ c = "retrieval"
                      /\ work'.step.checks[c] = "pending" =>
                           c \in PlannedChecks(work'.kind) /\ work'.at # "over"
    BY DEF ChecksKept
  <2>1. CASE c = check
    BY <1>2, <2>1
  <2>2. CASE c # check
    <3>1. c \in DOMAIN work.step.checks /\ work'.step.checks[c] = work.step.checks[c]
      BY <1>2, <2>2
    <3>2. /\ work.step.checks[c] = "running" => work.at = "retrieving" /\ c = "retrieval"
          /\ work.step.checks[c] = "pending" => c \in PlannedChecks(work.kind)
      BY <3>1 DEF WorkKept, ChecksKept
    <3> QED BY <1>1, <2>2, <3>1, <3>2
  <2> QED BY <2>1, <2>2
<1>6. ToolsKept(work')
  <2>1. work.kind # "tool"
    BY DEF WorkKept, StatusKept
  <2> QED BY <1>1, <2>1 DEF WorkKept, ToolsKept
<1> QED BY <1>2, <1>3, <1>4, <1>5, <1>6 DEF WorkKept

\* Work that ends, and tells of what was still to come if it released something.
LEMMA WorkEnds ==
  ASSUME WorkKept(work), HasFields(work', WorkFields),
         Keeps({"kind", "calls", "made", "peak", "provider", "tools"}),
         IsStep(work'.step), work'.step.attempt = work.step.attempt,
         work'.step.route = work.step.route,
         work.at \notin {"waiting", "over", "retrieving"}, work'.at = "over",
         DOMAIN work'.step.checks = DOMAIN work.step.checks,
         \A c \in DOMAIN work.step.checks :
           \/ work'.step.checks[c] \notin {"running", "pending"}
           \/ /\ work'.step.checks[c] = work.step.checks[c]
              /\ work'.step.status \in {"passed", "degraded"} => c \notin PlannedChecks(work.kind)
  PROVE  WorkKept(work')
<1>1. /\ work'.kind = work.kind /\ work'.calls = work.calls /\ work'.tools = work.tools
      /\ work'.made = work.made /\ work'.peak = work.peak /\ work'.provider = work.provider
  BY DEF Keeps
<1>2. RouteKept(work')
  BY <1>1 DEF WorkKept, RouteKept
<1>3. AttemptKept(work') /\ StatusKept(work')
  BY <1>1 DEF WorkKept, AttemptKept, StatusKept
<1>4. ChecksKept(work')
  <2> SUFFICES ASSUME NEW c \in DOMAIN work'.step.checks
               PROVE  /\ work'.step.checks[c] # "running"
                      /\ work'.step.checks[c] = "pending" =>
                           /\ c \in PlannedChecks(work'.kind)
                           /\ work'.step.status \notin {"passed", "degraded"}
    BY DEF ChecksKept
  <2>1. /\ work.step.checks[c] # "running"
        /\ work.step.checks[c] = "pending" => c \in PlannedChecks(work.kind)
    BY DEF WorkKept, ChecksKept
  <2> QED BY <1>1, <2>1
<1>5. ToolsKept(work')
  <2>1. work.kind # "tool"
    BY DEF WorkKept, StatusKept
  <2> QED BY <1>1, <2>1 DEF WorkKept, ToolsKept
<1> QED BY <1>2, <1>3, <1>4, <1>5 DEF WorkKept

\* What a showing leaves of work whose attempt is the one last shown.
LEMMA ShowsStep ==
  ASSUME WorkKept(work), NEW s, s.attempt = work.step.attempt
  PROVE  LET v == Show(work, s) IN
         /\ HasFields(v, WorkFields) /\ v.step = s
         /\ \A x \in WorkFields \ {"step"} : v[x] = work[x]
<1>1. /\ HasFields(work, WorkFields) /\ work.peak = s.attempt /\ s.attempt \in Int
  BY DEF WorkKept, AttemptKept, MaxAttempts
<1> QED BY <1>1, ShowChanges DEF WorkFields

\* The step opens with its first attempt.
LEMMA OpenKeeps == WorkKept(work) /\ Open => WorkKept(work')
<1> SUFFICES ASSUME WorkKept(work), Open PROVE WorkKept(work')
  OBVIOUS
<1> DEFINE s == StartStep(work.step)
           at == IF work.kind = "context" THEN "loading" ELSE "asking"
<1>1. /\ work.kind \in {"context", "review"} /\ work.at = "waiting"
      /\ work' = [Show(work, s) EXCEPT !.at = at]
  BY DEF Open, Goes
<1>2. /\ work.step.status = "pending" /\ work.step.attempt = 0 /\ work.made = << >>
      /\ work.peak = 0 /\ IsStep(work.step) /\ HasFields(work, WorkFields)
  BY <1>1 DEF WorkKept, StatusKept, AttemptKept
<1>3. Shown!StepAfter("pending", "context", "started") = "running"
  BY DEF Shown!StepAfter
<1>4. Min({0 + 1, MaxAttempts}) = 1
  BY OfTwo DEF MaxAttempts
<1>5. /\ IsStep(s) /\ s.status = "running" /\ s.attempt = 1
      /\ s.route = work.step.route /\ s.checks = work.step.checks
  BY <1>2, <1>3, <1>4 DEF StartStep, IsStep, HasFields, StepFields
<1> HIDE DEF s
<1> DEFINE v == Show(work, s)
<1>6. /\ HasFields(v, WorkFields) /\ v.step = s /\ v.peak = 1
      /\ \A x \in WorkFields \ {"step", "peak"} : v[x] = work[x]
  BY <1>2, <1>5, ShowChanges
<1> HIDE DEF v
<1>7. /\ HasFields(work', WorkFields) /\ work'.step = s /\ work'.peak = 1
      /\ work'.at \in {"loading", "asking"}
      /\ work'.kind = work.kind /\ work'.made = work.made /\ work'.calls = work.calls
      /\ work'.tools = work.tools /\ work'.provider = work.provider
  BY <1>1, <1>6 DEF v, HasFields, WorkFields
<1>8. RouteKept(work')
  BY <1>5, <1>7 DEF WorkKept, RouteKept
<1>9. AttemptKept(work') /\ StatusKept(work')
  <2>1. Len(work.made) = 0
    BY <1>2
  <2> QED BY <1>1, <1>5, <1>7, <2>1 DEF AttemptKept, StatusKept, MaxAttempts
<1>10. ChecksKept(work') /\ ToolsKept(work')
  BY <1>1, <1>5, <1>7 DEF WorkKept, ChecksKept, ToolsKept
<1> QED BY <1>5, <1>7, <1>8, <1>9, <1>10 DEF WorkKept

\* What is retrieved is one check from its start to its end.
LEMMA RetrievalKeeps ==
  WorkKept(work) /\ (StartRetrieval \/ \E status \in {"passed", "degraded", "failed"} : EndRetrieval(status))
    => WorkKept(work')
<1> SUFFICES ASSUME WorkKept(work),
                    StartRetrieval \/ \E status \in {"passed", "degraded", "failed"} : EndRetrieval(status)
             PROVE  WorkKept(work')
  OBVIOUS
<1>1. HasFields(work, WorkFields) /\ IsStep(work.step)
  BY DEF WorkKept
<1>2. work.at \in {"loading", "retrieving"}
  BY DEF StartRetrieval, Observe, EndRetrieval
<1>3. ~Shown!Terminal(work.step.status)
  BY <1>2, OpenIsNotTerminal DEF WorkKept, StatusKept
<1>4. ASSUME NEW references, NEW status, "retrieval" \in references
      PROVE  LET v == Show(work, ApplyRetrieval(work.step, references, status)) IN
             /\ HasFields(v, WorkFields) /\ v.step = Upsert(work.step, "retrieval", status)
             /\ \A x \in WorkFields \ {"step"} : v[x] = work[x]
  <2>1. ApplyRetrieval(work.step, references, status) = Upsert(work.step, "retrieval", status)
    BY <1>3, <1>4 DEF ApplyRetrieval, CheckOf
  <2>2. Upsert(work.step, "retrieval", status).attempt = work.step.attempt
    BY <1>1, Upserted
  <2> QED BY <2>1, <2>2, ShowsStep
<1>5. ASSUME NEW v, NEW status, NEW at,
             HasFields(v, WorkFields), v.step = Upsert(work.step, "retrieval", status),
             \A x \in WorkFields \ {"step"} : v[x] = work[x],
             status # "pending", status = "running" => at = "retrieving",
             at \in {"retrieving", "erring", "asking"},
             \/ work' = [v EXCEPT !.at = at]
             \/ \E retryable : work' = [[v EXCEPT !.retryable = retryable] EXCEPT !.at = at]
      PROVE  WorkKept(work')
  <2>1. /\ HasFields(work', WorkFields) /\ work'.step = v.step /\ work'.at = at
        /\ \A x \in WorkFields \ {"step", "at", "retryable"} : work'[x] = work[x]
    BY <1>5 DEF HasFields, WorkFields
  <2>2. /\ Keeps({"kind", "calls", "made", "peak", "provider"}) /\ work'.tools = work.tools
    BY <2>1 DEF Keeps, WorkFields
  <2>3. DOMAIN work.tools \subseteq Tools
    BY DEF WorkKept, ToolsKept
  <2>4. /\ work'.step = Upsert(work.step, "retrieval", status)
        /\ status # "pending" /\ work.at \notin {"waiting", "over"}
        /\ work'.at \notin {"waiting", "over", "answered"}
        /\ status = "running" => work'.at = "retrieving"
        /\ DOMAIN work'.tools \subseteq Tools
        /\ \A t \in DOMAIN work'.tools : t \in DOMAIN work.tools /\ work'.tools[t] = work.tools[t]
    BY <1>2, <1>5, <2>1, <2>2, <2>3
  <2> QED BY <2>1, <2>2, <2>4, CheckIsTold
<1>6. CASE StartRetrieval
  <2> DEFINE v == Show(work, ApplyRetrieval(work.step, {"retrieval"}, "running"))
  <2>1. work' = [v EXCEPT !.at = "retrieving"]
    BY <1>6 DEF StartRetrieval, Goes
  <2>2. /\ HasFields(v, WorkFields) /\ v.step = Upsert(work.step, "retrieval", "running")
        /\ \A x \in WorkFields \ {"step"} : v[x] = work[x]
    BY <1>4
  <2> HIDE DEF v
  <2> QED BY <1>5, <2>1, <2>2
<1>7. ASSUME NEW status \in {"passed", "degraded", "failed"}, EndRetrieval(status)
      PROVE  WorkKept(work')
  <2> DEFINE references == IF status = "failed" THEN {"retrieval"} ELSE {"retrieval", "bundle"}
             v == Show(work, ApplyRetrieval(work.step, references, status))
             at == IF status = "failed" THEN "erring" ELSE "asking"
  <2>1. \E retryable : work' = [[v EXCEPT !.retryable = retryable] EXCEPT !.at = at]
    BY <1>7, Zenon DEF EndRetrieval, Goes
  <2>2. "retrieval" \in references
    OBVIOUS
  <2> HIDE DEF references
  <2>3. /\ HasFields(v, WorkFields) /\ v.step = Upsert(work.step, "retrieval", status)
        /\ \A x \in WorkFields \ {"step"} : v[x] = work[x]
    BY <1>4, <2>2
  <2>4. at \in {"erring", "asking"}
    OBVIOUS
  <2> HIDE DEF v, at
  <2> QED BY <1>5, <1>7, <2>1, <2>3, <2>4
<1> QED BY <1>6, <1>7

\* The steps of the work with nothing to show for it.
LEMMA UnseenKeeps ==
  WorkKept(work) /\ (LoadUnobserved \/ Compose \/ AskAgain \/ GiveUp \/ FallBack \/ Retry)
    => WorkKept(work')
<1> SUFFICES ASSUME WorkKept(work),
                    LoadUnobserved \/ Compose \/ AskAgain \/ GiveUp \/ FallBack \/ Retry
             PROVE  WorkKept(work')
  OBVIOUS
<1>1. HasFields(work, WorkFields) /\ work.provider \in Providers
  BY DEF WorkKept, RouteKept
<1> DEFINE Moves ==
             /\ HasFields(work', WorkFields)
             /\ Keeps({"kind", "step", "calls", "made", "peak", "tools"})
             /\ work'.provider \in Providers
             /\ work.at \notin {"waiting", "over", "retrieving"}
             /\ work'.at \notin {"waiting", "over", "retrieving", "answered"}
<1>2. CASE LoadUnobserved
  <2>1. /\ work.at = "loading"
        /\ \/ work' = [work EXCEPT !.at = "asking"]
           \/ \E retryable : work' = [[work EXCEPT !.retryable = retryable] EXCEPT !.at = "erring"]
    BY <1>2, Zenon DEF LoadUnobserved, Goes
  <2>2. Moves
    BY <1>1, <2>1 DEF HasFields, WorkFields, Keeps
  <2> QED BY <2>2, GoesOn
<1>3. CASE Compose
  <2>1. work.at \in {"answered", "unanswered"} /\ work' = [work EXCEPT !.at = "packet"]
    BY <1>3 DEF Compose, Goes
  <2>2. Moves
    BY <1>1, <2>1 DEF HasFields, WorkFields, Keeps
  <2> QED BY <2>2, GoesOn
<1>4. CASE AskAgain
  <2>1. /\ work.at = "answered"
        /\ \E variant : work' = [[work EXCEPT !.variant = variant] EXCEPT !.at = "asking"]
    BY <1>4, Zenon DEF AskAgain, Goes
  <2>2. Moves
    BY <1>1, <2>1 DEF HasFields, WorkFields, Keeps
  <2> QED BY <2>2, GoesOn
<1>5. CASE GiveUp
  <2>1. /\ work.at \in {"answered", "unanswered"}
        /\ \E retryable : work' = [[work EXCEPT !.retryable = retryable] EXCEPT !.at = "erring"]
    BY <1>5, Zenon DEF GiveUp, Goes
  <2>2. Moves
    BY <1>1, <2>1 DEF HasFields, WorkFields, Keeps
  <2> QED BY <2>2, GoesOn
<1>6. CASE FallBack
  <2>1. /\ work.at = "erring"
        /\ work' = [[work EXCEPT !.provider = "local_rocm", !.variant = "base"] EXCEPT
                      !.at = "loading"]
    BY <1>6 DEF FallBack, Goes
  <2>2. Moves
    BY <1>1, <2>1 DEF HasFields, WorkFields, Keeps, Providers
  <2> QED BY <2>2, GoesOn
<1>7. CASE Retry
  <2>1. /\ work.at = "erring"
        /\ \E provider \in Providers, at \in {"loading", "asking"} :
             work' = [[work EXCEPT !.attempt = 1, !.variant = "base", !.provider = provider] EXCEPT
                        !.at = at]
    <3> DEFINE provider == IF work.hybrid THEN "radeon_api" ELSE work.provider
               at == IF work.kind = "context" THEN "loading" ELSE "asking"
    <3>1. work' = [[work EXCEPT !.attempt = 1, !.variant = "base", !.provider = provider] EXCEPT
                     !.at = at]
      BY <1>7 DEF Retry, Goes
    <3>2. provider \in Providers /\ at \in {"loading", "asking"}
      BY <1>1 DEF Providers
    <3> HIDE DEF provider, at
    <3> QED BY <1>7, <3>1, <3>2 DEF Retry
  <2>2. Moves
    BY <1>1, <2>1 DEF HasFields, WorkFields, Keeps
  <2> QED BY <2>2, GoesOn
<1> QED BY <1>2, <1>3, <1>4, <1>5, <1>6, <1>7

\* A call of the model, and what the observer tells of it.
LEMMA AskKeeps == \A ok \in BOOLEAN : WorkKept(work) /\ Ask(ok) => WorkKept(work')
<1> SUFFICES ASSUME NEW ok \in BOOLEAN, WorkKept(work), Ask(ok) PROVE WorkKept(work')
  OBVIOUS
<1> DEFINE p == work.provider
           kind == Classify(work.calls, p)
           n == work.calls.attempts + 1
           calls == [attempts |-> n, route |-> p, failed |-> ~ok]
           s == ApplyModel(work.step, n, kind, p, ok)
           v == Show(work, s)
           at == IF ok THEN "answered" ELSE "unanswered"
           u == [v EXCEPT !.calls = calls, !.made = Append(@, p)]
<1>1. work.at = "asking" /\ work' = [u EXCEPT !.at = at]
  BY Zenon DEF Ask, Goes
<1>2. /\ HasFields(work, WorkFields) /\ IsStep(work.step)
      /\ ~Shown!Terminal(work.step.status) /\ work.kind # "tool"
  BY <1>1, OpenIsNotTerminal DEF WorkKept, StatusKept
<1>3. /\ p \in Providers /\ work.made \in Seq(Providers) /\ work.step.route \in Seq(Providers)
      /\ work.calls.attempts = Len(work.made) /\ n = Len(work.made) + 1 /\ n \in Nat
      /\ TellsOf(work.step.route, work.made)
      /\ work.made # << >> =>
           /\ work.calls.route = work.made[Len(work.made)]
           /\ work.step.route # << >>
           /\ work.step.route[Len(work.step.route)] = work.made[Len(work.made)]
  BY DEF WorkKept, RouteKept
<1> HIDE DEF p, kind, n
<1>4. /\ IsStep(s) /\ s.status = work.step.status
      /\ s.attempt = IF n <= MaxAttempts THEN n ELSE MaxAttempts
      /\ s.route = IF work.step.route # << >> /\ kind = "fallback" /\ work.step.route # <<p>>
                   THEN Append(work.step.route, p)
                   ELSE IF work.step.route = << >> \/ Last(work.step.route) # p THEN <<p>>
                   ELSE work.step.route
      /\ DOMAIN s.checks = DOMAIN work.step.checks
      /\ \A c \in DOMAIN work.step.checks :
           s.checks[c] \in {"passed", "degraded", work.step.checks[c]}
  <2>1. IsStep(work.step) /\ ~Shown!Terminal(work.step.status) /\ n \in Nat
    BY <1>2, <1>3
  <2> QED BY <2>1, CallChanges, Zenon
<1> HIDE DEF s
<1>5. /\ work.step.attempt \in 0 .. MaxAttempts /\ work.peak = work.step.attempt
      /\ work.step.attempt <= n
  BY <1>3 DEF WorkKept, AttemptKept
<1>6. s.attempt \in Int /\ work.peak \in Int /\ work.peak <= s.attempt
  BY <1>3, <1>4, <1>5 DEF MaxAttempts
<1>7. /\ HasFields(v, WorkFields) /\ v.step = s /\ v.peak = s.attempt
      /\ \A x \in WorkFields \ {"step", "peak"} : v[x] = work[x]
  BY <1>2, <1>6, ShowChanges
<1> HIDE DEF v, calls
<1>8. /\ HasFields(work', WorkFields) /\ work'.step = s /\ work'.peak = s.attempt
      /\ work'.calls = calls /\ work'.made = Append(work.made, p)
      /\ work'.at \in {"answered", "unanswered"}
      /\ work'.kind = work.kind /\ work'.tools = work.tools /\ work'.provider = p
  BY <1>1, <1>7 DEF HasFields, WorkFields, p
<1>9. RouteKept(work')
  <2> DEFINE same == work.made # << >> /\ work.made[Len(work.made)] = p
             grown == IF same THEN work.step.route ELSE Append(work.step.route, p)
  <2>1. s.route = grown
    <3>1. CASE work.made = << >>
      <4>1. work.step.route = << >>
        BY <1>3, <3>1, FS_EmptySet DEF TellsOf
      <4>2. Append(work.step.route, p) = <<p>>
        BY <4>1
      <4> QED BY <1>4, <3>1, <4>1, <4>2
    <3>2. CASE work.made # << >>
      <4>1. work.calls.attempts > 0
        BY <1>3, <3>2
      <4>2. kind = IF work.calls.route # p THEN "fallback" ELSE "again"
        BY <1>3, <4>1 DEF kind, Classify
      <4>3. /\ Last(work.step.route) = work.made[Len(work.made)]
            /\ work.calls.route = work.made[Len(work.made)] /\ work.step.route # << >>
        BY <1>3, <3>2 DEF Last
      <4>4. Last(<<p>>) = p
        BY DEF Last
      <4> QED BY <1>4, <3>2, <4>2, <4>3, <4>4
    <3> QED BY <3>1, <3>2
  <2>2. TellsOf(s.route, work'.made)
    BY <1>3, <1>8, <2>1, RouteGrows
  <2>3. /\ s.route \in Seq(Providers) /\ s.route # << >> /\ s.route[Len(s.route)] = p
    BY <1>3, <2>1
  <2>4. /\ work'.made \in Seq(Providers) /\ work'.made # << >> /\ Len(work'.made) = n
        /\ work'.made[Len(work'.made)] = p
    <3>1. \A m \in Seq(Providers), x \in Providers :
            /\ Append(m, x) \in Seq(Providers) /\ Append(m, x) # << >>
            /\ Len(Append(m, x)) = Len(m) + 1 /\ Append(m, x)[Len(m) + 1] = x
      OBVIOUS
    <3> QED BY <1>3, <1>8, <3>1
  <2>5. work'.calls.attempts = n /\ work'.calls.route = p
    BY <1>8 DEF calls
  <2> QED BY <1>3, <1>8, <2>2, <2>3, <2>4, <2>5 DEF RouteKept
<1>10. AttemptKept(work') /\ StatusKept(work')
  <2>1. Len(work'.made) = n
    BY <1>3, <1>8
  <2>2. AttemptKept(work')
    BY <1>3, <1>4, <1>8, <2>1 DEF AttemptKept, MaxAttempts
  <2>3. StatusKept(work')
    BY <1>1, <1>2, <1>4, <1>8 DEF WorkKept, StatusKept
  <2> QED BY <2>2, <2>3
<1>11. ChecksKept(work') /\ ToolsKept(work')
  <2>1. ChecksKept(work')
    BY <1>1, <1>4, <1>8 DEF WorkKept, ChecksKept
  <2>2. ToolsKept(work')
    BY <1>2, <1>8 DEF WorkKept, ToolsKept
  <2> QED BY <2>1, <2>2
<1> QED BY <1>4, <1>8, <1>9, <1>10, <1>11 DEF WorkKept

\* The kinds of a step that is worked on, and what the plan wants shown of it.
LEMMA PlannedOf ==
  /\ PlannedChecks("context") = {"model-route", "evidence-authority", "context-contract"}
  /\ PlannedChecks("review") = {"model-route", "review-contract"}
BY DEF PlannedChecks

\* The end of a context step: everything the plan wanted is settled.
LEMMA ContextEnds ==
  ASSUME WorkKept(work), work.kind = "context",
         work.at \notin {"waiting", "over", "retrieving"},
         NEW status, NEW verdict \in {"passed", "unavailable"},
         NEW marks, marks = [c \in {"model-route", "evidence-authority", "context-contract"} |-> verdict],
         work' = [Show(work, Close(work.step, "context", status, marks)) EXCEPT !.at = "over"]
  PROVE  WorkKept(work')
<1> DEFINE closed == [work.step EXCEPT !.status = Shown!StepAfter(@, "context", status)]
           s == Mark(closed, marks)
           v == Show(work, s)
<1>1. HasFields(work, WorkFields) /\ IsStep(work.step)
  BY DEF WorkKept
<1>2. /\ IsStep(closed) /\ closed.attempt = work.step.attempt /\ closed.route = work.step.route
      /\ closed.checks = work.step.checks
  BY <1>1 DEF IsStep, HasFields, StepFields
<1>3. Close(work.step, "context", status, marks) = s
  BY DEF Close
<1> HIDE DEF closed
<1>4. /\ IsStep(s) /\ s.attempt = work.step.attempt /\ s.route = work.step.route
      /\ DOMAIN s.checks = DOMAIN work.step.checks
      /\ \A c \in DOMAIN work.step.checks :
           s.checks[c] = IF c \in DOMAIN marks THEN marks[c] ELSE work.step.checks[c]
  BY <1>2, Marked
<1>5. \A c \in DOMAIN work.step.checks :
        \/ s.checks[c] \notin {"running", "pending"}
        \/ s.checks[c] = work.step.checks[c] /\ c \notin PlannedChecks(work.kind)
  BY <1>4, PlannedOf
<1> HIDE DEF s
<1>6. /\ HasFields(v, WorkFields) /\ v.step = s
      /\ \A x \in WorkFields \ {"step"} : v[x] = work[x]
  BY <1>4, ShowsStep
<1> HIDE DEF v
<1>7. /\ HasFields(work', WorkFields) /\ work'.step = s /\ work'.at = "over"
      /\ \A x \in WorkFields \ {"step", "at"} : work'[x] = work[x]
  BY <1>3, <1>6 DEF HasFields, WorkFields, v
<1>8. Keeps({"kind", "calls", "made", "peak", "provider", "tools"})
  BY <1>7 DEF Keeps, WorkFields
<1> QED BY <1>4, <1>5, <1>7, <1>8, WorkEnds

\* A context ends with its packet or without.
LEMMA ContextKeeps ==
  WorkKept(work) /\ (FailContext \/ CompleteContext) => WorkKept(work')
<1> SUFFICES ASSUME WorkKept(work), FailContext \/ CompleteContext PROVE WorkKept(work')
  OBVIOUS
<1>1. CASE FailContext
  <2>1. /\ work.kind = "context" /\ work.at \in {"erring", "packet"}
        /\ work' = [Show(work, Close(work.step, "context", "failed", Unavailable)) EXCEPT
                      !.at = "over"]
    BY <1>1, Zenon DEF FailContext, Goes
  <2>2. Unavailable =
          [c \in {"model-route", "evidence-authority", "context-contract"} |-> "unavailable"]
    BY DEF Unavailable, Passed
  <2> QED BY <2>1, <2>2, ContextEnds
<1>2. CASE CompleteContext
  <2>1. /\ work.kind = "context" /\ work.at \in {"told", "packet"}
        /\ work' = [Show(work, Close(work.step, "context", "completed", Passed)) EXCEPT
                      !.at = "over"]
    BY <1>2, Zenon DEF CompleteContext, Goes
  <2>2. Passed = [c \in {"model-route", "evidence-authority", "context-contract"} |-> "passed"]
    BY DEF Passed
  <2> QED BY <2>1, <2>2, ContextEnds
<1> QED BY <1>1, <1>2

\* A review that fails with its run, whatever was still to come.
LEMMA FailureEnds ==
  ASSUME WorkKept(work), work.at \notin {"waiting", "over", "retrieving"},
         work' = [Show(work, [work.step EXCEPT !.status = "failed"]) EXCEPT !.at = "over"]
  PROVE  WorkKept(work')
<1> DEFINE s == [work.step EXCEPT !.status = "failed"]
           v == Show(work, s)
<1>1. HasFields(work, WorkFields) /\ IsStep(work.step)
  BY DEF WorkKept
<1>2. /\ IsStep(s) /\ s.attempt = work.step.attempt /\ s.route = work.step.route
      /\ s.checks = work.step.checks /\ s.status = "failed"
  BY <1>1 DEF IsStep, HasFields, StepFields
<1> HIDE DEF s
<1>3. /\ HasFields(v, WorkFields) /\ v.step = s
      /\ \A x \in WorkFields \ {"step"} : v[x] = work[x]
  BY <1>2, ShowsStep
<1>4. work' = [v EXCEPT !.at = "over"]
  BY DEF s
<1> HIDE DEF v
<1>5. /\ HasFields(work', WorkFields) /\ work'.step = s /\ work'.at = "over"
      /\ \A x \in WorkFields \ {"step", "at"} : work'[x] = work[x]
  BY <1>3, <1>4 DEF HasFields, WorkFields
<1>6. Keeps({"kind", "calls", "made", "peak", "provider", "tools"})
  BY <1>5 DEF Keeps, WorkFields
<1> QED BY <1>2, <1>5, <1>6, WorkEnds

\* The decisions of a review pass.
ReviewEnds == {"approve", "reject", "repair_unresolved", "approved_subset"}

\* A decision that ends the review leaves nothing of it running.
LEMMA ReviewOutcomes ==
  \A s \in ReviewEnds : Shown!StepAfter("running", "review", s) \in {"passed", "failed", "degraded"}
BY DEF ReviewEnds, Shown!StepAfter

\* A decision of a review asks for a repair, fails the run or ends the review.
LEMMA ReviewKeeps ==
  ASSUME WorkKept(work),
         NEW status \in {"approve", "reject", "repair_requested", "narrowed", "repair_unresolved",
                         "approved_subset", "repair"},
         DecideReview(status)
  PROVE  WorkKept(work')
<1>1. work.kind = "review" /\ work.at = "answered"
  BY DEF DecideReview
<1>2. HasFields(work, WorkFields) /\ IsStep(work.step)
  BY DEF WorkKept
<1>3. CASE status \in {"repair_requested", "narrowed"}
  <2> DEFINE s == [work.step EXCEPT !.status = "repairing", !.attempt = Min({@ + 1, MaxAttempts})]
             v == Show(work, s)
  <2>1. work' = [[v EXCEPT !.pass = 1, !.attempt = 0, !.variant = "base"] EXCEPT !.at = "asking"]
    BY <1>3 DEF DecideReview, Goes
  <2>2. /\ work.step.attempt \in 0 .. MaxAttempts /\ work.peak = work.step.attempt
        /\ work.step.attempt <= Len(work.made)
        /\ work.step.attempt >= Len(work.made) \/ work.step.attempt = MaxAttempts
    BY <1>1 DEF WorkKept, AttemptKept
  <2>3. Min({work.step.attempt + 1, MaxAttempts}) =
          IF work.step.attempt + 1 <= MaxAttempts THEN work.step.attempt + 1 ELSE MaxAttempts
    BY <2>2, OfTwo DEF MaxAttempts
  <2>4. /\ IsStep(s) /\ s.status = "repairing" /\ s.checks = work.step.checks
        /\ s.route = work.step.route
        /\ s.attempt = IF work.step.attempt + 1 <= MaxAttempts THEN work.step.attempt + 1
                       ELSE MaxAttempts
    BY <1>2, <2>3 DEF IsStep, HasFields, StepFields
  <2> HIDE DEF s
  <2>5. s.attempt \in Int /\ work.peak \in Int /\ work.peak <= s.attempt
    BY <2>2, <2>4 DEF MaxAttempts
  <2>6. /\ HasFields(v, WorkFields) /\ v.step = s /\ v.peak = s.attempt
        /\ \A x \in WorkFields \ {"step", "peak"} : v[x] = work[x]
    BY <1>2, <2>5, ShowChanges
  <2> HIDE DEF v
  <2>7. /\ HasFields(work', WorkFields) /\ work'.step = s /\ work'.peak = s.attempt
        /\ work'.at = "asking" /\ work'.kind = work.kind /\ work'.calls = work.calls
        /\ work'.made = work.made /\ work'.tools = work.tools /\ work'.provider = work.provider
    BY <2>1, <2>6 DEF HasFields, WorkFields
  <2>8. RouteKept(work')
    BY <2>4, <2>7 DEF WorkKept, RouteKept
  <2>9. AttemptKept(work') /\ StatusKept(work')
    <3>1. Len(work.made) \in Nat
      BY DEF WorkKept, RouteKept
    <3>2. AttemptKept(work')
      BY <2>2, <2>4, <2>7, <3>1 DEF AttemptKept, MaxAttempts
    <3> QED BY <1>1, <2>4, <2>7, <3>2 DEF StatusKept
  <2>10. ChecksKept(work') /\ ToolsKept(work')
    BY <1>1, <2>4, <2>7 DEF WorkKept, ChecksKept, ToolsKept
  <2> QED BY <2>4, <2>7, <2>8, <2>9, <2>10 DEF WorkKept
<1>4. CASE status = "repair"
  <2>1. work' = [Show(work, [work.step EXCEPT !.status = "failed"]) EXCEPT !.at = "over"]
    BY <1>4 DEF DecideReview, Goes
  <2> QED BY <1>1, <2>1, FailureEnds
<1>5. CASE status \in ReviewEnds
  <2> DEFINE closed == [work.step EXCEPT !.status = Shown!StepAfter(@, "review", status)]
             marks == Reviewed(status)
             s == Mark(closed, marks)
             v == Show(work, s)
  <2>1. work' = [v EXCEPT !.at = "over"]
    <3>1. status \notin {"repair_requested", "narrowed"} /\ status # "repair"
      BY <1>5 DEF ReviewEnds
    <3> QED BY <3>1 DEF DecideReview, Goes, Close
  <2>2. /\ IsStep(closed) /\ closed.attempt = work.step.attempt /\ closed.route = work.step.route
        /\ closed.checks = work.step.checks
    BY <1>2 DEF IsStep, HasFields, StepFields
  <2>3. /\ DOMAIN marks = {"model-route", "review-contract"}
        /\ \A c \in DOMAIN marks : marks[c] \in {"passed", "failed", "degraded"}
    BY <1>5, ReviewOutcomes DEF Reviewed
  <2> HIDE DEF closed, marks
  <2>4. /\ IsStep(s) /\ s.attempt = work.step.attempt /\ s.route = work.step.route
        /\ DOMAIN s.checks = DOMAIN work.step.checks
        /\ \A c \in DOMAIN work.step.checks :
             s.checks[c] = IF c \in DOMAIN marks THEN marks[c] ELSE work.step.checks[c]
    BY <2>2, Marked
  <2>5. \A c \in DOMAIN work.step.checks :
          \/ s.checks[c] \notin {"running", "pending"}
          \/ s.checks[c] = work.step.checks[c] /\ c \notin PlannedChecks(work.kind)
    BY <1>1, <2>3, <2>4, PlannedOf
  <2> HIDE DEF s
  <2>6. /\ HasFields(v, WorkFields) /\ v.step = s
        /\ \A x \in WorkFields \ {"step"} : v[x] = work[x]
    BY <2>4, ShowsStep
  <2> HIDE DEF v
  <2>7. /\ HasFields(work', WorkFields) /\ work'.step = s /\ work'.at = "over"
        /\ \A x \in WorkFields \ {"step", "at"} : work'[x] = work[x]
    BY <2>1, <2>6 DEF HasFields, WorkFields
  <2>8. Keeps({"kind", "calls", "made", "peak", "provider", "tools"})
    BY <2>7 DEF Keeps, WorkFields
  <2> QED BY <1>1, <2>4, <2>5, <2>7, <2>8, WorkEnds
<1> QED BY <1>3, <1>4, <1>5 DEF ReviewEnds

\* A reviewer that fails, and the packet and the tools that are told of before the end.
LEMMA TellingKeeps ==
  WorkKept(work) /\ (EndReview \/ TellPacket \/ TellTool) => WorkKept(work')
<1> SUFFICES ASSUME WorkKept(work), EndReview \/ TellPacket \/ TellTool PROVE WorkKept(work')
  OBVIOUS
<1>1. HasFields(work, WorkFields) /\ IsStep(work.step) /\ DOMAIN work.tools \subseteq Tools
  BY DEF WorkKept, ToolsKept
<1>2. CASE EndReview
  <2>1. /\ work.at = "erring"
        /\ work' = [Show(work, [work.step EXCEPT !.status = "failed"]) EXCEPT !.at = "over"]
    BY <1>2, Zenon DEF EndReview, Goes
  <2> QED BY <2>1, FailureEnds
<1>3. CASE TellPacket
  <2> DEFINE s == Upsert(work.step, "packet", "passed")
             v == Show(work, s)
  <2>1. work.at = "packet" /\ work' = [v EXCEPT !.at = "told"]
    <3>1. work.at = "packet"
      BY <1>3 DEF TellPacket
    <3>2. ~Shown!Terminal(work.step.status)
      BY <3>1, OpenIsNotTerminal DEF WorkKept, StatusKept
    <3>3. ApplyRetrieval(work.step, {"packet"}, "passed") = s
      BY <3>2 DEF ApplyRetrieval, CheckOf
    <3> QED BY <1>3, <3>1, <3>3 DEF TellPacket, Goes
  <2>2. s.attempt = work.step.attempt
    BY <1>1, Upserted
  <2>3. /\ HasFields(v, WorkFields) /\ v.step = s
        /\ \A x \in WorkFields \ {"step"} : v[x] = work[x]
    BY <2>2, ShowsStep
  <2> HIDE DEF v, s
  <2>4. /\ HasFields(work', WorkFields) /\ work'.step = s /\ work'.at = "told"
        /\ \A x \in WorkFields \ {"step", "at"} : work'[x] = work[x]
    BY <2>1, <2>3 DEF HasFields, WorkFields
  <2>5. Keeps({"kind", "calls", "made", "peak", "provider"}) /\ work'.tools = work.tools
    BY <2>4 DEF Keeps, WorkFields
  <2>6. work'.step = Upsert(work.step, "packet", "passed")
    BY <2>4 DEF s
  <2>7. /\ work.at \notin {"waiting", "over"} /\ work'.at \notin {"waiting", "over", "answered"}
        /\ work.at # "retrieving" /\ DOMAIN work'.tools \subseteq Tools
        /\ \A t \in DOMAIN work'.tools : t \in DOMAIN work.tools /\ work'.tools[t] = work.tools[t]
    BY <1>1, <2>1, <2>4, <2>5
  <2> QED BY <2>4, <2>5, <2>6, <2>7, CheckIsTold
<1>4. CASE TellTool
  <2>1. PICK tool \in Tools :
          work' = [[Show(work, ApplyTool(work.step, work.kind, tool, "passed")) EXCEPT
                      !.tools = With(@, tool, "passed")] EXCEPT !.at = "told"]
    BY <1>4, Zenon DEF TellTool, Goes
  <2> DEFINE s == Upsert(work.step, tool, "passed")
             v == Show(work, s)
  <2>2. work.at = "told" /\ work.kind # "tool"
    BY <1>4 DEF TellTool, WorkKept, StatusKept
  <2>3. work' = [[v EXCEPT !.tools = With(@, tool, "passed")] EXCEPT !.at = "told"]
    BY <2>1, <2>2 DEF ApplyTool
  <2>4. s.attempt = work.step.attempt
    BY <1>1, Upserted
  <2>5. /\ HasFields(v, WorkFields) /\ v.step = s
        /\ \A x \in WorkFields \ {"step"} : v[x] = work[x]
    BY <2>4, ShowsStep
  <2> HIDE DEF v, s
  <2>6. /\ HasFields(work', WorkFields) /\ work'.step = s /\ work'.at = "told"
        /\ work'.tools = With(work.tools, tool, "passed")
        /\ \A x \in WorkFields \ {"step", "at", "tools"} : work'[x] = work[x]
    BY <2>3, <2>5 DEF HasFields, WorkFields
  <2>7. Keeps({"kind", "calls", "made", "peak", "provider"})
    BY <2>6 DEF Keeps, WorkFields
  <2>8. work'.step = Upsert(work.step, tool, "passed")
    BY <2>6 DEF s
  <2>9. /\ DOMAIN work'.tools \subseteq Tools
        /\ \A t \in DOMAIN work'.tools :
             \/ t \in DOMAIN work.tools /\ work'.tools[t] = work.tools[t]
             \/ work'.tools[t] = "passed"
    BY <1>1, <2>6 DEF With
  <2>10. /\ work.at \notin {"waiting", "over"} /\ work'.at \notin {"waiting", "over", "answered"}
         /\ work.at # "retrieving"
    BY <2>2, <2>6
  <2> QED BY <2>6, <2>7, <2>8, <2>9, <2>10, CheckIsTold
<1> QED BY <1>2, <1>3, <1>4

\* Of statuses one of which is failed, the aggregate is failed.
LEMMA FailedIsFirst ==
  ASSUME NEW statuses, "failed" \in statuses PROVE Shown!Aggregate(statuses) = "failed"
<1> DEFINE found == {i \in DOMAIN Shown!Precedence : Shown!Precedence[i] \in statuses}
<1>1. /\ 1 \in DOMAIN Shown!Precedence /\ Shown!Precedence[1] = "failed"
      /\ DOMAIN Shown!Precedence \subseteq 1 .. 9
  BY DEF Shown!Precedence
<1>2. 1 \in found /\ found \subseteq 1 .. 9
  BY <1>1
<1> HIDE DEF found
<1>3. Shown!Min(found) = 1
  <2>1. \A i \in found : (\A j \in found : i <= j) => i = 1
    BY <1>2
  <2>2. \E i \in found : \A j \in found : i <= j
    BY <1>2
  <2> QED BY <2>1, <2>2, Zenon DEF Shown!Min
<1>4. found # {} /\ Shown!Precedence[Shown!Min(found)] = "failed"
  BY <1>1, <1>2, <1>3
<1> QED BY <1>4 DEF Shown!Aggregate, found

\* A calculation of a fixture: the step it is told of passes only with all of them.
LEMMA CalculateKeeps ==
  \A status \in {"passed", "failed"} : WorkKept(work) /\ Calculate(status) => WorkKept(work')
<1> SUFFICES ASSUME NEW status \in {"passed", "failed"}, WorkKept(work), Calculate(status)
             PROVE  WorkKept(work')
  OBVIOUS
<1>1. PICK tool \in Tools \ DOMAIN work.tools :
        work' = [Show(work, ApplyTool(work.step, "tool", tool, status)) EXCEPT
                   !.tools = With(@, tool, status)]
  BY Zenon DEF Calculate
<1> DEFINE u == Upsert(work.step, tool, status)
           of == Shown!Aggregate(ToolStatuses(u))
           s == [u EXCEPT !.attempt = 1,
                          !.status = IF of \in {"failed", "unavailable"} THEN "degraded" ELSE of]
           v == Show(work, s)
<1>2. /\ HasFields(work, WorkFields) /\ work.kind = "tool" /\ work.at = "waiting"
      /\ work.made = << >> /\ IsStep(work.step) /\ DOMAIN work.tools \subseteq Tools
      /\ work.step.attempt \in 0 .. 1 /\ work.peak = work.step.attempt
  <2>1. work.kind = "tool"
    BY DEF Calculate
  <2>2. work.made = << >> /\ work.at = "waiting"
    BY <2>1 DEF WorkKept, StatusKept
  <2>3. work.step.attempt \in 0 .. 1 /\ work.peak = work.step.attempt
    BY <2>2 DEF WorkKept, AttemptKept, MaxAttempts
  <2> QED BY <2>1, <2>2, <2>3 DEF WorkKept, ToolsKept
<1>3. work' = [v EXCEPT !.tools = With(@, tool, status)]
  BY <1>1 DEF ApplyTool, RefreshToolStep
<1>4. /\ IsStep(u) /\ u.route = work.step.route
      /\ DOMAIN u.checks = DOMAIN work.step.checks \cup {tool}
      /\ \A c \in DOMAIN u.checks : u.checks[c] = IF c = tool THEN status ELSE work.step.checks[c]
  BY <1>2, Upserted
<1> HIDE DEF u
<1>5. /\ IsStep(s) /\ s.route = u.route /\ s.checks = u.checks /\ s.attempt = 1
      /\ s.status = "passed" => of = "passed"
  <2> HIDE DEF of
  <2> QED BY <1>4 DEF IsStep, HasFields, StepFields
<1>6. s.status = "passed" => \A c \in DOMAIN u.checks \cap Tools : u.checks[c] # "failed"
  <2> SUFFICES ASSUME s.status = "passed", NEW c \in DOMAIN u.checks \cap Tools,
                      u.checks[c] = "failed"
               PROVE  FALSE
    OBVIOUS
  <2>1. "failed" \in ToolStatuses(u)
    BY DEF ToolStatuses
  <2>2. of = "failed"
    BY <2>1, FailedIsFirst
  <2> QED BY <1>5, <2>2
<1> HIDE DEF of, s
<1>7. /\ HasFields(v, WorkFields) /\ v.step = s /\ v.peak = 1
      /\ \A x \in WorkFields \ {"step", "peak"} : v[x] = work[x]
  BY <1>2, <1>5, ShowChanges
<1> HIDE DEF v
<1>8. /\ HasFields(work', WorkFields) /\ work'.step = s /\ work'.peak = 1
      /\ work'.tools = With(work.tools, tool, status)
      /\ work'.at = "waiting" /\ work'.kind = "tool" /\ work'.made = << >>
      /\ work'.calls = work.calls /\ work'.provider = work.provider
  BY <1>2, <1>3, <1>7 DEF HasFields, WorkFields
<1>9. RouteKept(work')
  BY <1>2, <1>4, <1>5, <1>8 DEF WorkKept, RouteKept
<1>10. AttemptKept(work') /\ StatusKept(work')
  <2>1. Len(work'.made) = 0
    BY <1>8
  <2> QED BY <1>5, <1>8, <2>1 DEF AttemptKept, StatusKept, MaxAttempts
<1>11. ChecksKept(work')
  BY <1>2, <1>4, <1>5, <1>8 DEF WorkKept, ChecksKept
<1>12. ToolsKept(work')
  <2>1. /\ DOMAIN work'.tools = DOMAIN work.tools \cup {tool}
        /\ \A t \in DOMAIN work'.tools :
             work'.tools[t] = IF t = tool THEN status ELSE work.tools[t]
    BY <1>8 DEF With
  <2>2. \A t \in DOMAIN work.tools : /\ work.tools[t] \in {"passed", "failed"}
                                     /\ t \in DOMAIN work.step.checks
                                     /\ work.step.checks[t] = work.tools[t]
    BY <1>2 DEF WorkKept, ToolsKept
  <2>3. \A t \in DOMAIN work'.tools : /\ work'.tools[t] \in {"passed", "failed"}
                                      /\ t \in DOMAIN s.checks /\ t \in Tools
                                      /\ s.checks[t] = work'.tools[t]
    BY <1>1, <1>2, <1>4, <1>5, <2>1, <2>2
  <2> QED BY <1>5, <1>6, <1>8, <2>3 DEF ToolsKept
<1> QED BY <1>5, <1>8, <1>9, <1>10, <1>11, <1>12 DEF WorkKept

\* Work that nothing was done for yet.
LEMMA WorkBegins == ActivityInit => WorkKept(work)
<1> SUFFICES ASSUME ActivityInit PROVE WorkKept(work)
  OBVIOUS
<1>1. PICK kind \in {"context", "review", "tool"}, hybrid \in BOOLEAN :
        work = [kind |-> kind, hybrid |-> hybrid, at |-> "waiting", step |-> PlannedStep(kind),
                calls |-> [attempts |-> 0, route |-> "", failed |-> FALSE],
                attempt |-> 0, pass |-> 0, variant |-> "base", retryable |-> FALSE,
                provider |-> IF hybrid THEN "radeon_api" ELSE "local_rocm",
                made |-> << >>, peak |-> 0, tools |-> << >>]
  BY Zenon DEF ActivityInit
<1> DEFINE s == PlannedStep(kind)
<1>2. /\ IsStep(s) /\ s.status = "pending" /\ s.attempt = 0 /\ s.route = << >>
      /\ DOMAIN s.checks = PlannedChecks(kind) /\ \A c \in DOMAIN s.checks : s.checks[c] = "pending"
  BY DEF PlannedStep, IsStep, HasFields, StepFields
<1> HIDE DEF s
<1>3. /\ HasFields(work, WorkFields) /\ work.step = s /\ work.kind = kind /\ work.at = "waiting"
      /\ work.calls.attempts = 0 /\ work.made = << >> /\ work.peak = 0 /\ work.tools = << >>
      /\ work.provider \in Providers
  BY <1>1 DEF s, HasFields, WorkFields, Providers
<1>4. Len(<< >>) = 0 /\ << >> \in Seq(Providers)
  OBVIOUS
<1>5. TellsOf(<< >>, << >>)
  <2> DEFINE changes == {i \in DOMAIN << >> : i = 1 \/ << >>[i] # << >>[i - 1]}
  <2>1. changes = {} /\ Cardinality({}) = 0
    BY FS_EmptySet
  <2>2. /\ Len(<< >>) = Cardinality(changes)
        /\ \A i \in changes : << >>[Cardinality({j \in changes : j <= i})] = << >>[i]
    BY <1>4, <2>1
  <2> QED BY <2>2, Zenon DEF TellsOf
<1>6. RouteKept(work)
  BY <1>2, <1>3, <1>4, <1>5 DEF RouteKept
<1>7. AttemptKept(work) /\ StatusKept(work)
  BY <1>2, <1>3, <1>4 DEF AttemptKept, StatusKept, MaxAttempts
<1>8. ChecksKept(work) /\ ToolsKept(work)
  BY <1>2, <1>3 DEF ChecksKept, ToolsKept
<1> QED BY <1>2, <1>3, <1>6, <1>7, <1>8 DEF WorkKept

\* Whatever is done next, the work is kept.
LEMMA WorkGoesOn == WorkKept(work) /\ [ActivityNext]_work => WorkKept(work)'
<1> SUFFICES ASSUME WorkKept(work), [ActivityNext]_work PROVE WorkKept(work')
  OBVIOUS
<1>1. CASE UNCHANGED work
  BY <1>1
<1>2. CASE Open
  BY <1>2, OpenKeeps
<1>3. CASE StartRetrieval \/ \E status \in {"passed", "degraded", "failed"} : EndRetrieval(status)
  BY <1>3, RetrievalKeeps
<1>4. CASE LoadUnobserved \/ Compose \/ AskAgain \/ GiveUp \/ FallBack \/ Retry
  BY <1>4, UnseenKeeps
<1>5. CASE \E ok \in BOOLEAN : Ask(ok)
  BY <1>5, AskKeeps
<1>6. CASE FailContext \/ CompleteContext
  BY <1>6, ContextKeeps
<1>7. CASE EndReview \/ TellPacket \/ TellTool
  BY <1>7, TellingKeeps
<1>8. CASE \E status \in {"approve", "reject", "repair_requested", "narrowed", "repair_unresolved",
                          "approved_subset", "repair"} : DecideReview(status)
  BY <1>8, ReviewKeeps
<1>9. CASE \E status \in {"passed", "failed"} : Calculate(status)
  BY <1>9, CalculateKeeps
<1> QED BY <1>1, <1>2, <1>3, <1>4, <1>5, <1>6, <1>7, <1>8, <1>9, Zenon DEF ActivityNext

\* What is kept is what the step has to tell.
LEMMA KeptIsTold == WorkKept(work) => ActivityIsTold
<1> SUFFICES ASSUME WorkKept(work) PROVE ActivityIsTold
  OBVIOUS
<1> DEFINE step == work.step
           statuses == {step.checks[c] : c \in DOMAIN step.checks}
<1>1. TellsOf(step.route, work.made)
  BY DEF WorkKept, RouteKept
<1>2. step.attempt >= Min({MaxAttempts, Len(work.made)}) /\ step.attempt = work.peak
  <2>1. Len(work.made) \in Nat
    BY DEF WorkKept, RouteKept
  <2>2. Min({MaxAttempts, Len(work.made)}) =
          IF MaxAttempts <= Len(work.made) THEN MaxAttempts ELSE Len(work.made)
    BY <2>1, OfTwo DEF MaxAttempts
  <2> QED BY <2>1, <2>2 DEF WorkKept, AttemptKept, MaxAttempts
<1>3. work.at = "over" => "running" \notin statuses
  BY DEF WorkKept, ChecksKept
<1>4. work.at = "over" /\ step.status \in {"passed", "degraded"} => "pending" \notin statuses
  BY DEF WorkKept, ChecksKept
<1>5. ToolsPhase(step, work.kind) = "passed" => \A t \in DOMAIN work.tools : work.tools[t] = "passed"
  BY DEF WorkKept, ToolsKept, ToolsPhase
<1> QED BY <1>1, <1>2, <1>3, <1>4, <1>5, Zenon DEF ActivityIsTold

\* What a step shows is what happened to it, for any number of tools, retries, repairs and
\* falls from one route to the other: its route is the way its calls went, its attempt never
\* goes back, nothing is left running or to come, and tools pass together
\* (classifyAttempt, applyModel, applyRetrieval, applyTool, applyContext, applyReview).
THEOREM StepsTellTheirWork == ActivitySpec => []ActivityIsTold
<1>1. WorkKept(work) /\ [ActivityNext]_work => WorkKept(work)'
  BY WorkGoesOn
<1> QED BY <1>1, WorkBegins, KeptIsTold, PTL DEF ActivitySpec
=============================================================================
