---------------------------- MODULE AgentAnswers ----------------------------
(***************************************************************************)
(* What the worker makes of the text an agent answers with: the JSON it    *)
(* finds in it (extractJson), the entries of it that have the right shape  *)
(* and refer to what was asked about, and whether the artifact written for *)
(* the next agent passes its schema (HandoffValidator).                    *)
(*                                                                         *)
(* Agents are external: a text is Nothing, or a record of the JSON it      *)
(* holds (Nothing if none) and whether it is spoiled for the parser: by a  *)
(* code fence inside one of its strings, which stripCodeFence takes for a  *)
(* fence around it, or by prose with a brace before it.  A field of wrong  *)
(* type or a missing one is Nothing.  Scores are in thousandths.           *)
(***************************************************************************)
EXTENDS PathMetrics

CONSTANT Nothing

PatchOperations == {"replace", "append", "delete", "update_weight"}

\* An array of a text is a list.
HasLists(text, fields) ==
  text = Nothing \/ text.json = Nothing \/
    \A f \in fields : text.json[f] = Nothing \/ text.json[f] \in Seq(ToSet(text.json[f]))

ExtractJson(text) == IF text = Nothing \/ text.spoiled THEN Nothing ELSE text.json

ListIn(json, field) ==
  IF json = Nothing \/ json[field] = Nothing THEN <<>> ELSE json[field]

FirstN(s, n) == SubSeq(s, 1, IF Len(s) < n THEN Len(s) ELSE n)

ClampTo(value, low, high) == IF value < low THEN low ELSE IF value > high THEN high ELSE value

-----------------------------------------------------------------------------
(* The Question Prober.                                                    *)

HasIdAndText(q) == q.id # Nothing /\ q.text \notin {Nothing, "empty"}

ResolveQuestions(text, count) ==
  LET questions == ListIn(ExtractJson(text), "questions")
  IN FirstN(Chosen(questions, {k \in DOMAIN questions : HasIdAndText(questions[k])}), count)

\* One question for each missed path, then for each hallucinated one, then fillers.
MockQuestions(metrics, count) ==
  LET missed == Cardinality(metrics.missed)
      hallucinated == Cardinality(metrics.hallucinated)
      category(k) == IF k <= missed THEN "missed_path"
                     ELSE IF k <= missed + hallucinated THEN "hallucinated_path" ELSE "coverage"
  IN [k \in 1..count |-> [id |-> k, text |-> "full", category |-> category(k)]]

-----------------------------------------------------------------------------
(* The Knowledge Curator.                                                  *)

IdsOf(questions) == {questions[k].id : k \in DOMAIN questions}

\* Mutant: an answer is kept whatever question it names.
ResolveAnswersToAnything(json, questions, known) ==
  LET all == ListIn(json, "answers")
      answers == Chosen(all, {k \in DOMAIN all : all[k].questionId # Nothing})
  IN [k \in DOMAIN answers |->
        [questionId |-> answers[k].questionId, citations |-> answers[k].citations \cap ToSet(known)]]

\* Answers to the questions asked, each with those of its citations that are shards.
ResolveAnswers(json, questions, known) ==
  LET all == ListIn(json, "answers")
      answers == Chosen(all, {k \in DOMAIN all : all[k].questionId \in IdsOf(questions)})
  IN [k \in DOMAIN answers |->
        [questionId |-> answers[k].questionId, citations |-> answers[k].citations \cap ToSet(known)]]

ResolveProposal(text, questions, known) ==
  LET json == ExtractJson(text)
      patches == ListIn(json, "patches")
  IN [answers |-> ResolveAnswers(json, questions, known),
      patches |-> Chosen(patches, {k \in DOMAIN patches : patches[k].operation \in PatchOperations})]

\* Every answer cites the first shard, and a note is appended to it.
MockProposal(questions, known) ==
  [answers |-> [k \in DOMAIN questions |->
                  [questionId |-> questions[k].id, citations |-> ToSet(FirstN(known, 1))]],
   patches |-> IF known = <<>> THEN <<>>
               ELSE << [target |-> known[1], operation |-> "append"] >>]

-----------------------------------------------------------------------------
(* The Knowledge Auditor.                                                  *)

TargetsOf(proposal) == {proposal.patches[k].target : k \in DOMAIN proposal.patches}

NormalizeScore(s) == IF s \in 0..1000 THEN s ELSE 0

NormalizeScores(json) ==
  IF json = Nothing \/ json.scores = Nothing THEN <<0, 0, 0, 0>>
  ELSE [k \in 1..4 |-> NormalizeScore(json.scores[k])]

\* The auditor's own word, or its scores against the threshold.
OverallPass(json, minAnswerScore) ==
  IF json # Nothing /\ json.overallPass \in BOOLEAN THEN json.overallPass
  ELSE Mean(NormalizeScores(json)) >= minAnswerScore

ResolveVerdict(text, proposal, minAnswerScore) ==
  LET json == ExtractJson(text)
      rulings == ListIn(json, "patches")
  IN [overallPass |-> OverallPass(json, minAnswerScore),
      scores |-> NormalizeScores(json),
      patches |-> Chosen(rulings, {k \in DOMAIN rulings : rulings[k].target \in TargetsOf(proposal)})]

MockScores(proposal, known) ==
  LET answers == proposal.answers
      cites == \A k \in DOMAIN answers : answers[k].citations # {}
      valid == \A k \in DOMAIN answers : answers[k].citations \subseteq ToSet(known)
  IN << IF answers # <<>> THEN 1000 ELSE 0,
        IF answers # <<>> /\ cites THEN 900 ELSE 600,
        IF valid THEN 1000 ELSE 500,
        1000 >>

MockVerdict(proposal, known, minAnswerScore) ==
  LET scores == MockScores(proposal, known)
      pass == Mean(scores) >= minAnswerScore
      valid(p) == p.target \in ToSet(known) \/ p.operation = "replace"
  IN [overallPass |-> pass,
      scores |-> scores,
      patches |-> [k \in DOMAIN proposal.patches |->
                     [target |-> proposal.patches[k].target,
                      approved |-> pass /\ valid(proposal.patches[k])]]]

Approved(verdict) ==
  {verdict.patches[k].target : k \in {i \in DOMAIN verdict.patches : verdict.patches[i].approved}}

-----------------------------------------------------------------------------
(* HandoffValidator: the parts of the schemas that data of the right type   *)
(* can miss.                                                                *)

ValidReport(report) == report.overlap \in 0..1000

ValidQuestions(questions) ==
  /\ questions # <<>>
  /\ \A k \in DOMAIN questions : questions[k].text = "full"

ValidProposal(proposal) ==
  \A k \in DOMAIN proposal.patches : proposal.patches[k].operation \in PatchOperations

ValidVerdict(verdict) ==
  /\ verdict.overallPass \in BOOLEAN
  /\ ToSet(verdict.scores) \subseteq 0..1000
============================================================================
