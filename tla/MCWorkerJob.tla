---------------------------- MODULE MCWorkerJob -----------------------------
(* Constants of WorkerJob for TLC: a history of four commits with a merge   *)
(* and a rename, a tree with an excluded directory, a kit, jobs with mock   *)
(* agents and jobs with agents that answer well, badly or not at all.       *)
EXTENDS WorkerJob

Src(name) == <<"src", name>>
Readme == <<"README.md">>

MCPaths == {Src("a.ts"), Src("b.ts"), Readme}

Blob(a, b, r) ==
  [p \in MCPaths |-> IF p = Src("a.ts") THEN a ELSE IF p = Src("b.ts") THEN b ELSE r]

CommitOf(parents, tree, key) == [parents |-> parents, tree |-> tree, key |-> key]

\* 3 renames a.ts to b.ts, 4 merges 2 into 3 and has the key of 3.
MCRepository ==
  << CommitOf(<<>>, Blob("x", Absent, Absent), "K2"),
     CommitOf(<<1>>, Blob("x", Absent, "r"), "no key"),
     CommitOf(<<1>>, Blob(Absent, "x", Absent), "K1"),
     CommitOf(<<3, 2>>, Blob(Absent, "x", "r"), "K1") >>

Modules == <<"node_modules">>

MCTree ==
  << >> :> << Modules, <<"b.ts">>, <<"src">>, <<"package.json">> >>
  @@ Modules :> << Modules \o <<"x.js">> >>
  @@ <<"src">> :> << Src("a.ts"), Src("c.ts") >>

MCFiles == UNION {ToSet(MCTree[d]) : d \in DOMAIN MCTree} \ DOMAIN MCTree

MCLanguageOf == [f \in MCFiles |-> IF f = <<"b.ts">> THEN "typescript" ELSE NoLanguage]

MCHintsOf == [f \in MCFiles |-> IF f = <<"package.json">> THEN {"npm"} ELSE {}]

MCKit == { <<"AGENTS.md">>, <<".cursor", "rules.md">> }

\* A truth document that is too large for a pull request.
MCLargeFiles == { <<".sdd", "docs", "project_deployment_knowledge.md">> }

S1 == <<"shards", "Program.md">>
S2 == <<"shards", "src", "b.ts">>
S3 == <<"shards", "node_modules", "x.md">>

\* This one is packed and, being below node_modules, not delivered.
MCLeftFiles == { <<".sdd", "knowledge", "node_modules", "notes.md">> }

MCAgentStores ==
  { [docs |-> {}, shards |-> <<S2>>, hasManifest |-> FALSE],
    [docs |-> TruthDocs, shards |-> <<S1, S2, S3>>, hasManifest |-> TRUE] }

MCMentions == { {}, {<<"b.ts">>} }

Text(json) == [json |-> json, spoiled |-> FALSE]
Spoiled(json) == [json |-> json, spoiled |-> TRUE]

Ask2 == [questions |-> << [id |-> 1, text |-> "full"], [id |-> Nothing, text |-> "full"],
                          [id |-> 2, text |-> "blank"] >>]
MCQuestionTexts == {Nothing, Text(Ask2)}

Answer(q, c) == [questionId |-> q, citations |-> c]
Patch(operation, target) == [operation |-> operation, target |-> target]

MCCuratorTexts ==
  { Text([answers |-> << Answer(1, {S1}), Answer(9, {<<"no", "shard">>}) >>,
          patches |-> << Patch("append", S1), Patch("bump", S2) >>]),
    Text([answers |-> Nothing, patches |-> << Patch("replace", <<"new.md">>), Patch("delete", S2) >>]),
    Spoiled([answers |-> Nothing, patches |-> << Patch("replace", S2) >>]) }

Ruling(target, approved) == [target |-> target, approved |-> approved]

MCAuditorTexts ==
  { Nothing,
    Text([overallPass |-> Nothing, scores |-> <<1000, 900, 1200, 800>>,
          patches |-> << Ruling(S1, TRUE), Ruling(S2, TRUE) >>]),
    Text([overallPass |-> TRUE, scores |-> Nothing, patches |-> << Ruling(<<"new.md">>, TRUE) >>]) }

Job(mock, cloned, depth, order) ==
  [mock |-> mock, cloned |-> cloned, head |-> 4, depth |-> depth, order |-> order,
   sources |-> {"commit_message"}, pages |-> <<>>, jira |-> FALSE, oldSpecs |-> {},
   questionCount |-> 0, minAnswerScore |-> 700, maxRounds |-> 2, upload |-> FALSE, openPr |-> FALSE]

MCOptionSets ==
  { [Job(TRUE, FALSE, 50, "oldest_first") EXCEPT !.pages = <<7, 8, 7, 9>>, !.upload = TRUE],
    [Job(TRUE, FALSE, 2, "newest_first") EXCEPT !.jira = TRUE, !.oldSpecs = {"K1"}, !.minAnswerScore = 1000],
    [Job(TRUE, TRUE, 50, "oldest_first") EXCEPT !.sources = {"commit_message", "branch_name"}, !.openPr = TRUE],
    [Job(TRUE, TRUE, 50, "oldest_first") EXCEPT !.head = 3],
    [Job(FALSE, FALSE, 2, "oldest_first") EXCEPT !.oldSpecs = {"K1"}, !.maxRounds = 1],
    [Job(FALSE, TRUE, 1, "newest_first") EXCEPT !.upload = TRUE, !.openPr = TRUE] }
============================================================================
