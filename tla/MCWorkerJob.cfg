\* Six jobs over four commits: two pages at most, one retry of a request, two rounds,
\* a pull request of at most 13 files.
SPECIFICATION FairSpec
CONSTANTS
  Paths <- MCPaths
  Absent = Absent
  NoKey = "no key"
  Tree <- MCTree
  ExcludedNames = {"node_modules"}
  LanguageOf <- MCLanguageOf
  NoLanguage = NoLanguage
  HintsOf <- MCHintsOf
  MaxFiles = 3
  RequestRetries = 1
  Nothing = Nothing
  Kit <- MCKit
  Repository <- MCRepository
  Keys = {"K1", "K2"}
  BranchKey = "K2"
  OptionSets <- MCOptionSets
  MaxPageIds = 2
  MaxPrFiles = 13
  MockShard <- S1
  AgentStores <- MCAgentStores
  LeftFiles <- MCLeftFiles
  LargeFiles <- MCLargeFiles
  Mentions <- MCMentions
  QuestionTexts <- MCQuestionTexts
  CuratorTexts <- MCCuratorTexts
  AuditorTexts <- MCAuditorTexts
INVARIANTS
  TypeOK
  SpecsDescribeTheirCommit
  ReportsAreGrounded
  InputsAreAccountedFor
  BundleHoldsTheWork
PROPERTIES
  ImplementsCommitWalk
CHECK_DEADLOCK FALSE
