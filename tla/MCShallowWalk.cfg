\* The jobs of MCWorkerJob: two of them clone the repository.
SPECIFICATION Spec
CONSTANTS
  Paths <- MCPaths
  Absent = Absent
  NoKey = "no key"
  Tree <- MCTree
  ExcludedNames = {"node_modules"}
  LanguageOf <- MCLanguageOf
  NoLanguage = NoLanguage
  HintsOf <- MCHintsOf
  MaxFiles = 3
  RequestRetries = 1
  Nothing = Nothing
  Kit <- MCKit
  Repository <- MCRepository
  Keys = {"K1", "K2"}
  BranchKey = "K2"
  OptionSets <- MCOptionSets
  MaxPageIds = 2
  MaxPrFiles = 13
  MockShard <- S1
  AgentStores <- MCAgentStores
  LeftFiles <- MCLeftFiles
  LargeFiles <- MCLargeFiles
  Mentions <- MCMentions
  QuestionTexts <- MCQuestionTexts
  CuratorTexts <- MCCuratorTexts
  AuditorTexts <- MCAuditorTexts
INVARIANT
  WalkReachesItsDepth
CHECK_DEADLOCK FALSE
