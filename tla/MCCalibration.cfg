\* Two commits of which either may have a key, up to two rounds, two patches a
\* proposal, one failing file operation.
SPECIFICATION FairSpec
CONSTANTS
  r1 = r1
  r2 = r2
  p1 = p1
  p2 = p2
  new = new
  alias = alias
  Missing = Missing
  Empty = Empty
  Damaged = Damaged
  Names <- MCNames
  Files <- MCFiles
  FileOf <- MCFileOf
  Generated <- MCGenerated
  MaxShards = 2
  MaxShardTokens = 2
  MaxFailures = 1
  Commits = 2
  Proposals <- MCProposals
  RoundOptions = {0, 2}
INVARIANTS
  TypeOK
  EntriesHaveFiles
PROPERTIES
  OnlyApprovedShardsChange
  TokenTotals
  ImplementsCommitWalk
CHECK_DEADLOCK FALSE
