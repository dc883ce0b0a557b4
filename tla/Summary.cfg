SPECIFICATION FairSpec
CONSTANTS
  Entries <- MCEntries
  Reviewers = {r1}
  Answers <- MCAnswers
  None = None
  MaxThemes = 2
  MaxRevisions = 2
  MaxClock = 4
INVARIANTS TypeOK GroupsPartition ThemesTraceable LeftOutOnlyByCap 
PROPERTIES SummaryEnds
CHECK_DEADLOCK FALSE
