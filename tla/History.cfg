SPECIFICATION Spec
CONSTANTS
  walk1 = walk1
  Journals = {1, 2, 3}
  Postings <- MCPostings
  Queries <- MCQueries
  Walks = {walk1}
  Limits = {1, 2}
  MaxTime = 2
  MaxFaults = 1
INVARIANTS
  TypeOK
  PagesAreInOrder
  NothingSkipped
PROPERTY WalksEnd
CHECK_DEADLOCK FALSE
