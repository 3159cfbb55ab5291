SPECIFICATION CSpec
CONSTANTS
  a = a  b = b  c = c  dir = dir  Root = Root
  Entries <- Tree
  Lockable <- Lockables
  Files <- FileSet
  NumDests = 2
  PathLen <- Bytes
  Quotes <- QuotesIn
  MaxCommand = 20
  MaxRequest = 80
  Content <- Contents
  Locals <- CopySets
  Spelled <- ReadAs
  CutTo <- Stumps
INVARIANTS
  AcceptedIsComplete
  MatchedMeansEqual EqualIsMatched CommandsBounded
PROPERTY ComparisonEnds
