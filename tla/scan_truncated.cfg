CONSTANTS
  a = a  b = b  dir = dir  Root = Root
  Entries <- Tree
  Lockable <- Lockables
SPECIFICATION Spec
INVARIANT NeverSmallerTree
