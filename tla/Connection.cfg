\* A channel of two messages is full often; one game elsewhere is enough to
\* hold a sender, two to hold it twice.
CONSTANTS
  Capacity = 2
  MaxElsewhere = 2
  RedisMayFail = TRUE
SPECIFICATION FairSpec
INVARIANTS
  TypeOK
  WriterOutlives
  RegisteredWithEntry
  ReaderFindsEntry
PROPERTIES
  ConnectionEnds
  WriterTerminates
