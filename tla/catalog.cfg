\* The two parts about the runs' caches (Casts) have three ticks against a TTL
\* of two: an entry outlives a change and grows old.  Two changes of a mark meet
\* a third after them.  Of the assistant's jobs (Loads) the table holds three and
\* up to four are made.
CONSTANTS
  KeyColumns = {"a", "b"}
  MaxItems = 2
  Runs = {"a", "b"}
  Readers = {"r", "q"}
  Asked = {"payloads", "columns", "index"}
  TTL = 2
  MaxTicks = 3
  Casts <- RunsOrReaders
  Editors = {"e", "f"}
  Values = {"x", "y"}
  MaxChanges = 5
  Objects <- ThreeListings
  Requests = {"r", "q"}
  Queries <- SomeWords
  Limits = {1, 2}
  Tables = {"t", "u"}
  Unknown = {"o"}
  AskedColumns <- OneColumn
  Fragments <- NoneOrTwo
  MaxFragments = 1
  MaxJobs = 3
  MaxRequests = 3
  Savers = {"s1", "s2"}
  Beside = {"s1"}
  Loads <- AnsweredOrMany
SPECIFICATION CatalogSpec
CHECK_DEADLOCK FALSE
INVARIANTS
  CachesAreTrue
  LookupsAreRight
  TrailIsWhole
  AnswersAreGuarded
  SearchFindsTheFetched
