\* News: three addresses, two clients, a cap of two. Knowledge store: three
\* threads, so that two are caught in the failure of one. arXiv: two queries and
\* a sleep that ends late; two page loads. Research: two sources, two searches,
\* two extra rounds. Claims: three, the fewest the fallback looks at. Sandbox:
\* two threads and time for every answer to grow old.
CONSTANTS
  a = a
  b = b
  c = c
  Urls = {a, b, c}
  Fetches <- MCFetches
  Background = background
  Clients = {c1, c2}
  Tasks = {t1, t2}
  None = None
  Cap = 2
  Cooldown = 2
  Askers = {a1, a2, a3}
  RetryAfter = 5
  CallLimit = 1
  Queries = {q1, q2}
  Spacing = 2
  RestTime = 3
  Backoff = 1
  Oversleep = 1
  Pages = {p1, p2}
  Ttl = 3
  Retry = 2
  FetchTime = 1
  Sources = {s1, s2}
  TopK = 2
  Searches = 2
  MaxRounds = 2
  MaxClaims = 3
  MinClaims = 3
  Checkers = {k1, k2}
  TtlOk = 3
  TtlDown = 2
  MinProbe = 1
  CommandLimit = 1
SPECIFICATION MCSpec
INVARIANTS
  OneRun
  EachPaidOnce
  PauseIsBounded
  ArxivSpaced
  OneFetch
  FetchedIsStored
  AnswerHasItsSources
  OneRoundAfterCancel
  ClearCasesStand
PROPERTIES
  CooldownHolds
  PaidIsKept
  StatusIsRecent
