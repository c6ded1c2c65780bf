\* A request and an upload, any number of times, at two endpoints that are
\* replaced by turns. No request is fair: it may hang for ever.
SPECIFICATION FairSpec
CONSTANTS
  Routers = {r1}
  Leader = r1
  Endpoints = {e1, e2}
  Requests = {q1, q2}
  Uploads = {q2}
  Nowhere = Nowhere
INVARIANTS
  TypeOK
  CountsAreExact
  OneAnswer
  NothingIsLeftOpen
PROPERTIES
  DrainKillsNothing
  HandoverEnds
