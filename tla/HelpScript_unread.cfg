SPECIFICATION AuthoredSpec
CONSTANTS
  c1 = c1
  c2 = c2
  g1 = g1
  t1 = t1
  Claims = {c1, c2}
  OwnClaims = {c1, c2}
  Inferred = {c2}
  Ungrounded = {}
  Guides = {g1}
  GuideOf <- OneGuide
  Texts = {t1}
  Rechecks = {p1}
  Reviewers = {r1}
  MaxSections = 2
  MaxVersion = 5
INVARIANTS ReleasedAsRead
CHECK_DEADLOCK FALSE
