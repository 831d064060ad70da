\* Three requests under two keys, two decisions and three faults.
SPECIFICATION FairSpec
CONSTANTS
  Requests = {p1, p2, p3}
  Keys = {k1, k2}
  p1 = p1
  p2 = p2
  p3 = p3
  k1 = k1
  k2 = k2
  KeyOf <- MCKeyOf
  NoKey = NoKey
  First = p1
  Decisions = {d1, d2}
  MaxFaults = 3
INVARIANTS TypeOK ReviewerHasMaterial DecisionStands AnswersAreTrue
PROPERTIES ImplementsLifecycle ReachesReviewer
