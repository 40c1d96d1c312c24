SPECIFICATION Spec
CONSTANTS
  Requests = {r1, r2}
  Details = {"contact", "address"}
  Tags = "tags"
  Payouts = {p1, p2}
  NoPayout = NoPayout
  NoRow = NoRow
  MaxCount = 2
INVARIANT PastDraftIsComplete
INVARIANT NoNilDereference
INVARIANT ApprovedIsPaid
PROPERTY OnlyLostUpdatesStepBack
