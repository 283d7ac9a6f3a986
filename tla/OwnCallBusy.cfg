SPECIFICATION Spec
CONSTANTS
  Interview = {i1}
  Call = {c1}
  Webrtc = {}
  Request = {r1}
  Questions = 2
  MaxInvitationAttempts = 1
INVARIANTS RefusedForAnotherCall
