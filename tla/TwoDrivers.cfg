SPECIFICATION Spec
CONSTANTS
  Interview = {i1}
  Call = {c1, c2}
  Webrtc = {c2}
  Request = {r1}
  Questions = 2
  MaxInvitationAttempts = 1
INVARIANTS OneDriver
