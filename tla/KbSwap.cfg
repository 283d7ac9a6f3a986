SPECIFICATION Spec
SYMMETRY Symmetric
CONSTANTS
  Uri = {company, faq}
  Body <- MCBody
  Declared <- MCDeclared
  Chunks <- MCChunks
  Text = {"near", "far"}
  Near = {"near"}
  Version = {1, 2, 3, 4}
  TopK = 2
  FinalK = 2
INVARIANTS ChunksMatchSource OneVersion Grounded
PROPERTY InternalHidden
