SPECIFICATION Spec
CONSTANTS
  s1 = s1
  b1 = b1
  h1 = h1
  h2 = h2
  p1 = p1
  p2 = p2
  Width = 2
  Seed = {1}
  Static = {s1}
  StaticText <- MCStaticText
  Buffers = {b1}
  Heap = {h1, h2}
  NullBlock = NullBlock
  Chars = {"x", "y", "t", "quote", "backslash", "control"}
  Texts <- MCTexts
  ThreadName <- MCThreadName
  METADATA_SZ = 4
  MetadataName = s1
  Processes = {p1, p2}
  Hash <- MCHash
  FirstProcess = p1
  Calls <- MCCalls
  BUFFER_SZ = 1
  MaxEvents = 3
  MaxIds = 2
  MaxSwitches = 1
SYMMETRY Symmetry
INVARIANT NamePrintedAsPassed
