SPECIFICATION RingsSpec
CONSTANTS
  Size = 9
  MsgLens <- Lens23
  Payloads = {2, 9}
  Unhandled = {2}
  Adders = {a1, a2}
  TraceItems = 4
  MaxAdds = 5
INVARIANTS
  EmptyTestExact UnreadIntact EmptyRingAccepts TraceFaithful
PROPERTIES
  ImplementsFifo BothDrained
