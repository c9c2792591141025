SPECIFICATION Spec
CONSTANTS
  Docs = {d1, d2, d3}
  Absent = Absent
  Empty = Empty
  Torn = Torn
  NoRequest = NoRequest
INVARIANTS TypeOK WholeDocument
PROPERTY AtomicDocument
