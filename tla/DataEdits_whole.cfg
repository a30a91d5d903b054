SPECIFICATION Spec
CONSTANTS
  list = list
  entry = entry
  Nodes = {list, entry}
  Descendants <- MCDescendants
  Values = {v1}
  Absent = Absent
  Bare = Bare
  Lockable = {running}
  Candidate = candidate
  ReadOnly = {operational}
  NoRequest = NoRequest
  MaxEdits = 2
INVARIANT PatchIsWhole
