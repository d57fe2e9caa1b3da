\* Two threads of one process and one of another, in one cache.
SPECIFICATION Spec
CONSTANTS
  u1 = u1
  u2 = u2
  u3 = u3
  p = p
  q = q
  Uids = {u1, u2, u3}
  Fields = {f, g}
  Values = {v, w}
  Unset = Unset
  Scopes = {p, q}
  ScopeOf <- TwoScopes
  Named = FALSE
  NoMsg = NoMsg
  MaxHandle = 3
INVARIANTS
  TypeOK
  CopyIsList
  RemovedIsKnown
  KeysAgree
  OnlyChangesTravel
PROPERTIES
  MirrorSpec
