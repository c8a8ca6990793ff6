SPECIFICATION Spec
CONSTANTS
  Names = {shop, account}
  NoName = NoName
  BuiltinName = account
  Builtin = Builtin
  None = None
  Creators = {c1, c2}
  Revealers = {v1}
  Regenerators = {g1, g2}
  Deleters = {d1}
  Togglers = {t1}
INVARIANTS TypeOK StaleNeedsTrouble EntriesArePaired BuiltinUntouched
SYMMETRY Symmetry
CHECK_DEADLOCK FALSE
