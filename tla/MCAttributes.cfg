\* Two kinds, with up to two groups of two attributes.
SPECIFICATION AttributesSpec
CONSTANTS
  Attributes = {a, b}
  Kinds = {certified, declared}
  MaxGroups = 2
SYMMETRY Symmetry
INVARIANTS ExtensionsAccepted
PROPERTIES GroupsKept
