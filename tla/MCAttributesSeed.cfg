\* One kind with two groups, and an attribute more than groups.
SPECIFICATION AttributesSpec
CONSTANTS
  Attributes = {a, b, c}
  Kinds = {certified}
  MaxGroups = 2
PROPERTIES SeedExtends
