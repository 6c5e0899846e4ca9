SPECIFICATION Spec
CONSTANTS
  Names <- SomeNames
  Codes <- SomeCodes
  CodeOf <- SomeCodeOf
  Canonical <- SomeCanonical
  OtherCodes = {"9999"}
  OtherNames = {"MISSPELT"}
  NoError = NoError
INVARIANTS
  TypedIsCaught
  OnlyItsCode
  FactoryInv
