SPECIFICATION TransmissionSpec
CONSTANTS
  Letters = {127, 131, 255}
  FirstNonterminal = 2047
  BlockSize = 10
  MaxBytes = 15
  MaxSymbols = 24
  MaxDigrams = 4
  IntBits = 14
  HalfBits = 12
INVARIANTS CrashesOnlyOnOneRule
PROPERTIES Delivered AlwaysReturns
