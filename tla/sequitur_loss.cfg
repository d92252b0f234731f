SPECIFICATION AnySpec
CONSTANTS
  Letters = {0, 1}
  FirstNonterminal = 3
  BlockSize = 11
  MaxSymbols = 24
  MaxDigrams = 41
INVARIANTS ExpandsToInput
