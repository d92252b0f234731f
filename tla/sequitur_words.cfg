SPECIFICATION FairSpec
CONSTANTS
  Letters = {0, 1, 2}
  FirstNonterminal = 3
  BlockSize = 18
  MaxSymbols = 24
  MaxDigrams = 31
INVARIANTS TypeOK ExpandsToInput CountsTrue StorageAccounted FramesLive TableSound RulesUseful
PROPERTIES AlwaysDigested
