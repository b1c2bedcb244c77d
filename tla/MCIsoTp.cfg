CONSTANTS
  Lengths <- MCLengths
  RxSize <- MCRxSize
  BlockSize <- MCBlockSize
  StMin <- MCStMin
  MaxSent <- MCMaxSent
  SeqMod = 2
  NBs = 3
  NCr = 5
  Lag = 1
  MaxUpsets = 2
SPECIFICATION Spec
INVARIANTS NoTornMessage
PROPERTIES ComesToRest Arrives
