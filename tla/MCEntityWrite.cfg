SPECIFICATION MCSpec
CONSTANTS
  none = none
  Callers <- MCCallers
  Keys <- MCKeys
  Values <- MCValues
  NoCommand = none
  NoInfo = none
  Commands <- MCCommands
  Copies <- MCCopies
  ModeInfo <- MCModeInfo
  OffersComfort = TRUE
  SelectInfo <- MCSelectInfo
  Hidden <- MCHidden
  OtherKeys <- MCOthers
  MaxEvents = 2
INVARIANTS
  TypeOK
  SelectTrue
PROPERTIES
  AllOrNothing
  ShownTrue
  ShownConverges
