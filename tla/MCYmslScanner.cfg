SPECIFICATION Spec
CONSTANTS
  Sources <- MCSources
  Letters <- MCLetters
  Digits <- MCDigits
INVARIANTS TokensExact GapsBlank
PROPERTIES ScanEnds
