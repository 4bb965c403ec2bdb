SPECIFICATION Spec
CONSTANTS
  a = a  b = b  Nul = nul
  Letters <- TwoLetters
  Mistaken <- OneMistake
  NameLen = 3
INVARIANTS AcceptedAsMeant IdlAccepted ReadAsWritten RefusesOnlyPadding NamesComeBack
CHECK_DEADLOCK FALSE
