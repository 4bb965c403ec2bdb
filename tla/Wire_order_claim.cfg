SPECIFICATION Spec
CONSTANTS
  a = a  b = b  Nul = nul
  Letters <- TwoLetters
  Mistaken <- NoMistake
  NameLen = 1
INVARIANT SdkInitMirrorsContext
CHECK_DEADLOCK FALSE
