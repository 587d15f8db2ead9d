SPECIFICATION OptionsSpec
CONSTANTS
  Blanks = {" "}
  LineEnds = {"LF", "CR"}
  Letters = {"n"}
  Escaped <- EscapedAnywhere
  EscapedBlanks = {" ", "t", "f", "v"}
  MaxPieces = 4
  Scripts <- AllScripts
  Known <- KnownOptions
  TextPieces = 0
  Ascii <- Characters
  Programs <- AllPrograms
  Texts <- AllTexts
INVARIANT EveryLineRecognised
CHECK_DEADLOCK FALSE
