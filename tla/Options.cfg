SPECIFICATION OptionsSpec
CONSTANTS
  Blanks = {" "}
  LineEnds = {"LF", "CR"}
  Letters = {"n"}
  Escaped <- EscapedAnywhere
  EscapedBlanks = {" ", "t", "f", "v"}
  MaxPieces = 5
  Scripts <- AllScripts
  Known <- KnownOptions
  TextPieces = 4
  Ascii <- Characters
  Programs <- AllPrograms
  Texts <- AllTexts
INVARIANTS
  FindsTheOptions
  ValuesDecoded
  LexerIsExact
  GeneratedParserIsExact
  FirstSetsExact
  FitsItsArrays
  ConflictsAreKnown
PROPERTIES
  CtpgTerminates
  CutsOneOption
CHECK_DEADLOCK FALSE
