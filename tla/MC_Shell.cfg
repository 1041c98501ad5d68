\* Lines of two characters that wrap in the subdirectory, a history of two lines,
\* a text of two characters, and a heap for three open files.
CONSTANTS
  Cols = 3
  Rows = 3
  HeapSize = 24
  Chars = {"e", "x"}
  LineSize = 2
  HistorySize = 2
  EditLimit = 2
  InodeSize = 7
  Blanks = 2
  Contents <- MCContents
  Meaning <- MCMeaning
  MaxLines = 3
  MaxOutput = 1
SPECIFICATION Spec
INVARIANT TypeOK
INVARIANT HistoryIsRecent
INVARIANT EchoShowsLine
INVARIANT TextExtendsFile
INVARIANT HeapAreasDisjoint
PROPERTY OnlyTheEditedFile
PROPERTY ReportIsTrue
