SPECIFICATION Spec
CONSTANTS
  Exercised = {"Bignum", "Hash", "Regex", "StrOps", "Pack", "Kconv", "Sprintf", "Time"}
  DigitBits = 4
  Form <- Bases
  Literals <- Numbers
  Shifts <- Widths
  Powers = {0, 1, 2, 3}
  Key = {1, 2, 3}
  Stored = {1}
  InitBins = 2
  MaxDensity = 0
  Load = 87
  MaxEntries = 2
  MaxIter = 2
  Subjects <- RegexSubjects
  Texts <- RegexTexts
  MaxNest = 3
  MaxExact = 2
  DupMax = 5
  MaxFailures = 40
  Strings <- StringJobs
  Templates <- PackJobs
  Size <- Sizes
  Conversions <- KconvJobs
  Cv <- KanaTable
  Dv <- VoicedTable
  Ev <- HalfVoicedTable
  MimePattern <- Patterns
  MimeEncode <- Encodings
  HoldSize = 3
  Formats <- SprintfJobs
  WordBits = 8
  Dates <- TimeDates
  Nows <- TimeNows
  Offset <- ZoneOffset
  MaxTime = 2147483647
  Spans <- TimeSpans
  MaxOps = 4
INVARIANTS IntegersExact HashAgrees MatchExact ResultExact
PROPERTIES EachVisits
CHECK_DEADLOCK FALSE
