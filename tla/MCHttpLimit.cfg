SPECIFICATION ServeSpec
CONSTANTS
  Bytes <- MCBytes
  Zero = "nul"
  CR = "cr"
  LF = "lf"
  Good = "g"
  Length = "L"
  Encoding = "T"
  OtherKey = "k"
  Identity = "i"
  Digits <- MCDigits
  Value <- MCValue
  request_line_bytes = 2
  header_bytes = 10
  body_bytes = 2
  Initial = 3
  MaxRead = 6
  Workloads <- MCWorkloads
  Streams <- MCStreams
INVARIANT AnswersMatch
CHECK_DEADLOCK FALSE
