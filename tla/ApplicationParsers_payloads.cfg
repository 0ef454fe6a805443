SPECIFICATION Spec
CONSTANTS
  a = a
  b = b
  Labels <- FewLabels
  LabelOctets <- OctetsOfLabels
  Names <- FewNames
  MaxOctets = 49
  Hosts <- FewHosts
  HostOctets <- OctetsOfHosts
  SessionIds = {0, 2}
  MaxExtensions = 3
  Starts <- FewStarts
  Lines <- FewLines
  MaxLines = 2
  MaxPieces = 3
  PreviewLength = 2
  Verbs = {"USER"}
  Codes = {220}
  MaxText = 5
INVARIANTS
  TypeOK
  DnsReadsWhatIsWritten
  ServerNameIsFound
  HttpReadsWhatIsWritten
  FtpLineIsRead
  FtpRestIsMisread
\* A message ends.
CHECK_DEADLOCK FALSE
