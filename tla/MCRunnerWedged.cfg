SPECIFICATION FairSpec
CONSTANTS
  MAX_OUTPUT = 2
  CHUNK = 2
  PIPE = 3
  Code = {0, 1}
  MaxBytes <- MCMaxBytes
  Utf8 <- MCUtf8
PROPERTY NeverWedges
