SPECIFICATION Spec
CONSTANTS
  Admins = {}
  Seeds = {d1}
  Callers = {}
  Configured = {k1}
  Generated = {}
  NoSecret = NoSecret
  MaxVersion = 3
  Window = 2
PROPERTY SkippedSecretWorks
