\* Two templates, of one tip or of two, two connections, one more login, one found
\* share, one fault, one vardiff change; a socket buffer of two messages.
CONSTANTS
  Addr <- MCAddr
  Others <- MCOthers
  NoAddr = "none"
  Target <- MCTarget
  Easiest = "easy"
  MaxJobs = 1
  MaxAttempts = 3
  WireCap = 2
  MaxTemplates = 2
  MaxTips = 2
  MaxLogins = 1
  MaxFinds = 1
  MaxFaults = 1
  MaxConns = 2
  MaxTunes = 1
SPECIFICATION Spec
INVARIANTS ConnectionSound BlockLostOnlyByRefresh
 
