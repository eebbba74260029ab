CONSTANTS
  Char <- Chars
  Quote = Quote
  Backslash = Backslash
  Letter = Letter
  HostA = HostA
  HostB = HostB
  NoHost = NoHost
  Addr4 = Addr4
  Other4 = Other4
  Addr6 = Addr6
  Long6 = Long6
  Other6 = Other6
  NotAddr = NotAddr
  Family <- MCFamily
  Canonical <- MCCanonical
  Source <- MCSource
SPECIFICATION Spec
INVARIANTS
  Faithful
  
  
