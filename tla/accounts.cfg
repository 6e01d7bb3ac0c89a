SPECIFICATION AccountsSpec
CONSTANTS
  ann = ann
  annBlank = annBlank
  bob = bob
  al = al
  tiny = tiny
  short = short
  edge = edge
  long = long
  Requests = {r1, r2, r3}
  Names = {ann, annBlank, bob, al}
  TrimSpace <- Trims
  NameLength <- NameBytes
  Passwords = {tiny, short, edge, long}
  Length <- Bytes
  Head72 <- FirstBytes
  StoreFails = TRUE
  Missing = Missing
SYMMETRY Symmetry
INVARIANTS
  TokensNameAccounts
  OneOwner
PROPERTIES
  NobodyLockedOut
  ImplementsDirectory
