SPECIFICATION MCSpec
INVARIANTS ServesWhole SessionsKept
 
CONSTANTS
  Lines <- MCLines
  Lower <- MCLower
  CredFiles <- MCCredFiles
  DirFiles <- MCDirFiles
  Conns = {"c1", "c2"}
  Clients <- MCClients
  Implicit = {"pop3", "admin"}
  MaxConns <- MCMaxConns
  Native = {"n"}
  Foreign = {"f"}
CHECK_DEADLOCK FALSE
