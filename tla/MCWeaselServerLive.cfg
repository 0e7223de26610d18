SPECIFICATION FairSpec
CONSTANTS
  Clients = {c1}
  Bases <- MCBases
  Deployer = Deployer
  MaxSessions = 7
  MaxIpcId = 4
  MaxEvents = 4
PROPERTY ServedAgain
