SPECIFICATION Spec
CONSTANTS
  Clients = {c1, c2}
  Bases = {0}
  Deployer = Deployer
  MaxSessions = 7
  MaxIpcId = 4
  MaxEvents = 2
SYMMETRY MCSymmetry
INVARIANTS TypeOK MapIsSound DeploysAlone OwnSession
