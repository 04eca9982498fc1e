\* The login's three attempts, and three failing exchanges.
CONSTANTS
  Attempts = 3
  MaxFaults = 3
SPECIFICATION FairSpec
INVARIANTS TypeOK IInv ExchangesAreAlone RequestsAreAuthenticated RestIsKeptAlive
PROPERTIES ConnectingEnds RestEnds
