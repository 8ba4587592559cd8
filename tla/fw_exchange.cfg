CONSTANTS
  Builds = {{"FAB_LOCK"},
            {},
            {"CTX_LOCK"},
            {"CTX_LOCK", "FAB_LOCK"},
            {"CTX_LOCK", "POR_OPT"},
            {"CTX_LOCK", "POR_OPT", "FAB_LOCK"},
            {"CTX_LOCK", "MUTEX"},
            {"CTX_LOCK", "MUTEX", "FAB_LOCK"},
            {"CTX_LOCK", "MUTEX", "POR_OPT"},
            {"CTX_LOCK", "MUTEX", "POR_OPT", "FAB_LOCK"}}
  MaxSramSize = 32
  SlvBuffSize = 40
SPECIFICATION FairSpec
CHECK_DEADLOCK FALSE
INVARIANTS
  TypeOK
  NoAssertFails
  SendersExclude
  NoLostInterrupt
  SlaveUsesAnnouncedSize
PROPERTIES
  WaitsAreStable
  ExchangeSafe
  ExchangeFair
  Completes
