CONSTANTS
  Reg = {0, 1, 2}
  Width = 1
  Value <- Words
  Result <- Table
  Zero = 0
  Undef = Undef
SPECIFICATION Spec
INVARIANTS
  TypeOK
  ScoreboardTracks
  FlushAgrees
PROPERTY
  RefinesIsa
