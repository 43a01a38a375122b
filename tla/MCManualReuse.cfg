SPECIFICATION Spec
CONSTANTS
  u1 = u1
  u2 = u2
  u3 = u3
  Uploads = {u1, u2}
  Games <- MCGames
  Alike <- MCAlike
  Keys <- MCKeys
  ScanKeys <- MCScanKeys
  Writers = {"loop", "scan"}
  Nothing = Nothing
  PurgeLimit = 1
INVARIANTS
  NewPairsStartAfresh
