SPECIFICATION StoresSpec
CONSTANTS
  k1 = k1 k2 = k2 ok = ok rejected = rejected killed = killed
  NoCell = NoCell
  Garbage <- MCGarbage
  Key <- MCKey
  Cell <- MCCell
  Decided <- MCDecided
  OldFiles <- MCOldFiles
  GoesOn = FALSE
  MaxLines = 4
  r1 = r1 r2 = r2 a1 = a1 a2 = a2 b1 = b1 fa = fa fb = fb folder = folder
  Seeded <- MCSeeded
  FileOf <- MCFileOf
  FolderOf <- MCFolderOf
  Items <- MCItems
  Cost <- MCCost
  Safety = 2
  Grantable = 8
  LongestWall = 6
  Peaks = {1, 3}
  Walls = {4}
  Earlier <- MCEarlier
  RoundsOf <- MCRounds
  Refused = {r2}
  q1 = q1 q2 = q2
  Procs = {q1, q2}
  KindOf <- MCKinds
  Size <- MCSize
  Window = 1
  Grace = 0
  Asks <- MCAsks
  Mortal = {q1}
  Outsiders <- MCOutsiders
  MaxTime = 2
INVARIANT RecordStands
INVARIANT DemandsGrow
INVARIANT ClaimsFit
PROPERTY HistoryIsKept
PROPERTY RoundsWriteWhatRan
CHECK_DEADLOCK FALSE
