CONSTANTS
  k1 = k1
  k2 = k2
  r1 = r1
  r2 = r2
  r3 = r3
  r4 = r4
  t1 = t1
  t2 = t2
  t3 = t3
  phone = phone
  laptop = laptop
  Keys = {k1, k2}
  Requests = {r1, r2, r3, r4}
  KeyOf <- MixedKeys
  IntentOf <- MixedIntents
  Scenes <- MCScenes
  None = None
  SessionScenes <- MCSessionScenes
  Tabs = {t1, t2, t3}
  DeviceOf <- MCDevice
  Askers = {a1, a2}
  Guessers = {g1, g2}
  MaxAttempts = 2
  MaxPerWindow = 2
  Members = {1, 2, 3, 4, 5}
  TreeScenes <- MCTreeScenes
  LockMembers = {1, 2, 3, 4, 5, 6}
  Sponsor <- TreeSponsor
  Placement <- TreePlacement
  Structures = {"UNILEVEL", "BINARY"}
  DirectLevels = 3
  Buyers = {4, 5}
  Earners = {1, 2}
  Runs = {1, 2}
SPECIFICATION MCSpec
INVARIANTS ExecutedOnce AnswersAreGenuine OneSessionUntilEnded SignedInUntilEnded OneCodeFewGuesses
  OneChildPerLeg EveryVolumeIsCounted VolumesAreReal 
SYMMETRY MCSymmetry
CHECK_DEADLOCK FALSE
