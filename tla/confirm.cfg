CONSTANTS
  ada = ada
  bob = bob
  thread1 = thread1
  words1 = words1
  words2 = words2
  card1 = card1
  card2 = card2
  job1 = job1
  job2 = job2
  job3 = job3
  App = App
  None = None
  User <- MCUser
  Thread <- MCThread
  Body <- MCBody
  Card <- MCCard
  Job <- MCJob
  MaxLayers = 1
SPECIFICATION Spec
SYMMETRY Symmetric
CHECK_DEADLOCK FALSE
INVARIANTS
  TypeOK
  Approved
  NoImpersonation
  TwiceOnlyIfResent
  HonestReply
  CardsHaveDrafts
PROPERTIES
  GateSpec
