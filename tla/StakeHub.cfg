SPECIFICATION CVSpec
CONSTANTS
  i1 = i1
  w1 = w1
  r1 = r1
  r2 = r2
  self = self
  bob = bob
  none = none
  Iterators = {i1}
  Watchers = {w1}
  Topics = {self, bob}
  Logs <- MCLogs
  Queries <- DelegationQueries
  ChanCap = 1
  MaxLogs = 3
  MaxClients = 1
  NoLog = none
  Runs = {}
  GasPrices = {10, 11}
  Funds = 2
  CreatedLog <- MCCreatedLog
CHECK_DEADLOCK FALSE
INVARIANTS
  HubTypeOK
  IterationComplete
PROPERTIES
  Feed
  ShutdownReturns
  LossIsReported
