SPECIFICATION CVSpec
CONSTANTS
  i1 = i1
  w1 = w1
  r1 = r1
  r2 = r2
  self = self
  bob = bob
  none = none
  Iterators = {}
  Watchers = {w1}
  Topics = {self, bob}
  Logs <- CreationLogs
  Queries <- CreationQueries
  ChanCap = 1
  MaxLogs = 0
  MaxClients = 1
  NoLog = none
  Runs = {r1, r2}
  GasPrices = {10, 11}
  Funds = 2
  CreatedLog <- MCCreatedLog
CHECK_DEADLOCK FALSE
PROPERTIES
  SentIsCreated
