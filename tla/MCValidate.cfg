CONSTANTS
  s1 = s1
  s2 = s2
  Services <- MCServices
  ServiceList <- MCServiceList
  Every <- MCEvery
  EveryCycles <- MCEveryCycles
  ActionRates <- MCActionRates
  Dependants <- MCDependants
  Requests <- MCRequests
  MaxStarts = 2
SPECIFICATION Spec
INVARIANT TypeOK
INVARIANT NoLostRequest
INVARIANT TimeoutJustified
PROPERTY EventuallyValidated
PROPERTY ImplementsActionQueue
