\* The job and two later requests, one of them with two cycles, an injected failure, one crash, three live calls.
SPECIFICATION InsuranceSpec
CONSTANTS
  d1 = d1  d2 = d2  d3 = d3
  Drivers = {d1, d2, d3}
  Job = d1
  Tasks <- TaskKeys
  Rank <- PlanRank
  Deps <- PlanDeps
  Policy <- PlanPolicy
  ExpectedDenied = {"private-upload-policy"}
  Contents = {"bundle"}
  NoContent = NoContent
  Declarable <- MCDeclarable
  Measured <- MCMeasured
  Injected = "finance-analysis"
  None = None
  MaxAttempts = 2
  CycleLimit = 1000
  MaxCycles <- MCCycles
  MaxCalls = 3
  MaxCrashes = 1
INVARIANTS LineageHolds LiveIsDisclosed
PROPERTIES OutcomeHasCause
CHECK_DEADLOCK FALSE
