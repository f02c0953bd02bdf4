CONSTANTS
  FaultNumber = 3
  MaxAddr = 4
  Branches = {1, 4}
  Packs <- ThreeFaultPacks
  StartPoint <- NoStart
  EndPoints <- NoEnds
  tb_counter_max = 6
  NULL = NULL
SPECIFICATION Spec
INVARIANTS
  IInv
  SingleStepBalance
  TriggerBlockIsSingle
  InjectionOnTime
  LifespanExact
