SPECIFICATION PlannedSpec
CONSTANTS
  Ungrouped = Ungrouped
  Declarations <- SmallDeclarations
  Plans <- SmallPlans
  Named <- SmallNamed
  Targets <- SmallTargets
  Aliases <- SmallAliases
  Selections <- SmallSelections
  Invocations <- SmallInvocations
INVARIANTS CompilesWellFormed OrderFree BoundOnce SuppliedUntouched
PROPERTY OpensAfterBarriers
