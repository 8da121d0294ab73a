SPECIFICATION Spec
INVARIANT
  UserFaultsAre4xx
