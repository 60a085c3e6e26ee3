SPECIFICATION MCSpec
CONSTANTS
  KmsKeys = {k1, k2}
  Listed = {k1}
  DevSecret = dev
  Bodies = {"plain", "consent", "edge", "odd"}
  DecisionsOf <- MCDecisions
  Fractional = {"edge"}
  Small = {"edge"}
  Unsafe = {"edge"}
  Invalid = {"odd"}
  Defaulting = {"plain"}
  MaxTime = 1
  MaxSigned = 1
  MaxAlterations = 2
  None = none
  Policies <- MCPolicies
  DefaultPolicy <- MCDefault
  AllowDefault = TRUE
  Contexts <- MCContexts
  PageItems = 1
INVARIANTS
  AcceptedWasSigned
  VerdictsNest
  SignedIsAccepted
  PoliciesOnlyTighten
  SteadyPoliciesRule
PROPERTY
  HistoryIsKept
CHECK_DEADLOCK FALSE
