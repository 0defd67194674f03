SPECIFICATION Spec
CONSTANTS
  Calls <- MCCalls
  CallOf <- MCCallOf
  OutVar <- MCOutVar
  Vars <- MCVars
  InitType <- MCInitType
  ResolveSpace <- MCResolveSpace
INVARIANTS
  TypeOK
  SolvedTypesConsistent
PROPERTIES
  InferenceTerminates
