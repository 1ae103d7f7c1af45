\* Grants, revocations and settlements with tokens behind the roles.
CONSTANTS
  Person = {ann, bob}
  Founder = ann
  Job = {j1}
  Granted = {"customer", "runner", "admin"}
  MaxCalls = 2
SPECIFICATION Spec
INVARIANTS SomebodyIsAdmin RunnersAreAssignable
PROPERTY OnlyAdminsAct
