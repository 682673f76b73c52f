SPECIFICATION Spec
CONSTANTS
  Callers = {handler, worker}
  Values = {v1, v2}
  Zero = Zero
  Torn = Torn
  NoCaller = NoCaller
  MaxIncidents = 2
INVARIANTS
  NeverTorn
  OrphansFromIncidents
PROPERTY
  AtomicRegister
