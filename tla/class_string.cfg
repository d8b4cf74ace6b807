CONSTANT OnCurve = {75}
INIT Init
NEXT Next
INVARIANT ClassStringTotal
