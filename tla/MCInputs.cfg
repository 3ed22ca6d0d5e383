SPECIFICATION Spec
INVARIANTS RunIsEnough LookupIsSafe AsInTheChart
