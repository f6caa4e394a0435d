CONSTANT Conns = {c1}
SPECIFICATION Spec
INVARIANT OKMeansOperating
CHECK_DEADLOCK FALSE
