\* Two calls: one can be answered before the shutdown while the other carries
\* its event out of the encoder during it.
SPECIFICATION Spec
CONSTANT Calls = {c1, c2}
INVARIANTS NoEventVanishes SentOnce LostOnlyWhenLate
PROPERTIES CallsEnd ShutdownReturns
\* The process ends.
CHECK_DEADLOCK FALSE
