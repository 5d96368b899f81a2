SPECIFICATION Spec
CONSTANTS
    Alarms = {a1, a2}
    M = 16
    Quantum = 2
    Delays = {0, 1, 6}
    AllocOutcomes = {TRUE, FALSE}
    MaxLate = 2
SYMMETRY Symmetry
INVARIANTS AlarmsExact
