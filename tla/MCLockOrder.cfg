SPECIFICATION Spec
CONSTANTS
    Session = {s1, s2}
    LogicThread = {l1, l2}
    Worker = {w1}
SYMMETRY Alike
INVARIANTS NobodyIsStuck SendsOutsideTheWorld
