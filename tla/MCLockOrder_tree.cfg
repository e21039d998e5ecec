SPECIFICATION Spec
CONSTANTS
  Sessions = {t1, t2, t3}
  Projects = {p}
  Items = {1, 2}
  Users = {u1}
SYMMETRY Symmetry
INVARIANT DeadlocksMeasure
