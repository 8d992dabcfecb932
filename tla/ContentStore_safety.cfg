SPECIFICATION Spec
CONSTANTS
  Packages = {p1, p2, e1}
  Elite = {e1}
  Indexed = {p1, p2}
  Readers = {r1, r2}
  Writers = {w1, w2}
  None = None
  MaxRestarts = 1
SYMMETRY Symmetry
CONSTRAINT NoSlipYet
INVARIANTS TypeOK ReadsOnlyBreakAfterASlip OneDecryption EliteInMemoryOnly
PROPERTY ReadableUntilDestroyed
