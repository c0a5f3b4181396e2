CONSTANTS
  Handlers = {h1, h2}
  Keys = {k1, k2, k3}
  Ops = {edit, retire}
  Retire = retire
  NoReceipt = NoReceipt
SPECIFICATION Spec
SYMMETRY Alike
INVARIANTS
  TypeOK
  SnapshotReadable
  KeyAppliedOnce
  AnswersKept
PROPERTIES
  ImplementsHistory
