SPECIFICATION Spec
CONSTANTS
  Tuis = {t1}
  Agents = {a1}
  Slots = {s1}
  Ids = {r1, r2}
  Pids = {p1, p2}
  NoPid = NoPid
  NoId = NoId
  Stranger = Stranger
  Init1 = Init1
SYMMETRY Symmetry
INVARIANTS TypeOK Tracked ScanSeesEveryJobOnFile
