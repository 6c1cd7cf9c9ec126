SPECIFICATION Spec
CONSTANTS
  None = None
  v1 = v1
  v2 = v2
  Keys = {k1}
  Inodes = {i1, i2, i3}
  Versions <- MCVersions
  Length <- MCLength
  Writers = {w1, w2}
  Readers = {r1}
SYMMETRY MCSymmetry
INVARIANTS DownloadsAreOneVersion StoredIsDownloaded
