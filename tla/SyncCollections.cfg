SPECIFICATION Spec
CONSTANTS
  BookmarkIds = {b1, b2, b3}
  DownloadIds = {d1, d2}
  BookmarkCalls = {t1, t2}
  DownloadCall = t3
  None = None
  MaxBookmarkEdits = 3
  MaxRestores = 3
SYMMETRY Symmetry
INVARIANT UnifiesSafely
