\* One credential of each kind, two workers that resolve them, two requests that delete
\* the Cursor credential.
SPECIFICATION Spec
CONSTANTS
  c1 = c1
  g1 = g1
  t1 = t1
  d1 = d1
  d2 = d2
  r1 = r1
  r2 = r2
  None = None
  Cursors = {c1}
  GitHubs = {g1}
  Jiras = {t1}
  Deletes = {d1, d2}
  Resolves = {r1, r2}
SYMMETRY MCSymmetry
INVARIANTS
  TypeOK
  NamedSecretsExist
  GoneIsGone
  ChainUnbroken
  RefusalHasACause
  HandedOutTokensWereFresh
PROPERTIES
  RefreshTokensGoForward
CHECK_DEADLOCK FALSE
