SPECIFICATION BlocksSpec
CONSTANTS
  Fvfs = {}
  Shaders = {s1}
  Programs = {s1}
  PixelShaders = {p1}
  Textures = {t1}
  IndexBuffers = {i1}
  Rest = {r1}
  Blocks = {b1, b2}
  Null = Null
  Bad = Bad
  CallBound = 8
SYMMETRY Symmetric
INVARIANT MirrorAgrees
PROPERTY ApplyRestoresCapture
CHECK_DEADLOCK FALSE
