SPECIFICATION Spec
CONSTANTS
  Blocks = {4, 5, 6}
  Viewers = {v1}
  MeshRanges = {{}, {5}}
  LodStride = 2
  MayInvalidate = FALSE
  MayPanic = {}
  MaxMeshTasks = 2
INVARIANTS NoForgottenMesh
