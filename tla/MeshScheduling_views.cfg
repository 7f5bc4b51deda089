SPECIFICATION FairSpec
CONSTANTS
  Blocks = {0, 1, 2}
  Viewers = {v1, v2}
  MeshRanges = {{}, {1}, {0, 1}}
  LodStride = 1
  MayInvalidate = TRUE
  MayPanic = {1}
  MaxMeshTasks = 2
INVARIANTS MeshEntriesExact TasksHaveTheirData NoForgottenMesh
PROPERTIES ViewedGetsMeshed
