SPECIFICATION Spec
CONSTANTS
  Blocks = {0}
  NodeLods = {0}
  MaxEdits = 1
  MaxMeshTasks = 2
PROPERTIES EditIsMeshed
