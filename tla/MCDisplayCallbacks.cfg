SPECIFICATION Spec
CONSTANTS
  Tasks = {t1, t2}
  Callbacks = {bsp, app1}
  AppCallbacks = {app1}
  IramCode = {bsp}
  InternalCtx = {bsp}
  NULL = NULL
  BspOnce = TRUE
SYMMETRY TaskSymmetry
INVARIANTS TypeOK CalmBspNeverMuted OwnContext ExposedOnlyIfOvertaken RepairedAlone
