SPECIFICATION Spec
CONSTANTS
  Tasks = {t1}
  Callbacks = {bsp, app1}
  AppCallbacks = {app1}
  IramCode = {bsp}
  InternalCtx = {bsp}
  NULL = NULL
  BspOnce = TRUE
INVARIANTS CallsLoadedCode
