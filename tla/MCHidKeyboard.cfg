SPECIFICATION FairSpec
CONSTANTS
  Keyboards = {kb1, kb2}
  Mice = {mouse}
  Usages = {"ENTER"}
  Mods = {"SHIFT_L"}
  HID_KEYBOARD_KEY_MAX = 2
  QueueCap = 1
INVARIANTS TypeOK Replay NoGhostHeld ModifiersAgree
PROPERTIES ReleaseSeen
