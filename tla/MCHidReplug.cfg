SPECIFICATION Spec
CONSTANTS
  Keyboards = {kb1}
  Mice = {}
  Usages = {"A"}
  Mods = {}
  HID_KEYBOARD_KEY_MAX = 2
  QueueCap = 1
INVARIANTS EveryPressInjected
