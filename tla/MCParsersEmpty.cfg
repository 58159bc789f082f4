SPECIFICATION Inputs
CONSTANTS
  Letter = {":", "*", "a", "b"}
  MaxPath = 5
  Base = 8
  Short = 1
  Mid = 1
  Long = 2
  Opcodes = {text, close}
  MaxPayload = 11
  Ull = 64
  MaxTotal = 4
  MaxNumber = 5
  MaxHeader = 5
  MaxQuery = 5
  MaxSetters = 4
  MaxBytes = 5
  NONCE_BYTES = 2
  MAC_BYTES = 2
  SIGNATURE_BYTES = 2
  Byte = 16
  Digit = 8
  Nibble = 4
INVARIANTS
  ParamsNonEmpty
CHECK_DEADLOCK FALSE
