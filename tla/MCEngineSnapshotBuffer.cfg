CONSTANT MaxBlocks = 5
SPECIFICATION BufferSpec
INVARIANTS
  NeverTorn
PROPERTIES
  ImplementsRegister
