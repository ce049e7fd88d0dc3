SPECIFICATION Spec
CONSTANTS
  h1 = h1
  h2 = h2
  d1 = d1
  HalPins <- MCHalPins
  HdfPins <- MCHdfPins
PROPERTY
  SetIrqEnables
