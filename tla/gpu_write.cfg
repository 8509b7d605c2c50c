CONSTANTS
  VramW = 4
  VramH = 4
  Half <- MCHalf
  CmdUnit = 4
  CountMod = 10
  Decode <- MCDecode
  Words <- MCWords
  Pixels <- MCPixels
  Directions = {2}
SPECIFICATION GpuSpec
PROPERTIES
  WriteEndsComplete
