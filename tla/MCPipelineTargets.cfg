SPECIFICATION Spec
CONSTANTS
  Shader = {"PixelShader"}
  Setting = {"DepthTest"}
  Section = {0}
  Srv = {s1}
  SectionOf <- MCSectionOf
  Table = {"ConstantBuffers"}
  Input = {}
  Image = {b1, b2}
  BackBuffer = {b1, b2}
  DepthImage = {z1}
  Option = {on}
  Item = {k1, k2}
  Enabled = on
  Null = Null
  Memory = {Null, wild}
  Unset = Unset
  Foreign = Foreign
PROPERTIES
  DrawIsCurrent
  DrawSamplesBound
  DrawWritesTargets
VIEW MCView
SYMMETRY MCSymmetry
