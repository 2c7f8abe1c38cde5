SPECIFICATION Spec
CONSTANTS
  Shader = {}
  Setting = {"DepthTest"}
  Section = {0}
  Srv = {s1}
  SectionOf <- MCSectionOf
  Table = {}
  Input = {}
  Image = {b1, b2}
  BackBuffer = {b1, b2}
  DepthImage = {z1}
  Option = {on}
  Item = {k1}
  Enabled = on
  Null = Null
  Memory = {Null, wild}
  Unset = Unset
  Foreign = Foreign
PROPERTY
  BlitRebinds
