SPECIFICATION Spec
CONSTANTS
  NumLights = 2
  NumProxies = 2
  Maps <- MCMaps
  MaxFrame = 3
  On = On
  Off = Off
  CullNone = CullNone
  CullBack = CullBack
  Solid = Solid
  Triangle = Triangle
  ShadowMeshShader = ShadowMeshShader
  ShadowAmpShader = ShadowAmpShader
  ShadowPixel = ShadowPixel
  MeshShader = MeshShader
  PixelShader = PixelShader
  PBRPixel = PBRPixel
  BlitVertShader = BlitVertShader
  BlitPixelShader = BlitPixelShader
  Null = Null
  Unset = Unset
  Foreign = Foreign
  Wild = Wild
PROPERTIES
  DrawReadsItsOwn
  SampledReadable
  TargetsFit
