SPECIFICATION Spec
CONSTANTS
  home = home
  vol = vol
  p = p
  q = q
  w = w
  key = key
  AnyName = AnyName
  Names <- MCNames
  Home <- MCHome
  Files <- MCFiles
  Sessions <- MCSessions
  Directories <- MCDirectories
  SecretPaths <- MCSecretPaths
  Listable <- MCListable
  MaxEntries = 1
INVARIANT DenialsKept
