CONSTANTS
  TokenLens = {0, 1, 8}
  Uris <- MCUris
  ContentTypes = {0, 40, 50}
  DataLens = {0, 4}
SPECIFICATION Spec
INVARIANT TypeOK
INVARIANT PayloadInPlace
INVARIANT OptionsReadBack
