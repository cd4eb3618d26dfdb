SPECIFICATION LogSpec
CONSTANTS
  Payloads <- SomePayloads
  MaxNesting = 3
  Nesting <- LevelOf
  Bodies <- SomeBodies
  Data <- SomeData
  Paths <- SomePaths
  BodyPreset <- SmallBodyPreset
  QueryPreset <- SmallQueryPreset
  DetailsPreset <- SmallDetailsPreset
  SensitiveKeys <- Secrets
  LowerCase <- Lower
INVARIANT LinesFit
PROPERTY RedactionExact
