SPECIFICATION FairSpec
CONSTANTS
  NoNode = NoNode
  SchemaNodes <- MCSchemaNodes
  Schema <- MCSchema
  InternalRPCs <- MCInternalRPCs
  FieldNodes <- MCFieldNodes
  FieldHeight <- MCFieldHeight
  Library <- MCLibrary
  AnonymousGroup <- MCAnonymousGroup
  NacmConfigs <- MCNacmConfigs
  Anonymous = "yangnobody"
  PamUsers = {"alice", "yangnobody"}
  Scenarios <- MCScenarios
INVARIANTS
  TypeOK
  ClassificationIsTotal
  EffectsFitRequest
  PointIsThere
  FormatIsAcceptable
  LocationsResolve
  FieldsReadTheirUnion
  StatusTellsExecution
  AnsweredOnce
PROPERTIES
  AnonymousNeedsValidRules
  AnonymousOnlyReads
  EveryRequestIsAnswered
CHECK_DEADLOCK FALSE
