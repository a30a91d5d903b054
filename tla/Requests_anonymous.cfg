SPECIFICATION Spec
CONSTANTS
  NoNode = NoNode
  SchemaNodes <- MCSchemaNodes
  Schema <- MCSchema
  InternalRPCs <- MCInternalRPCs
  FieldNodes <- MCFieldNodes
  FieldHeight <- MCFieldHeight
  Library <- MCLibrary
  AnonymousGroup <- MCAnonymousGroup
  NacmConfigs <- MCNacmConfigs
  Anonymous = "yangnobody"
  PamUsers = {"alice", "yangnobody"}
  Scenarios <- AnonymousScenarios
PROPERTY AnonymousNeedsDenyAll
CHECK_DEADLOCK FALSE
