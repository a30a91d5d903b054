SPECIFICATION Spec
CONSTANTS
  NoNode = NoNode
  SchemaNodes <- MCSchemaNodes
  Schema <- MCSchema
  InternalRPCs <- MCInternalRPCs
  FieldNodes <- MCFieldNodes
  FieldHeight <- MCFieldHeight
  Library <- MCLibrary
  AnonymousGroup <- MCAnonymousGroup
  NacmConfigs <- MCNacmConfigs
  Anonymous = "yangnobody"
  PamUsers = {"alice", "yangnobody"}
  Scenarios <- DelayScenarios
PROPERTY CancelledTimerKnows
CHECK_DEADLOCK FALSE
