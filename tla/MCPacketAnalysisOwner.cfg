CONSTANTS
  here4 = here4
  there4 = there4
  here6 = here6
  there6 = there6
  ends23 = ends23
  V4 = {here4, there4}
  V6 = {here6, there6, ends23}
  LocalIps = {here4, here6}
  LastGroup <- MCLastGroup
  Ports <- MCPorts
  Owner <- MCOwner
  Windows = TRUE
SPECIFICATION AnalysisSpec
INVARIANT ProcessOwnsItsPort
