SPECIFICATION Spec
CONSTANTS
  a = a
  b = b
  w = w
  rest = rest
  grpc = grpc
  e1 = e1
  e2 = e2
  Nothing = Nothing
  Torn = Torn
  NumIssuers = 1
  Serials = {a, b, w}
  Wide = {}
  Contents <- OneSerial
  MaxCRL = 2
  Unnumbered = FALSE
  Exports = {e1}
  TornWrites = FALSE
  Clients = {}
  GrpcClients = {}
INVARIANT
  ExportsDoneAfterWait
