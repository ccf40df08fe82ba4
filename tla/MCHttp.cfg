SPECIFICATION HttpSpec
CONSTANTS
  Scripts <- MCScripts
  Cuts <- MCCuts
  HandlerDoc <- MCHandlerDoc
  HostDoc <- MCHostDoc
  Modules <- MCModules
  MAX_FIELD_SIZE = 4
  Methods = {"GET", "POST"}
  UriTokens = {"a", "b", "f", "r", "/"}
  NameTokens = {"Host", "Connection", "Content-Length", "Transfer-Encoding"}
  kMaxBodySize = 3
  kMaxContinuesRequestNumber = 2
  kMaxFeedback = 2
  kMinFeedback = 2
  kMinLoad = 1
  kMaxThread = 0
  MaxChecks = 3
INVARIANTS
  HttpTypeOK
  RequestsAsSent
  
PROPERTIES
  
  HttpServed
CHECK_DEADLOCK FALSE
