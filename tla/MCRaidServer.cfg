\* Two requests per client: the second follows a first one that was answered,
\* lost or given up. One crash with a restart and one broken connection.
CONSTANTS
  Clients <- MCClients
  Kind <- MCKind
  Msg <- MCMsg
  MaxRequests = 2
  NoRequest = NoRequest
  NoReply = NoReply
  MaxCrashes = 1
  MaxBreaks = 1
SPECIFICATION ClientFairSpec
INVARIANTS TypeOK SocketCallsInOrder OneOutstanding ReplyAnswersRequest LostOnlyByFailure
PROPERTIES ImplementsCalls NoBlockReturns AllServed
CHECK_DEADLOCK FALSE
