CONSTANTS
    Calls <- OneStream
    StreamCalls <- OneStream
    RespChSize = 1
    CtxDoneChSize = 1
    InputChSize = 1
    Responses = 3
SPECIFICATION RpcSpec
CHECK_DEADLOCK FALSE
INVARIANTS GivenUpFails
