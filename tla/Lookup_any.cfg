\* Any lookups, one file in a clash.
SPECIFICATION Spec
CONSTANTS
    Request = Request
    Reply = Reply
    Options = Options
    request_proto = request_proto
    reply_proto = reply_proto
    Files = {request_proto, reply_proto}
    Symbols = {Request, Reply}
    Extensions = {Options}
    Home <- MCHome
    Imports <- MCImports
    Clashing = {reply_proto}
    Listing = Listing
INVARIANT OnlyDenialsRemembered
PROPERTIES
    SettledIsNotAskedAgain
    IsDirectory
CHECK_DEADLOCK FALSE
