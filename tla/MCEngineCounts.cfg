CONSTANTS
    chat = chat  chat2 = chat2  orphan = orphan  batch = batch
    None = None
    Kinds = {"ollama"}
    Threads = {chat, chat2}
    Streams = {chat, chat2}
    Items = {1, 2, 3, 4, 5, 6}
    Work <- MCWork
    Temperature <- MCTemperature
SPECIFICATION EngineSpec
INVARIANT StreamCountsOwn
CHECK_DEADLOCK FALSE
