CONSTANTS
    chat = chat  chat2 = chat2  orphan = orphan  batch = batch
    None = None
    Kinds = {"mlx", "mlx_sequential", "llama_cpp", "ollama"}
    Threads = {chat, orphan, batch}
    Streams = {chat}
    Items = {1, 2, 3, 4, 5, 6}
    Work <- MCWork
    Temperature <- MCTemperature
SPECIFICATION EngineSpec
INVARIANTS EngineTypeOK Exclusive FailsAlone MiscountsExplained
PROPERTY JobsEnd
CHECK_DEADLOCK FALSE
