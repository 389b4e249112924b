SPECIFICATION Spec
CONSTANTS
    Pids = {1, 2}
    Boards = {"time", "ring", "points"}
    TimeBoards = {"time"}
    RingBoards = {"ring"}
    Uploads <- MCUploads
    MaxScore = 3
    TimeMax = 3
    MaxWrites = 3
    MaxLimit = 2
    None = None
INVARIANTS ScoresExact BestKept PagesCover
