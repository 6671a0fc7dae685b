SPECIFICATION Spec
CONSTANTS
    Agent = {0, 1}
    Barrable = {1}
    Worker = {"w1"}
    MaxStarts = 2
    MaxRounds = 2
INVARIANTS  BarredStayOut
