SPECIFICATION TasksSpec
CONSTANTS
    Tasks = {t1, t2}
    Agents = {a1, a2}
    t1 = t1
    t2 = t2
    a1 = a1
    a2 = a2
    Free = Free
    Processes = {a1, a2}
    ProcessOf <- OwnProcess
    MaxKills = 0
INVARIANTS NoDoubleHeld
CHECK_DEADLOCK FALSE
