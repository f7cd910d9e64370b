SPECIFICATION FairSchedule
CHECK_DEADLOCK FALSE
CONSTANTS
    Absent = Absent
    Deleted = Deleted
    Answered = Answered
    a1 = a1
    n1 = n1
    q1 = q1
    Automations = {a1}
    Workflows = {}
    Names = {n1}
    Changes = {q1}
    Runs = {}
    MaxCrashes = 1
    May = {"bad cron"}
PROPERTIES ServerComesUp
