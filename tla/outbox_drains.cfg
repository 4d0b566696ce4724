SPECIFICATION FairSpec
CONSTANTS
    mail = mail
    push = push
    phone = phone
    Messages = {mail}
    Alerts = {}
    Devices = {}
    Device <- MCDevice
    NoDevice = NoDevice
    Processes = {p1, p2}
    MaxAttempts = 3
    RetryDelay <- MCRetryDelay
    StaleAfter = 4
    Limit = 1
    MaxTaken = 2
    Nobody = Nobody
PROPERTIES QueueDrains
CHECK_DEADLOCK FALSE
