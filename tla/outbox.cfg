SPECIFICATION Spec
CONSTANTS
    mail = mail
    push = push
    phone = phone
    Messages = {mail, push}
    Alerts = {push}
    Devices = {phone}
    Device <- MCDevice
    NoDevice = NoDevice
    Processes = {p1, p2}
    MaxAttempts = 2
    RetryDelay <- MCRetryDelay
    StaleAfter = 2
    Limit = 2
    MaxTaken = 2
    Nobody = Nobody
INVARIANTS TypeOK NeverTwice NothingStale SweptOnce
PROPERTIES ImplementsPromise
CHECK_DEADLOCK FALSE
