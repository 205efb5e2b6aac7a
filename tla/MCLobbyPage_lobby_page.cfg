SPECIFICATION Spec
CONSTANTS
    Tabs = {t1, t2}
    MaxCalls = 2
    Codes = {A, B}
    BuyIns = {low}
    DefaultBuyIn = low
    LoginTries = 2
    MaxRecent = 2
    A = A
    B = B
    Past <- OneTable
    MaxClicks = 2
    MaxRevoked = 2
    MaxExpired = 1
    MaxLost = 1
INVARIANTS RefusedIsNotReused ErrorsHaveCauses BrowserRemembers
PROPERTIES ClicksAreAnswered
CHECK_DEADLOCK FALSE
