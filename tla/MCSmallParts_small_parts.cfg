SPECIFICATION PartsSpec
CONSTANTS
    People = {ann, bob, cat}
    Sockets = {s1, s2}
    NoOne = NoOne
    upper = upper
    lower = lower
    long = long
    bad = bad
    mail = mail
    NoEmail = NoEmail
    Visitors = {v1, v2}
    Addresses = {upper, lower, long, bad}
    Form = {upper, lower, long}
    Emails = {mail}
    NormalizeEmail <- Normal
    Channels = {"discord", "email"}
    MaxRequests = 2
    MaxFaults = 1
    Deck <- SmallDeck
    Matches = {m1, m2}
    NoMatch = none
    MaxVersion = 3
INVARIANTS OnlyDiscardsAreHidden NobodyPlaysAlone ListIsTrue ScoresRankHands NothingShownIsLost ClientIsCurrent
PROPERTIES FormsAreAnswered StoredMovesOn
CHECK_DEADLOCK FALSE
