CONSTANTS
    Subjects = {alice, bob}
    NoSub = NoSub
    Handlers = {h1, h2}
    Calls = {c1}
    Exact = 4
    Limit = 2
    ListLimit = 1
    Statuses = {204, 200, 503}
    Sizes = {1, 3}
    Counts = {3, 5}
SPECIFICATION ShimSpec
INVARIANTS NamesAnAssertedUser NoFalseAlarm ArgumentsKept ErrorsReadable
PROPERTY SettlesOnLastUser
