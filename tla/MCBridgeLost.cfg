\* spacenavd goes away while two clients are served.
SPECIFICATION Spec
CONSTANTS
    MAX_CLIENTS = 1
    Conns = {c1, c2}
    None = None
    Script <- MCScript
PROPERTIES EndsWhenLinkLost
CHECK_DEADLOCK FALSE
