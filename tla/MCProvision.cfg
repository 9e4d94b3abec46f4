\* Two processes, started again and again, and two faults.
SPECIFICATION FairSpec
CONSTANTS
    Procs = {p, q}
    Hosts = {h}
    None = None
    Gens = {1, 2, 3, 4, 5, 6}
    MaxFaults = 2
INVARIANTS ServesMatchingPair ServedLeafIsTrusted
PROPERTIES TrustLasts StartsInTheEnd
