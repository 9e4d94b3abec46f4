\* One process, started with one address and then with another, and no faults.
SPECIFICATION Spec
CONSTANTS
    Procs = {p}
    Hosts = {h1, h2}
    None = None
    Gens = {1, 2}
    MaxFaults = 0
INVARIANTS EnsuresLeafForHost
