\* More callers than slots; any of them may come back after it has left.
SPECIFICATION Spec
CONSTANTS
    MAX_CLIENTS = 2
    Conns = {c1, c2, c3}
    None = None
    Script <- MCScript
INVARIANTS ResultsAreOwn DescriptorsAccounted EveryoneHears
PROPERTIES EventsGetThrough KnocksAnswered SlotsComeBack StopsWhenAsked
CHECK_DEADLOCK FALSE
