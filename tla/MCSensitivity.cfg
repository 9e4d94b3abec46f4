\* A controller, a script and an overlay that do what they like, and two runs of
\* the bridge with or without the flag; whatever may go wrong with a save or a
\* request.  1 is rejected and 5 is printed as 6.  The slider's positions are 4 and
\* 8: for 6 it stands at 8, and so says the label; for 10 it stands at its end.
SPECIFICATION Spec
CONSTANTS
    Slots = {s1}
    Overlays = {o1}
    Script = Script
    ReqIds = {r1, r2}
    Asked = {1, 5}
    Flags = {1, 10}
    LOW = 2
    HIGH = 10
    DEFAULT = 4
    GRAIN = 2
    SLIDER_MIN = 4
    SLIDER_MAX = 8
    SLIDER_STEP = 4
    None = None
    Empty = Empty
    Rejected = Rejected
    Failures = {"save fails", "crash in save", "request lost"}
    MaxRuns = 2
SYMMETRY MCSymmetry
INVARIANTS TypeOK ControllersAgree OverlayShowsTheBridge
PROPERTIES AcknowledgedSticks
