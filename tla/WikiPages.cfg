\* One page with two revisions of its video, its patches under review, or two
\* pages that merge and part; six commands, each of the owner's at most once,
\* or fourteen in which they merge three times.
SPECIFICATION Spec
CONSTANTS
    Pages = {p1, p2}
    NoPage = none
    Headings = {h}
    NoteHeading = h
    Texts = {x, y}
    Revisions = {r1, r2}
    MaxSteps = 14
CONSTRAINT Bounded
CHECK_DEADLOCK FALSE
SYMMETRY Sym
INVARIANTS PendingIsCurrent RedirectsLead LiveIdsDistinct
PROPERTIES DeletedStaysDeleted ManualTextSurvives MergeLosesNothing
