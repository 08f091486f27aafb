\* One page, its notes and its patches under review.
SPECIFICATION Spec
CONSTANTS
    Pages = {p1}
    NoPage = none
    Headings = {h}
    NoteHeading = h
    Texts = {x, y}
    Revisions = {r1}
    MaxSteps = 5
CHECK_DEADLOCK FALSE
SYMMETRY Sym
INVARIANT AcceptedTextIsPublished
