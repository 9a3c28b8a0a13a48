SPECIFICATION Spec
CONSTANTS
    p1 = p1  p2 = p2  p3 = p3
    Pages = {p1, p2, p3}
    Offsets = {0, 1}
    Index <- MCIndex
    Ways = 2
    Reuse = FALSE
INVARIANT TablesAgree
PROPERTY ImplementsContents
