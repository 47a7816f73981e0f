SPECIFICATION Spec
CONSTANTS
    x1 = x1  x2 = x2  x3 = x3  in = in  out = out
    None = None
    Row = {x1, x2, x3}
    Col = {in, out}
    Prio = {0, 1}
    Stamp <- MCStamp
    Views <- AllViews
    FiltersOf <- MCFilters
    Asked = {0, 3}
    DefaultLimit = 1
    MaxLimit = 2
    PageSize = 2
SYMMETRY RowSymmetry
CHECK_DEADLOCK FALSE
INVARIANTS TypeOK WalkFinds ServedOnce
PROPERTIES ServesWanted
