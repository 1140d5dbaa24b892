\* Three EventIDBase objects, each built by any sequence of set_run_number,
\* set_event_number, set_time_stamp and set_lumi_block with values 0 and 1.
\* UNDEFNUM and UNDEFEVT stand above every value given.  The objects are
\* interchangeable, so the configuration uses symmetry.
CONSTANTS
    e1 = e1  e2 = e2  e3 = e3
    Ids <- MCIds
    Nums = {0, 1}
    UNDEFNUM = 9
    UNDEFEVT = 9
SYMMETRY MCSymmetry
SPECIFICATION Spec
INVARIANTS
    TypeOK
    TypeReflectsFields
    LessIsStrictWeakOrder
    ComparisonsAgree
    SortByDescending
