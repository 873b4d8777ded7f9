SPECIFICATION Spec
CONSTANTS
    none = none
    fine = fine
    bad = bad
    None <- none
    Fine <- fine
    Bad <- bad
    Things <- MCThings
    Kind <- MCKind
    Of <- MCOf
    OrderTypes <- MCOrderTypes
    AdminTypes <- MCAdminTypes
    Fleeting <- MCFleeting
    Calls <- AllEndpoints
INVARIANTS
    NoFieldMissing
    RefusedForAReason
    AcceptedFits
    AnswerFits
    WrittenFits
CHECK_DEADLOCK FALSE
