CONSTANTS
    TnfLbs = {"tnf-lb"}
    AcmLbs = {"acm-lb"}
    MaxFaults = 1
SPECIFICATION Spec
PROPERTY UsersFirst RecordsGoLast Finishes
