SPECIFICATION Spec
CONSTANTS
    Scripts <- TheScripts
    BufSizes = {2, 5}
    SyncRoom = 2
PROPERTY Delivers
