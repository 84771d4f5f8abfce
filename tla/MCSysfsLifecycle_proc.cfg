\* Module load, one mount with its proc entries, unmount and module unload,
\* each proc_mkdir and proc_create_single_data free to fail: does every
\* remove_proc_entry find its entry?
CONSTANTS
    u1 = u1
    u2 = u2
    NoCall = NoCall
    Users <- OneUser
    MaxRemount = 0
SPECIFICATION Spec
PROPERTY
    ProcRemoveFindsEntry
