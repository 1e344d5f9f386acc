CONSTANTS
    None = None
    a = a
    b = b
    f1 = f1
    f2 = f2
    main = main
    Callers = {c1, c2}
    Revisions = {a, b}
    Files = {f1, f2}
    References = {main}
    FilesOf <- MCFilesOf
    SizeKnown <- MCSizeKnown
    External = {a}
    FileSize = 20
    Disk = 102
    MinimumMargin = 1
    Threshold = 41
    Attempts = 2
    MaxPushes = 1
    MaxHarm = 1
SPECIFICATION Spec
INVARIANTS TypeOK StorageSuffices AuditFindsDamage
PROPERTIES ImplementsZoo
CHECK_DEADLOCK FALSE
