SPECIFICATION Spec
CONSTANTS
    Procs = {p1}
    Displays = {d1, d2}
    Profiles = {q1, q2}
    Inodes = {i1, i2, i3}
    NoDisplay = NoDisplay
    NoProfile = NoProfile
    NoInode = NoInode
    LockRetries = 2
    Faults <- NoFaults
PROPERTY InstalledKept
