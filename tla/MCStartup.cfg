\* Three processes on one key file, with good and bad settings.
SPECIFICATION StartupSpec
CONSTANTS
    MaxStarts = 3
    Environments <- MCEnvironments
    Unset = Unset
    Bad = Bad
INVARIANTS
    KeyFileWhole
    SameIdentity
