CONSTANTS
    Runs = {"acme", "nova"}
    Generated <- MCGenerated
    Starts <- MCStarts
    Lower <- MCLower
    Readers = {"admin", "user", "portal"}
    Role <- MCRole
    PortalMails = 1
    MaxReads = 2
    MaxFaults = 1
SPECIFICATION Spec
CHECK_DEADLOCK FALSE
INVARIANTS
    ReadsAreWhole
    MailsKeepTheirPeople
