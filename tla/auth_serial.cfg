\* One client at a time against the server's first start: the lockout
\* window and the answered credentials hold for sequential requests.
SPECIFICATION Spec
CONSTANTS
    Clients <- MCClients1
    Emails <- MCEmails
    Passwords <- MCPasswords
    c1 = c1
    c2 = c2
    e1 = e1
    e2 = e2
    p1 = p1
    p2 = p2
    SeedEmail = SeedEmail
    NoPassword = NoPassword
    MaxLoginAttempts = 5
    LockoutDuration = 2
    MaxRequests = 7
INVARIANT TypeOK
SYMMETRY ClientSymmetry
INVARIANT LockoutWindow
INVARIANT CredentialsHonoured
