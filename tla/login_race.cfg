\* Two clients: failed logins racing past check_login_lockout.
SPECIFICATION Spec
CONSTANTS
    Clients <- MCClients2
    Emails <- MCEmails1
    Passwords <- MCPasswords
    c1 = c1
    c2 = c2
    e1 = e1
    e2 = e2
    p1 = p1
    p2 = p2
    SeedEmail = SeedEmail
    NoPassword = NoPassword
    MaxLoginAttempts = 5
    LockoutDuration = 2
    MaxRequests = 6
SYMMETRY ClientSymmetry
INVARIANT LockoutWindow
