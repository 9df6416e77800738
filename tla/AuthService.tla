----------------------------- MODULE AuthService -----------------------------
(***************************************************************************)
(* Password accounts (src/server/auth/service.rs, auth/handlers.rs,        *)
(* users/service.rs) and the server's first start (bin/server.rs).         *)
(*                                                                         *)
(* Each client sends one request at a time; the handler runs as one       *)
(* action per stretch between two awaits.  The user table is a sequence   *)
(* in created_at order (get_all sorts by created_at, so a `find` over it   *)
(* returns the oldest match).  login_attempts maps an email to its failure *)
(* count and the age of its last failed attempt; ages only matter up to   *)
(* LockoutDuration, so they saturate there and Tick ages every entry.     *)
(*                                                                         *)
(* Left out: request validation and storage errors (inputs are valid and  *)
(* the database answers), the default network and data create_user adds  *)
(* after the user row, the hashing (a hash is its password).              *)
(***************************************************************************)
EXTENDS Naturals, Sequences, SequencesExt, FiniteSetsExt

CONSTANTS
    Clients,            \* browsers sending requests concurrently
    Emails,             \* addresses clients register and log in with
    Passwords,          \* passwords clients send
    SeedEmail,          \* the seed user's <uuid>@netvisor.io address
    NoPassword,         \* password_hash = None
    MaxLoginAttempts,   \* AuthService::MAX_LOGIN_ATTEMPTS (5)
    LockoutDuration,    \* LOCKOUT_DURATION_SECS in ticks of the model clock
    MaxRequests         \* bound on the requests of a behaviour

ASSUME /\ SeedEmail \notin Emails /\ NoPassword \notin Passwords
       /\ MaxLoginAttempts \in Nat \ {0}
       /\ LockoutDuration \in Nat \ {0}
       /\ MaxRequests \in Nat

Ages == 0..LockoutDuration      \* LockoutDuration stands for "at least that"

UserRec == [email : Emails \cup {SeedEmail}, pw : Passwords \cup {NoPassword}]

Pcs == {"idle", "check", "verify", "update", "regRead", "regClaim",
        "regCheck", "regInsert"}

VARIABLES
    users,      \* Seq(UserRec): the users table, oldest first
    attempts,   \* login_attempts: email -> [count, age] for emails with an entry
    req,        \* [Clients -> request]: the handler each client is in
    session,    \* [Clients -> 0..]: the user id the client's session holds (0: none)
    boot,       \* where main() is: "serving", "seeding" or "ready"
    sent,       \* requests sent so far
    recent,     \* history: [Emails -> Seq(Ages)], ages of the failed password
                \*   checks since the last successful login, newest last
    promised    \* history: [Emails -> Passwords \cup {NoPassword}], the password
                \*   a successful register answered for the email

vars == <<users, attempts, req, session, boot, sent, recent, promised>>

ReqRec == [pc : Pcs, email : Emails, pw : Passwords \cup {NoPassword}, ok : BOOLEAN, id : Nat]

TypeOK ==
    /\ users \in Seq(UserRec)
    /\ DOMAIN attempts \subseteq Emails
    /\ \A e \in DOMAIN attempts : attempts[e] \in [count : 1..MaxRequests, age : Ages]
    /\ req \in [Clients -> ReqRec]
    /\ session \in [Clients -> 0..Len(users)]
    /\ boot \in {"serving", "seeding", "ready"}
    /\ sent \in 0..MaxRequests
    /\ recent \in [Emails -> Seq(Ages)]
    /\ promised \in [Emails -> Passwords \cup {NoPassword}]

Init ==
    /\ users = <<>>
    /\ attempts = [e \in {} |-> [count |-> 0, age |-> 0]]
    /\ req = [c \in Clients |-> [pc |-> "idle", email |-> CHOOSE e \in Emails : TRUE,
                                 pw |-> NoPassword, ok |-> FALSE, id |-> 0]]
    /\ session = [c \in Clients |-> 0]
    /\ boot = "serving"
    /\ sent = 0
    /\ recent = [e \in Emails |-> <<>>]
    /\ promised = [e \in Emails |-> NoPassword]

\* The first of a set of row indices in created_at order, or 0.
Oldest(rows) == IF rows = {} THEN 0 ELSE Min(rows)

\* all_users.iter().find(|u| u.base.email == request.email).
find_by_email(e) == Oldest({i \in 1..Len(users) : users[i].email = e})

\* Mutant: the seed user is any user.
find_seed_any == Oldest(1..Len(users))

\* The seed user: the oldest user with neither a password hash nor an OIDC
\* subject (no OIDC subject is ever set in this model).
find_seed == Oldest({i \in 1..Len(users) : users[i].pw = NoPassword})

\* Mutant: the lock starts only above MAX_LOGIN_ATTEMPTS.
LockedOutAbove(e) ==
    /\ e \in DOMAIN attempts
    /\ attempts[e].count > MaxLoginAttempts
    /\ attempts[e].age < LockoutDuration

\* check_login_lockout: an entry at MAX_LOGIN_ATTEMPTS or more whose last
\* attempt is younger than the lockout duration.
LockedOut(e) ==
    /\ e \in DOMAIN attempts
    /\ attempts[e].count >= MaxLoginAttempts
    /\ attempts[e].age < LockoutDuration

\* Move client c's handler on.
Goto(c, pc) == req' = [req EXCEPT ![c].pc = pc]

-----------------------------------------------------------------------------
(* Clients.                                                                *)

\* POST /api/auth/login or /api/auth/register with a valid body, sent by
\* a client with no request in flight.
Send(c, pc, e, p) ==
    /\ req[c].pc = "idle"
    /\ sent < MaxRequests
    /\ sent' = sent + 1
    /\ req' = [req EXCEPT ![c] = [pc |-> pc, email |-> e, pw |-> p, ok |-> FALSE, id |-> 0]]
    /\ UNCHANGED <<users, attempts, session, boot, recent, promised>>

-----------------------------------------------------------------------------
(* AuthService::login, one action per await.                               *)

\* check_login_lockout under the read lock; a locked email gets an Err.
check_login_lockout(c) ==
    /\ req[c].pc = "check"
    /\ \/ LockedOut(req[c].email) /\ Goto(c, "idle")
       \/ ~LockedOut(req[c].email) /\ Goto(c, "verify")
    /\ UNCHANGED <<users, attempts, session, boot, sent, recent, promised>>

\* try_login: get_all, the oldest user with the email, its password hash
\* (none is an Err) and verify_password.  A failed check is recorded in
\* the history.
try_login(c) ==
    LET e  == req[c].email
        i  == find_by_email(e)
        ok == i # 0 /\ users[i].pw = req[c].pw
    IN /\ req[c].pc = "verify"
       /\ req' = [req EXCEPT ![c].pc = "update", ![c].ok = ok, ![c].id = i]
       /\ recent' = IF ok THEN recent ELSE [recent EXCEPT ![e] = Append(@, 0)]
       /\ UNCHANGED <<users, attempts, session, boot, sent, promised>>

\* Mutant: a failure refreshes the entry's time but forgets entry.0 += 1.
login_result_no_count(c) ==
    LET e == req[c].email
    IN /\ req[c].pc = "update"
       /\ \/ /\ req[c].ok
             /\ attempts' = [x \in DOMAIN attempts \ {e} |-> attempts[x]]
             /\ session' = [session EXCEPT ![c] = req[c].id]
             /\ recent' = [recent EXCEPT ![e] = <<>>]
          \/ /\ ~req[c].ok
             /\ attempts' = (e :> [count |-> IF e \in DOMAIN attempts
                                             THEN attempts[e].count ELSE 0,
                                   age |-> 0]) @@ attempts
             /\ UNCHANGED <<session, recent>>
       /\ Goto(c, "idle")
       /\ UNCHANGED <<users, boot, sent, promised>>

\* The write lock after try_login: success removes the email's entry and
\* the handler stores the user id in the session; failure inserts (0, now)
\* if absent, adds one and sets the time to now.
login_result(c) ==
    LET e == req[c].email
    IN /\ req[c].pc = "update"
       /\ \/ /\ req[c].ok
             /\ attempts' = [x \in DOMAIN attempts \ {e} |-> attempts[x]]
             /\ session' = [session EXCEPT ![c] = req[c].id]
             /\ recent' = [recent EXCEPT ![e] = <<>>]
          \/ /\ ~req[c].ok
             /\ attempts' = (e :> [count |-> IF e \in DOMAIN attempts
                                             THEN attempts[e].count + 1 ELSE 1,
                                   age |-> 0]) @@ attempts
             /\ UNCHANGED <<session, recent>>
       /\ Goto(c, "idle")
       /\ UNCHANGED <<users, boot, sent, promised>>

\* cleanup_old_login_attempts, run by the 15-minute interval task in main():
\* keep the entries whose last attempt is younger than the lockout.
cleanup_old_login_attempts ==
    /\ attempts' = [e \in {x \in DOMAIN attempts : attempts[x].age < LockoutDuration}
                      |-> attempts[e]]
    /\ UNCHANGED <<users, req, session, boot, sent, recent, promised>>

\* Time passes: every Instant ages by one tick (saturating), and failed
\* checks older than the lockout leave the history.
Tick ==
    LET Older(a) == IF a < LockoutDuration THEN a + 1 ELSE a
    IN /\ attempts' = [e \in DOMAIN attempts |-> [attempts[e] EXCEPT !.age = Older(@)]]
       /\ recent' = [e \in Emails |->
                       SelectSeq([i \in DOMAIN recent[e] |-> recent[e][i] + 1],
                                 LAMBDA a : a < LockoutDuration)]
       /\ UNCHANGED <<users, req, session, boot, sent, promised>>

-----------------------------------------------------------------------------
(* AuthService::register and UserService::create_user.                     *)

\* get_all, then: the email taken is an Err; otherwise the seed user, if
\* any, is claimed, else a new user is created.
register_read(c) ==
    LET e == req[c].email
    IN /\ req[c].pc = "regRead"
       /\ \/ find_by_email(e) # 0 /\ Goto(c, "idle")
          \/ /\ find_by_email(e) = 0 /\ find_seed # 0
             /\ req' = [req EXCEPT ![c].pc = "regClaim", ![c].id = find_seed]
          \/ find_by_email(e) = 0 /\ find_seed = 0 /\ Goto(c, "regCheck")
       /\ UNCHANGED <<users, attempts, session, boot, sent, recent, promised>>

\* The user row a registration writes: the new user, or the claimed seed
\* clone with the request's email and password hash set.
NewRow(c) == [email |-> req[c].email, pw |-> req[c].pw]

\* The registration answered Ok is recorded in the history.
Answer(c) == promised' = [promised EXCEPT ![req[c].email] = req[c].pw]

\* The claimed clone gets the request's email and password and
\* user_service.update writes it back whole; the handler stores its id in
\* the session and answers Ok.
register_claim(c) ==
    /\ req[c].pc = "regClaim"
    /\ users' = [users EXCEPT ![req[c].id] = NewRow(c)]
    /\ session' = [session EXCEPT ![c] = req[c].id]
    /\ Answer(c)
    /\ Goto(c, "idle")
    /\ UNCHANGED <<attempts, boot, sent, recent>>

\* create_user's get_one by email: an existing row is an Err.
create_user_check(c) ==
    /\ req[c].pc = "regCheck"
    /\ \/ find_by_email(req[c].email) # 0 /\ Goto(c, "idle")
       \/ find_by_email(req[c].email) = 0 /\ Goto(c, "regInsert")
    /\ UNCHANGED <<users, attempts, session, boot, sent, recent, promised>>

\* user_storage.create of the new row; register answers Ok and the handler stores the new id in the session.
create_user_insert(c) ==
    /\ req[c].pc = "regInsert"
    /\ users' = Append(users, NewRow(c))
    /\ session' = [session EXCEPT ![c] = Len(users) + 1]
    /\ Answer(c)
    /\ Goto(c, "idle")
    /\ UNCHANGED <<attempts, boot, sent, recent>>

-----------------------------------------------------------------------------
(* main() in bin/server.rs: the HTTP server is already serving when the   *)
(* first load reads the users table.                                       *)

\* get_all: an empty table is the first load.
StartupRead ==
    /\ boot = "serving"
    /\ boot' = IF users = <<>> THEN "seeding" ELSE "ready"
    /\ UNCHANGED <<users, attempts, req, session, sent, recent, promised>>

\* create_user(User::new(UserBase::new_seed())): its get_one on a fresh
\* uuid address finds nothing, so the seed row is inserted.
StartupSeed ==
    /\ boot = "seeding"
    /\ users' = Append(users, [email |-> SeedEmail, pw |-> NoPassword])
    /\ boot' = "ready"
    /\ UNCHANGED <<attempts, req, session, sent, recent, promised>>

-----------------------------------------------------------------------------
Next ==
    \/ \E c \in Clients, e \in Emails, p \in Passwords :
          Send(c, "check", e, p) \/ Send(c, "regRead", e, p)
    \/ \E c \in Clients :
          \/ check_login_lockout(c) \/ try_login(c) \/ login_result(c)
          \/ register_read(c) \/ register_claim(c)
          \/ create_user_check(c) \/ create_user_insert(c)
    \/ cleanup_old_login_attempts \/ Tick
    \/ StartupRead \/ StartupSeed

Spec == Init /\ [][Next]_vars

-----------------------------------------------------------------------------
(* Properties.                                                             *)

\* The lockout's promise: within any lockout window, an email sees at most
\* MAX_LOGIN_ATTEMPTS failed password checks since its last successful
\* login.  check_login_lockout reads the count under a read lock that is
\* released before try_login, and the failure is counted only afterwards.
LockoutWindow ==
    \A e \in Emails : Len(recent[e]) <= MaxLoginAttempts

\* Every email register answered Ok for still logs in with the password it
\* was registered with: try_login's oldest row with that email has it.
\* register claims the seed user or creates a row after separate reads.
CredentialsHonoured ==
    \A e \in Emails :
        promised[e] # NoPassword =>
            LET i == find_by_email(e) IN i # 0 /\ users[i].pw = promised[e]

====
