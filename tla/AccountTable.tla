----------------------------- MODULE AccountTable -----------------------------
(***************************************************************************)
(* What the user table promises, whoever changes it: one account changes   *)
(* at a time, an active administrator always remains, and an account       *)
(* without a password is never active.                                     *)
(***************************************************************************)
CONSTANTS
    Users,      \* names
    Passwords,
    Placeholder \* what a migrated account has in place of a hash

VARIABLES
    members,    \* the names that have an account
    admins,     \* the members with privileges = 'admin'
    disabled,   \* the members with banned = TRUE
    password    \* the password whose hash is stored

account == <<members, admins, disabled, password>>

Active == members \ disabled
ActiveAdmins == admins \cap Active

\* A migrated account has no password, no privileges, and is disabled.
Init ==
    /\ members \in SUBSET Users
    /\ admins \in SUBSET members
    /\ disabled \in SUBSET members
    /\ ActiveAdmins # {}
    /\ password \in [Users -> Passwords \cup {Placeholder}]
    /\ \A u \in admins \cup Active : password[u] # Placeholder
    /\ \A u \in Users \ members : password[u] = Placeholder

\* createUser, create_user.py
Create(u, new, privileged) ==
    /\ u \notin members
    /\ members' = members \cup {u}
    /\ admins' = IF privileged THEN admins \cup {u} ELSE admins
    /\ password' = [password EXCEPT ![u] = new]
    /\ UNCHANGED disabled

\* updateUser
Update(u, newAdmins, newDisabled) ==
    /\ u \in members
    /\ u \in disabled \ newDisabled => password[u] # Placeholder
    /\ newAdmins \cap (members \ newDisabled) # {}
    /\ admins' = newAdmins
    /\ disabled' = newDisabled
    /\ UNCHANGED <<members, password>>

\* setAccountPassword, rotate_password.sh
SetPassword(u, new) ==
    /\ u \in members
    /\ password' = [password EXCEPT ![u] = new]
    /\ UNCHANGED <<members, admins, disabled>>

\* The values a set takes when u is put in, taken out, or left.
With(S, u) == {S, S \cup {u}, S \ {u}}

Next ==
    \E u \in Users :
        \/ \E new \in Passwords, privileged \in BOOLEAN : Create(u, new, privileged)
        \/ \E A \in With(admins, u), D \in With(disabled, u) : Update(u, A, D)
        \/ \E new \in Passwords : SetPassword(u, new)

Spec == Init /\ [][Next]_account
===============================================================================
