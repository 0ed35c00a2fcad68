------------------------------ MODULE MCAccounts ------------------------------
(***************************************************************************)
(* Two names, two passwords and two requests that bear on each other: they *)
(* demote, disable, reset and revive the accounts that they come from.     *)
(***************************************************************************)
EXTENDS Accounts, SequencesExt

CONSTANTS a, b, p, q, r1, r2

Body(kind, u, new, role, off) ==
    [kind |-> kind, target |-> u, new |-> new, current |-> p, admin |-> role, disabled |-> off]

OrderSeq == <<
    Body("use", a, p, "yes", "keep"),
    Body("create", b, p, "yes", "keep"),
    Body("update", a, p, "no", "keep"),
    Body("update", b, p, "keep", "yes"),
    Body("update", b, p, "keep", "no"),
    Body("reset", a, q, "keep", "keep"),
    Body("own", a, q, "keep", "keep")>>

MCOrders == ToSet(OrderSeq)

Place(o) == CHOOSE i \in DOMAIN OrderSeq : OrderSeq[i] = o

\* By the symmetry of the names and passwords a is the administrator that is active, and
\* his password is p; by that of the requests r1 has the order that stands first.
\* Two requests of b alone, or two with wrong passwords, are left out.
\* A pool of one connection, which is about waiting, is for two administrators that give
\* their passwords.
MCInit ==
    /\ Init
    /\ a \in admins \ disabled /\ password[a] = p /\ password[b] # q
    /\ \E r \in Requests : user[r] = a
    /\ \E r \in Requests : secret[r] = password[user[r]]
    /\ Place(order[r1]) <= Place(order[r2])
    /\ connections = 1 =>
           /\ b \in admins \ disabled
           /\ \A r \in Requests : secret[r] = password[user[r]]

MCSpec == MCInit /\ [][Next]_vars /\ Fairness
===============================================================================
