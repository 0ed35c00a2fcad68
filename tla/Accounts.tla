------------------------------- MODULE Accounts -------------------------------
(***************************************************************************)
(* Authentication, and the handlers that change accounts.  A request is    *)
(* authenticated with its Basic credentials, waits for a slot to compute   *)
(* a hash, and, when it changes an account, for a connection of the pool   *)
(* and for the advisory lock, under which its actor is checked again.      *)
(*                                                                         *)
(* One action is one statement, or one computation of a hash.  A stored    *)
(* hash is represented by its password: its salt only makes it differ from *)
(* an earlier hash of the same password.                                   *)
(***************************************************************************)
EXTENDS Naturals, FiniteSets

CONSTANTS
    Users,       \* names
    Passwords,
    Placeholder, \* what a migrated account has in place of a hash
    NoProof,     \* the cache has no entry
    Requests,
    Orders,      \* what a request may ask for
    Slots,       \* AUTH_SCRYPT_CONCURRENCY
    PoolSizes,   \* sizes of the pool
    MaxScripts   \* bound: runs of create_user.py and rotate_password.sh

Kinds == {"use", "create", "update", "reset", "own"}
Flags == {"yes", "no", "keep"}

\* Of a body the fields of its kind count: admin and disabled of "update" (a field that
\* is left out is "keep"), new and admin of "create", new of "reset", new and current
\* of "own".  A request of the kind "use" changes no account; with admin "yes" its route
\* is one of withAdmin.
Bodies == [kind : Kinds, target : Users, new : Passwords, current : Passwords,
           admin : Flags, disabled : Flags]

ASSUME OrderAssumption == Orders \subseteq Bodies

ASSUME AccountAssumption ==
    /\ Placeholder \notin Passwords
    /\ NoProof \notin Passwords \cup {Placeholder}
    /\ Slots \in Nat \ {0} /\ PoolSizes \subseteq Nat \ {0} /\ MaxScripts \in Nat
    /\ IsFiniteSet(Requests)

VARIABLES
    members, admins, disabled, password, \* the user table
    cache,      \* authCache: the hash a password was found to match, by its key
    at,         \* the point a request has reached
    user, secret, order, \* its credentials and what it asks for
    connections, \* the size of the pool, from the environment of the service
    entry,      \* the entry of the cache that authenticate found
    seen, privileged, \* password and privileges of the row it read last
    hashing,    \* the requests that hold a slot of scryptSem
    scripts     \* runs of scripts so far

account == <<members, admins, disabled, password>>
given == <<user, secret, order, connections>> \* no step changes these
memory == <<entry, seen, privileged>>
vars == <<account, cache, at, given, memory, hashing, scripts>>

Table == INSTANCE AccountTable

\* The points at which a request computes a hash; at which its transaction is open;
\* at which it holds the advisory lock.
Computing == {"proving", "hashing", "rechecking", "confirming"}
Guarded == {"reading", "rechecking", "deciding", "confirming", "committing"}
Connected == {"locking"} \cup Guarded
Asking == {"lookup", "beginning"} \cup Connected \cup Computing

Init ==
    /\ Table!Init
    /\ cache = [key \in Users \X Passwords |-> NoProof]
    /\ at = [r \in Requests |-> "none"]
    /\ user \in [Requests -> Users]
    /\ secret \in [Requests -> Passwords]
    /\ order \in [Requests -> Orders]
    /\ connections \in PoolSizes
    /\ entry = [r \in Requests |-> NoProof]
    /\ seen = [r \in Requests |-> NoProof]
    /\ privileged = [r \in Requests |-> FALSE]
    /\ hashing = {}
    /\ scripts = 0

------------------------------------------------------------------------------
\* State formulae.

Active(u) == u \in members \ disabled

Own(r) == order[r].kind = "own"

\* The route of r is one of withAdmin.
NeedsAdmin(r) ==
    \/ order[r].kind \in {"create", "update", "reset"}
    \/ order[r].kind = "use" /\ order[r].admin = "yes"

\* The account that r changes.
Target(r) == IF Own(r) THEN user[r] ELSE order[r].target

\* Somebody holds the advisory lock.
Locked == \E r \in Requests : at[r] \in Guarded

\* The pool has a connection left.
Available == Cardinality({r \in Requests : at[r] \in Connected}) < connections

\* A set of flagged accounts after a request of r put Target(r) in, took it out, or left it.
Flagged(S, flag, r) ==
    IF flag = "yes" THEN S \cup {Target(r)}
    ELSE IF flag = "no" THEN S \ {Target(r)} ELSE S

NewAdmins(r) == Flagged(admins, order[r].admin, r)
NewDisabled(r) == Flagged(disabled, order[r].disabled, r)

\* An account whose password is a placeholder is not reactivated.
Revivable(r) == Target(r) \in disabled \ NewDisabled(r) => password[Target(r)] # Placeholder

\* An active administrator is demoted or disabled only when another one remains.
AdminLeft(r) ==
    LET u == Target(r) IN
    (/\ u \in admins /\ Active(u)
     /\ u \notin NewAdmins(r) \/ u \in NewDisabled(r))
        => \E v \in admins \ {u} : Active(v)

\* Bug: the account need not exist.
AllowedWithout404(r) ==
    \/ order[r].kind = "create"
    \/ order[r].kind = "update" /\ Revivable(r) /\ AdminLeft(r)
    \/ order[r].kind \in {"reset", "own"}

\* Bug: an account that waits for a password reset can be reactivated.
AllowedRevival(r) ==
    \/ order[r].kind = "create" /\ Target(r) \notin members
    \/ order[r].kind = "update" /\ Target(r) \in members /\ AdminLeft(r)
    \/ order[r].kind \in {"reset", "own"} /\ Target(r) \in members

\* The row that r reads under the lock, or does not find, lets it go on.
Allowed(r) ==
    \/ order[r].kind = "create" /\ Target(r) \notin members
    \/ order[r].kind = "update" /\ Target(r) \in members /\ Revivable(r) /\ AdminLeft(r)
    \/ order[r].kind \in {"reset", "own"} /\ Target(r) \in members

------------------------------------------------------------------------------
\* Next-state formulae.

GoTo(r, point) == at' = [at EXCEPT ![r] = point]

\* After authentication, withAdmin and the handler: who may not is refused; a new
\* password is hashed before the transaction begins.
Admit(r) ==
    IF NeedsAdmin(r) /\ ~ privileged'[r] THEN GoTo(r, "refused")
    ELSE \/ order[r].kind = "use" /\ GoTo(r, "done")
         \/ order[r].kind = "update" /\ GoTo(r, "beginning")
         \/ order[r].kind \in {"create", "reset", "own"} /\ GoTo(r, "hashing")

\* r reads the row of its own account.
SeeActor(r) ==
    /\ seen' = [seen EXCEPT ![r] = password[user[r]]]
    /\ privileged' = [privileged EXCEPT ![r] = user[r] \in admins]
    /\ UNCHANGED entry

\* The hash is computed and the slot given back.
Release(r) == r \in hashing /\ hashing' = hashing \ {r}

------------------------------------------------------------------------------
\* authenticate

\* The request arrives, and the cache is looked at.
Arrive(r) ==
    /\ at[r] = "none"
    /\ entry' = [entry EXCEPT ![r] = cache[<<user[r], secret[r]>>]]
    /\ GoTo(r, "lookup")
    /\ UNCHANGED <<account, cache, given, seen, privileged, hashing, scripts>>

\* Bug: an entry of the cache is trusted whatever hash is stored by now.
LookupTrusting(r) ==
    /\ at[r] = "lookup" /\ Available
    /\ IF Active(user[r])
       THEN /\ SeeActor(r)
            /\ IF entry[r] # NoProof THEN Admit(r) ELSE GoTo(r, "proving")
       ELSE GoTo(r, "refused") /\ UNCHANGED memory
    /\ UNCHANGED <<account, cache, given, hashing, scripts>>

\* The account is read; an entry of the cache counts while it has the stored hash.
Lookup(r) ==
    /\ at[r] = "lookup" /\ Available
    /\ IF Active(user[r])
       THEN /\ SeeActor(r)
            /\ IF entry[r] = password[user[r]] THEN Admit(r) ELSE GoTo(r, "proving")
       ELSE GoTo(r, "refused") /\ UNCHANGED memory
    /\ UNCHANGED <<account, cache, given, hashing, scripts>>

TakeSlot(r) ==
    /\ at[r] \in Computing /\ r \notin hashing
    /\ Cardinality(hashing) < Slots
    /\ hashing' = hashing \cup {r}
    /\ UNCHANGED <<account, cache, at, given, memory, scripts>>

\* verifyPassword of authenticate; what it proves is kept in the cache.
Prove(r) ==
    /\ at[r] = "proving" /\ Release(r)
    /\ UNCHANGED memory
    /\ IF seen[r] = secret[r]
       THEN cache' = [cache EXCEPT ![<<user[r], secret[r]>>] = seen[r]] /\ Admit(r)
       ELSE GoTo(r, "refused") /\ UNCHANGED cache
    /\ UNCHANGED <<account, given, scripts>>

\* An entry runs out after authTTL.
Expire(u, s) ==
    /\ cache[<<u, s>>] # NoProof
    /\ cache' = [cache EXCEPT ![<<u, s>>] = NoProof]
    /\ UNCHANGED <<account, at, given, memory, hashing, scripts>>

------------------------------------------------------------------------------
\* hashPassword, beginAccountChange, and the handlers that change an account.

Hash(r) ==
    /\ at[r] = "hashing" /\ Release(r)
    /\ GoTo(r, "beginning")
    /\ UNCHANGED <<account, cache, given, memory, scripts>>

Begin(r) ==
    /\ at[r] = "beginning" /\ Available
    /\ GoTo(r, "locking")
    /\ UNCHANGED <<account, cache, given, memory, hashing, scripts>>

\* Bug: the changes of accounts are not serialized.
LockShared(r) ==
    /\ at[r] = "locking"
    /\ GoTo(r, "reading")
    /\ UNCHANGED <<account, cache, given, memory, hashing, scripts>>

\* pg_advisory_xact_lock
Lock(r) ==
    /\ at[r] = "locking" /\ ~ Locked
    /\ GoTo(r, "reading")
    /\ UNCHANGED <<account, cache, given, memory, hashing, scripts>>

\* Bug: the row is read with another connection of the pool, beside the transaction.
ReadApart(r) ==
    /\ at[r] = "reading" /\ Available
    /\ IF Active(user[r])
       THEN SeeActor(r) /\ GoTo(r, "rechecking")
       ELSE GoTo(r, "refused") /\ UNCHANGED memory
    /\ UNCHANGED <<account, cache, given, hashing, scripts>>

\* The actor's row is read again.
Read(r) ==
    /\ at[r] = "reading"
    /\ IF Active(user[r])
       THEN SeeActor(r) /\ GoTo(r, "rechecking")
       ELSE GoTo(r, "refused") /\ UNCHANGED memory
    /\ UNCHANGED <<account, cache, given, hashing, scripts>>

\* Bug: the actor's password is not checked again.
RecheckRole(r) ==
    /\ at[r] = "rechecking" /\ Release(r)
    /\ GoTo(r, IF Own(r) \/ privileged[r] THEN "deciding" ELSE "refused")
    /\ UNCHANGED <<account, cache, given, memory, scripts>>

\* The actor's password and privileges are checked again.
Recheck(r) ==
    /\ at[r] = "rechecking" /\ Release(r)
    /\ GoTo(r, IF seen[r] = secret[r] /\ (Own(r) \/ privileged[r])
               THEN "deciding" ELSE "refused")
    /\ UNCHANGED <<account, cache, given, memory, scripts>>

\* The row of the account to be changed is read and locked.
Decide(r) ==
    /\ at[r] = "deciding"
    /\ IF Allowed(r)
       THEN GoTo(r, IF Own(r) THEN "confirming" ELSE "committing")
       ELSE GoTo(r, "refused")
    /\ seen' = [seen EXCEPT ![r] = IF Own(r) THEN password[user[r]] ELSE @]
    /\ UNCHANGED <<account, cache, given, entry, privileged, hashing, scripts>>

\* An own change names the current password.
Confirm(r) ==
    /\ at[r] = "confirming" /\ Release(r)
    /\ GoTo(r, IF seen[r] = order[r].current THEN "committing" ELSE "refused")
    /\ UNCHANGED <<account, cache, given, memory, scripts>>

\* The change and its commit, which gives the lock and the connection back.
Commit(r) ==
    /\ at[r] = "committing"
    /\ \/ /\ order[r].kind = "create"
          /\ Table!Create(Target(r), order[r].new, order[r].admin = "yes")
       \/ /\ order[r].kind = "update"
          /\ admins' = NewAdmins(r) /\ disabled' = NewDisabled(r)
          /\ UNCHANGED <<members, password>>
       \/ /\ order[r].kind \in {"reset", "own"}
          /\ Table!SetPassword(Target(r), order[r].new)
    /\ GoTo(r, "done")
    /\ UNCHANGED <<cache, given, memory, hashing, scripts>>

\* A statement fails, or the client has gone: the transaction is rolled back.
Drop(r) ==
    /\ at[r] \in {"lookup", "beginning"} \cup (Connected \ Computing)
    /\ GoTo(r, "refused")
    /\ UNCHANGED <<account, cache, given, memory, hashing, scripts>>

------------------------------------------------------------------------------
\* create_user.py and rotate_password.sh, which take the same advisory lock.

Script(u) ==
    /\ scripts < MaxScripts /\ scripts' = scripts + 1
    /\ ~ Locked
    /\ \E new \in Passwords : \/ \E role \in BOOLEAN : Table!Create(u, new, role)
                              \/ Table!SetPassword(u, new)
    /\ UNCHANGED <<cache, at, given, memory, hashing>>

Handle(r) ==
    \/ Lookup(r) \/ TakeSlot(r) \/ Prove(r)
    \/ Hash(r) \/ Begin(r) \/ Lock(r) \/ Read(r) \/ Recheck(r)
    \/ Decide(r) \/ Confirm(r) \/ Commit(r)

Next ==
    \/ \E r \in Requests : Arrive(r) \/ Handle(r) \/ Drop(r)
    \/ \E u \in Users : Script(u) \/ \E s \in Passwords : Expire(u, s)

Spec == Init /\ [][Next]_vars

\* The goroutine of a request runs while it can.
Fairness == \A r \in Requests : WF_vars(Handle(r))

FairSpec == Spec /\ Fairness

------------------------------------------------------------------------------
\* Properties.

\* The rows, the cache and the requests have the shape their types allow: only members
\* have flags, and no more hashes are computed at a time than there are slots.
TypeOK ==
    /\ members \in SUBSET Users
    /\ admins \in SUBSET members
    /\ disabled \in SUBSET members
    /\ password \in [Users -> Passwords \cup {Placeholder}]
    /\ cache \in [Users \X Passwords -> Passwords \cup {NoProof}]
    /\ at \in [Requests -> {"none", "done", "refused"} \cup Asking]
    /\ user \in [Requests -> Users]
    /\ secret \in [Requests -> Passwords]
    /\ order \in [Requests -> Orders]
    /\ connections \in PoolSizes
    /\ entry \in [Requests -> Passwords \cup {NoProof}]
    /\ seen \in [Requests -> Passwords \cup {Placeholder, NoProof}]
    /\ privileged \in [Requests -> BOOLEAN]
    /\ hashing \in SUBSET Requests /\ Cardinality(hashing) <= Slots
    /\ scripts \in 0 .. MaxScripts

\* However many administrators demote and disable each other at the same time, one
\* that is active remains (updateUser, beginAccountChange).
AdminRemains == Table!ActiveAdmins # {}

\* When a change of an account commits, its actor is active, still has the password the
\* request came with, and is an administrator or changes his own password, although
\* all that was checked some steps before (beginAccountChange).
ActorStillMay ==
    [][\A r \in Requests : (at[r] = "committing" /\ at'[r] = "done") =>
          /\ Active(user[r]) /\ password[user[r]] = secret[r]
          /\ Own(r) \/ user[r] \in admins]_vars

\* A request is let in only with the password that was stored when its account was
\* read, whether the cache or a hash said so, and whatever changed before or since
\* (authenticate).
OldPasswordsFail ==
    [][\A r \in Requests :
          (at[r] \in {"lookup", "proving"} /\ at'[r] \in {"hashing", "beginning", "done"})
             => seen'[r] = secret[r]]_vars

\* Requests, waiting for slots, connections and the lock, never wait for ever on each
\* other, although the one that holds the lock waits for a slot, and one that waits for
\* the lock may hold the last connection (scryptSem, the pool, pg_advisory_xact_lock).
RequestsEnd == \A r \in Requests : at[r] \in Asking ~> at[r] \in {"done", "refused"}

\* The user table keeps the promise of AccountTable (createUser, updateUser,
\* setAccountPassword and the scripts).
ImplementsAccountTable == Table!Spec
===============================================================================
