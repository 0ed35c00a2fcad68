---------------------------- MODULE AccountsProofs ----------------------------
(***************************************************************************)
(* Proofs about Accounts, for any users, passwords, requests, slots and    *)
(* connections.                                                            *)
(*                                                                         *)
(* What a request read under the advisory lock stays true until it has     *)
(* committed, because nobody else changes an account in between: the lock  *)
(* is held by one request (Exclusive), so its actor is still the one that  *)
(* was rechecked (ActorFresh) and its change is still one that the row     *)
(* allows (StillAllowed).  Outside of the lock, the cache never has a hash *)
(* under a key whose password it does not match (CacheHonest).             *)
(***************************************************************************)
EXTENDS Accounts, FiniteSetTheorems, TLAPS

\* One request at a time holds the advisory lock.
Exclusive == \A r, s \in Requests : at[r] \in Guarded /\ at[s] \in Guarded => r = s

\* r has found its actor active, with the password and privileges that it needs.
Entitled(r) ==
    /\ Active(user[r]) /\ password[user[r]] = secret[r]
    /\ Own(r) \/ user[r] \in admins

\* The actor's row is as it was read, and what was found of it holds.
ActorFresh ==
    \A r \in Requests :
        /\ at[r] = "rechecking" =>
              /\ Active(user[r]) /\ seen[r] = password[user[r]]
              /\ privileged[r] => user[r] \in admins
        /\ at[r] \in {"deciding", "confirming", "committing"} => Entitled(r)

\* The row of the account to be changed still allows the change.
StillAllowed ==
    \A r \in Requests : at[r] \in {"confirming", "committing"} => Allowed(r)

\* A hash in the cache matches the password of its key, and so does the one found there.
CacheHonest ==
    /\ \A u \in Users, s \in Passwords : cache[<<u, s>>] \in {NoProof, s}
    /\ \A r \in Requests : entry[r] \in {NoProof, secret[r]}

IInv == TypeOK /\ AdminRemains /\ Exclusive /\ ActorFresh /\ StillAllowed /\ CacheHonest

\* r goes to one of these points.
Moves(r, points) == \E point \in points : GoTo(r, point)

Points == {"none", "done", "refused"} \cup Asking

------------------------------------------------------------------------------
\* The kind of a request is one of Kinds.
LEMMA KindOfOrder ==
    ASSUME TypeOK, NEW r \in Requests
    PROVE  /\ order[r] \in Bodies /\ order[r].kind \in Kinds
           /\ order[r].new \in Passwords /\ Target(r) \in Users
           /\ order[r].admin \in Flags /\ order[r].disabled \in Flags
BY OrderAssumption DEF TypeOK, Bodies, Target

\* A request that has been authenticated ends, hashes a password, or begins a change.
LEMMA Admitted ==
    ASSUME TypeOK, NEW r \in Requests, Admit(r)
    PROVE  Moves(r, {"refused", "done", "beginning", "hashing"})
BY KindOfOrder DEF Admit, Moves, GoTo, Kinds

\* What the actions of a request do to its point.
LEMMA Shape ==
    ASSUME TypeOK, NEW r \in Requests
    PROVE  /\ Arrive(r) => at[r] = "none" /\ Moves(r, {"lookup"})
           /\ Lookup(r) => /\ at[r] = "lookup"
                           /\ Moves(r, {"proving", "refused", "done", "beginning", "hashing"})
           /\ Prove(r) => /\ at[r] = "proving"
                          /\ Moves(r, {"refused", "done", "beginning", "hashing"})
           /\ Hash(r) => at[r] = "hashing" /\ Moves(r, {"beginning"})
           /\ Begin(r) => at[r] = "beginning" /\ Moves(r, {"locking"})
           /\ Lock(r) => at[r] = "locking" /\ ~ Locked /\ Moves(r, {"reading"})
           /\ Read(r) => at[r] = "reading" /\ Moves(r, {"rechecking", "refused"})
           /\ Recheck(r) => at[r] = "rechecking" /\ Moves(r, {"deciding", "refused"})
           /\ Decide(r) => /\ at[r] = "deciding"
                           /\ Moves(r, {"confirming", "committing", "refused"})
           /\ Confirm(r) => at[r] = "confirming" /\ Moves(r, {"committing", "refused"})
           /\ Commit(r) => at[r] = "committing" /\ Moves(r, {"done"})
           /\ Drop(r) => Moves(r, {"refused"})
<1>1. Lookup(r) => /\ at[r] = "lookup"
                   /\ Moves(r, {"proving", "refused", "done", "beginning", "hashing"})
  BY Admitted DEF Lookup, Moves, GoTo
<1>2. Prove(r) => /\ at[r] = "proving"
                  /\ Moves(r, {"refused", "done", "beginning", "hashing"})
  BY Admitted DEF Prove, Moves, GoTo
<1>3. /\ Arrive(r) => at[r] = "none" /\ Moves(r, {"lookup"})
      /\ Hash(r) => at[r] = "hashing" /\ Moves(r, {"beginning"})
      /\ Begin(r) => at[r] = "beginning" /\ Moves(r, {"locking"})
      /\ Lock(r) => at[r] = "locking" /\ ~ Locked /\ Moves(r, {"reading"})
  BY DEF Arrive, Hash, Begin, Lock, Moves, GoTo
<1>4. /\ Read(r) => at[r] = "reading" /\ Moves(r, {"rechecking", "refused"})
      /\ Recheck(r) => at[r] = "rechecking" /\ Moves(r, {"deciding", "refused"})
  BY DEF Read, Recheck, Moves, GoTo
<1>5. /\ Decide(r) => /\ at[r] = "deciding"
                      /\ Moves(r, {"confirming", "committing", "refused"})
      /\ Confirm(r) => at[r] = "confirming" /\ Moves(r, {"committing", "refused"})
  BY DEF Decide, Confirm, Moves, GoTo
<1>6. /\ Commit(r) => at[r] = "committing" /\ Moves(r, {"done"})
      /\ Drop(r) => Moves(r, {"refused"})
  BY DEF Commit, Drop, Moves, GoTo
<1> QED
  BY <1>1, <1>2, <1>3, <1>4, <1>5, <1>6

\* A step that moves r leaves the points of the others alone.
LEMMA MovesOnlyOne ==
    ASSUME TypeOK, NEW r \in Requests, NEW points \in SUBSET Points, Moves(r, points)
    PROVE  /\ at' \in [Requests -> Points]
           /\ at'[r] \in points
           /\ \A s \in Requests \ {r} : at'[s] = at[s]
BY DEF TypeOK, Moves, GoTo, Points

------------------------------------------------------------------------------
\* The lock

\* A step keeps the lock with one request: it is taken only when nobody has it.
LEMMA LockStep ==
    ASSUME TypeOK, Exclusive, [Next]_vars
    PROVE  Exclusive'
<1> USE DEF Guarded
<1>1. ASSUME NEW r \in Requests, NEW points \in SUBSET Points, Moves(r, points),
             at[r] \in Guarded \/ points \cap Guarded = {} \/ ~ Locked
      PROVE  Exclusive'
  BY <1>1, MovesOnlyOne DEF Exclusive, Locked
<1>2. CASE at' = at
  BY <1>2 DEF Exclusive
<1>3. ASSUME NEW r \in Requests, Arrive(r) \/ Handle(r) \/ Drop(r)
      PROVE  Exclusive'
  <2> USE DEF Points, Asking, Connected, Computing
  <2>1. CASE TakeSlot(r)
    BY <2>1, <1>2 DEF TakeSlot
  <2>2. CASE Arrive(r) \/ Lookup(r) \/ Prove(r)
    BY <2>2, <1>1, Shape
  <2>3. CASE Hash(r) \/ Begin(r) \/ Drop(r)
    BY <2>3, <1>1, Shape
  <2>4. CASE Lock(r)
    BY <2>4, <1>1, Shape
  <2>5. CASE Read(r) \/ Recheck(r) \/ Decide(r) \/ Confirm(r) \/ Commit(r)
    BY <2>5, <1>1, Shape
  <2> QED
    BY <1>3, <2>1, <2>2, <2>3, <2>4, <2>5 DEF Handle
<1>4. ASSUME NEW u \in Users, Script(u) \/ \E s \in Passwords : Expire(u, s)
      PROVE  Exclusive'
  BY <1>4, <1>2 DEF Script, Expire
<1> QED
  BY <1>2, <1>3, <1>4 DEF Next, vars

------------------------------------------------------------------------------
\* What holds under the lock

\* Only a step of r itself moves r.
LEMMA MovedByItself ==
    ASSUME TypeOK, [Next]_vars, NEW r \in Requests, at'[r] # at[r]
    PROVE  Arrive(r) \/ Handle(r) \/ Drop(r)
<1> USE DEF Points, Asking, Connected, Guarded, Computing
<1>1. ASSUME NEW s \in Requests, Arrive(s) \/ Handle(s) \/ Drop(s)
      PROVE  s = r
  <2>1. CASE TakeSlot(s)
    BY <2>1 DEF TakeSlot
  <2>2. CASE Arrive(s) \/ Lookup(s) \/ Prove(s) \/ Hash(s) \/ Begin(s) \/ Drop(s)
    BY <2>2, MovesOnlyOne, Shape
  <2>3. CASE Lock(s) \/ Read(s) \/ Recheck(s) \/ Decide(s) \/ Confirm(s) \/ Commit(s)
    BY <2>3, MovesOnlyOne, Shape
  <2> QED
    BY <1>1, <2>1, <2>2, <2>3 DEF Handle
<1>2. ASSUME NEW u \in Users, Script(u) \/ \E s \in Passwords : Expire(u, s)
      PROVE  FALSE
  BY <1>2 DEF Script, Expire
<1> QED
  BY <1>1, <1>2 DEF Next, vars

\* What a request asks for never changes; accounts change in Commit and Script only.
LEMMA Constancy ==
    ASSUME TypeOK, [Next]_vars
    PROVE  /\ UNCHANGED given
           /\ \/ UNCHANGED account
              \/ \E r \in Requests : Commit(r)
              \/ ~ Locked /\ \E u \in Users : Script(u)
<1>1. ASSUME NEW r \in Requests, Arrive(r) \/ Handle(r) \/ Drop(r)
      PROVE  UNCHANGED given /\ (UNCHANGED account \/ Commit(r))
  <2>1. CASE Arrive(r) \/ Lookup(r) \/ TakeSlot(r) \/ Prove(r) \/ Hash(r) \/ Begin(r)
    BY <2>1 DEF Arrive, Lookup, TakeSlot, Prove, Hash, Begin
  <2>2. CASE Lock(r) \/ Read(r) \/ Recheck(r) \/ Decide(r) \/ Confirm(r) \/ Drop(r)
    BY <2>2 DEF Lock, Read, Recheck, Decide, Confirm, Drop
  <2>3. CASE Commit(r)
    BY <2>3 DEF Commit
  <2> QED
    BY <1>1, <2>1, <2>2, <2>3 DEF Handle
<1>2. ASSUME NEW u \in Users, Script(u)
      PROVE  UNCHANGED given /\ ~ Locked
  BY <1>2 DEF Script
<1>3. ASSUME NEW u \in Users, NEW s \in Passwords, Expire(u, s)
      PROVE  UNCHANGED <<given, account>>
  BY <1>3 DEF Expire
<1> QED
  BY <1>1, <1>2, <1>3 DEF Next, vars

\* The row that r read last is overwritten only by a step of r that reads one.
LEMMA Remembered ==
    ASSUME TypeOK, [Next]_vars, NEW r \in Requests,
           ~ (Lookup(r) \/ Read(r) \/ Decide(r))
    PROVE  seen'[r] = seen[r] /\ privileged'[r] = privileged[r]
<1>1. ASSUME NEW s \in Requests, Arrive(s) \/ Handle(s) \/ Drop(s)
      PROVE  seen'[r] = seen[r] /\ privileged'[r] = privileged[r]
  <2>1. CASE Arrive(s) \/ TakeSlot(s) \/ Prove(s) \/ Hash(s) \/ Begin(s) \/ Lock(s)
    BY <2>1 DEF Arrive, TakeSlot, Prove, Hash, Begin, Lock, memory
  <2>2. CASE Recheck(s) \/ Confirm(s) \/ Commit(s) \/ Drop(s)
    BY <2>2 DEF Recheck, Confirm, Commit, Drop, memory
  <2>3. CASE Lookup(s) \/ Read(s) \/ Decide(s)
    BY <2>3 DEF TypeOK, Lookup, Read, Decide, SeeActor, memory
  <2> QED
    BY <1>1, <2>1, <2>2, <2>3 DEF Handle
<1>2. ASSUME NEW u \in Users, Script(u) \/ \E s \in Passwords : Expire(u, s)
      PROVE  seen' = seen /\ privileged' = privileged
  BY <1>2 DEF Script, Expire, memory
<1> QED
  BY <1>1, <1>2 DEF Next, vars, memory

\* While r holds the lock and has not committed, no account changes.
LEMMA AccountsRest ==
    ASSUME TypeOK, Exclusive, [Next]_vars, NEW r \in Requests,
           at[r] \in Guarded, ~ Commit(r)
    PROVE  UNCHANGED account
<1>1. ASSUME NEW s \in Requests, Commit(s)
      PROVE  FALSE
  BY <1>1 DEF Exclusive, Commit, Guarded
<1> QED
  BY <1>1, Constancy DEF Locked

\* What holds of accounts and of what a request asks for is kept by what keeps both.
LEMMA EntitledAgain ==
    ASSUME TypeOK, NEW r \in Requests, UNCHANGED <<account, given>>
    PROVE  (Entitled(r) => Entitled(r)') /\ (Allowed(r) => Allowed(r)')
BY DEF account, given, Entitled, Allowed, Active, Own, Revivable, AdminLeft, Target,
       NewAdmins, NewDisabled, Flagged

\* What was read of the actor under the lock stays true.
LEMMA FreshStep ==
    ASSUME TypeOK, Exclusive, ActorFresh, [Next]_vars
    PROVE  ActorFresh'
<1> SUFFICES ASSUME NEW r \in Requests,
                    at'[r] \in {"rechecking", "deciding", "confirming", "committing"}
             PROVE  /\ at'[r] = "rechecking" =>
                          /\ Active(user[r])' /\ seen'[r] = password'[user'[r]]
                          /\ privileged'[r] => user'[r] \in admins'
                    /\ at'[r] \in {"deciding", "confirming", "committing"} => Entitled(r)'
  BY DEF ActorFresh
<1> USE DEF Guarded
<1>1. CASE at'[r] = at[r]
  <2>1. ~ Commit(r) /\ ~ Lookup(r) /\ ~ Read(r) /\ ~ Decide(r)
    BY <1>1, Shape, MovesOnlyOne DEF Points, Asking, Connected, Computing
  <2>2. UNCHANGED <<account, given>> /\ seen'[r] = seen[r] /\ privileged'[r] = privileged[r]
    BY <1>1, <2>1, AccountsRest, Constancy, Remembered
  <2> QED
    BY <1>1, <2>2, EntitledAgain DEF ActorFresh, Active, account, given
<1>2. CASE at'[r] # at[r]
  <2> USE DEF Points, Asking, Connected, Computing
  <2>1. Read(r) \/ Recheck(r) \/ Decide(r) \/ Confirm(r)
    <3>1. Arrive(r) \/ Handle(r) \/ Drop(r)
      BY <1>2, MovedByItself
    <3>2. ~ Arrive(r) /\ ~ Lookup(r) /\ ~ Prove(r) /\ ~ Hash(r) /\ ~ Begin(r)
      BY Shape, MovesOnlyOne
    <3>3. ~ Lock(r) /\ ~ Commit(r) /\ ~ Drop(r) /\ ~ TakeSlot(r)
      BY <1>2, Shape, MovesOnlyOne DEF TakeSlot
    <3> QED
      BY <3>1, <3>2, <3>3 DEF Handle
  <2>2. UNCHANGED <<account, given>>
    BY <2>1 DEF Read, Recheck, Decide, Confirm
  <2>3. CASE Read(r)
    <3>1. at'[r] = "rechecking"
      BY <2>3, Shape, MovesOnlyOne
    <3>2. Active(user[r]) /\ seen'[r] = password[user[r]] /\ privileged'[r] = (user[r] \in admins)
      BY <2>3, <3>1 DEF Read, SeeActor, GoTo, TypeOK
    <3> QED
      BY <2>2, <3>1, <3>2 DEF Active, account, given
  <2>4. CASE Recheck(r)
    <3>1. at[r] = "rechecking" /\ at'[r] = "deciding"
      BY <2>4, Shape, MovesOnlyOne
    <3>2. Entitled(r)
      BY <2>4, <3>1 DEF Recheck, GoTo, TypeOK, ActorFresh, Entitled
    <3> QED
      BY <2>2, <3>1, <3>2, EntitledAgain
  <2>5. CASE Decide(r) \/ Confirm(r)
    <3>1. at[r] \in {"deciding", "confirming"} /\ at'[r] \in {"confirming", "committing"}
      BY <2>5, Shape, MovesOnlyOne
    <3> QED
      BY <2>2, <3>1, EntitledAgain DEF ActorFresh
  <2> QED
    BY <2>1, <2>3, <2>4, <2>5
<1> QED
  BY <1>1, <1>2

\* What was decided of the account under the lock stays true.
LEMMA AllowedStep ==
    ASSUME TypeOK, Exclusive, StillAllowed, [Next]_vars
    PROVE  StillAllowed'
<1> SUFFICES ASSUME NEW r \in Requests, at'[r] \in {"confirming", "committing"}
             PROVE  Allowed(r)'
  BY DEF StillAllowed
<1> USE DEF Guarded
<1>1. CASE at'[r] = at[r]
  <2>1. ~ Commit(r)
    BY <1>1, Shape, MovesOnlyOne DEF Points, Asking, Connected, Computing
  <2> QED
    BY <1>1, <2>1, AccountsRest, Constancy, EntitledAgain DEF StillAllowed
<1>2. CASE at'[r] # at[r]
  <2> USE DEF Points, Asking, Connected, Computing
  <2>1. Decide(r) \/ Confirm(r)
    <3>1. Arrive(r) \/ Handle(r) \/ Drop(r)
      BY <1>2, MovedByItself
    <3>2. ~ Arrive(r) /\ ~ Lookup(r) /\ ~ Prove(r) /\ ~ Hash(r) /\ ~ Begin(r)
      BY Shape, MovesOnlyOne
    <3>3. /\ ~ Lock(r) /\ ~ Read(r) /\ ~ Recheck(r) /\ ~ Commit(r) /\ ~ Drop(r)
          /\ ~ TakeSlot(r)
      BY <1>2, Shape, MovesOnlyOne DEF TakeSlot
    <3> QED
      BY <3>1, <3>2, <3>3 DEF Handle
  <2>2. UNCHANGED <<account, given>>
    BY <2>1 DEF Decide, Confirm
  <2>3. CASE Decide(r)
    <3>1. Allowed(r)
      BY <2>3 DEF Decide, GoTo, TypeOK
    <3> QED
      BY <2>2, <3>1, EntitledAgain
  <2>4. CASE Confirm(r)
    <3>1. at[r] = "confirming"
      BY <2>4, Shape
    <3> QED
      BY <2>2, <3>1, EntitledAgain DEF StillAllowed
  <2> QED
    BY <2>1, <2>3, <2>4
<1> QED
  BY <1>1, <1>2

------------------------------------------------------------------------------
\* The cache

\* The cache gets only proofs of the password of their key, and gives no others.
LEMMA CacheStep ==
    ASSUME TypeOK, CacheHonest, [Next]_vars
    PROVE  CacheHonest'
<1> USE DEF given
<1>1. ASSUME NEW r \in Requests, Arrive(r) \/ Handle(r) \/ Drop(r)
      PROVE  CacheHonest'
  <2>1. CASE Arrive(r)
    BY <2>1 DEF Arrive, CacheHonest, TypeOK
  <2>2. CASE Lookup(r) \/ TakeSlot(r) \/ Hash(r) \/ Begin(r) \/ Lock(r) \/ Drop(r)
    BY <2>2 DEF Lookup, TakeSlot, Hash, Begin, Lock, Drop, SeeActor, memory, CacheHonest
  <2>3. CASE Read(r) \/ Recheck(r) \/ Decide(r) \/ Confirm(r) \/ Commit(r)
    BY <2>3 DEF Read, Recheck, Decide, Confirm, Commit, SeeActor, memory, CacheHonest
  <2>4. CASE Prove(r)
    <3>1. entry' = entry /\ secret' = secret
      BY <2>4 DEF Prove, memory
    <3>2. CASE seen[r] = secret[r]
      <4>1. cache' = [cache EXCEPT ![<<user[r], secret[r]>>] = secret[r]]
        BY <2>4, <3>2 DEF Prove
      <4> QED
        BY <3>1, <4>1 DEF CacheHonest, TypeOK
    <3>3. CASE seen[r] # secret[r]
      BY <2>4, <3>1, <3>3 DEF Prove, CacheHonest
    <3> QED
      BY <3>2, <3>3
  <2> QED
    BY <1>1, <2>1, <2>2, <2>3, <2>4 DEF Handle
<1>2. ASSUME NEW u \in Users, Script(u)
      PROVE  CacheHonest'
  BY <1>2 DEF Script, memory, CacheHonest
<1>3. ASSUME NEW u \in Users, NEW s \in Passwords, Expire(u, s)
      PROVE  CacheHonest'
  BY <1>3 DEF Expire, memory, CacheHonest, TypeOK
<1>4. CASE UNCHANGED vars
  BY <1>4 DEF vars, memory, CacheHonest
<1> QED
  BY <1>1, <1>2, <1>3, <1>4 DEF Next

------------------------------------------------------------------------------
\* The abstract table

\* A commit, or a run of a script, is a step of the abstract table; any other step is none.
LEMMA TableStep ==
    ASSUME TypeOK, AdminRemains, StillAllowed, [Next]_vars
    PROVE  [Table!Next]_account
<1> USE DEF account, Table!account
<1>1. ASSUME NEW r \in Requests, Commit(r)
      PROVE  Table!Next
  <2> DEFINE u == Target(r)
  <2>1. at[r] = "committing" /\ Allowed(r) /\ u \in Users
    BY <1>1, KindOfOrder DEF Commit, StillAllowed
  <2>2. CASE order[r].kind = "create" /\ Table!Create(u, order[r].new, order[r].admin = "yes")
    BY <2>1, <2>2, KindOfOrder DEF Table!Next
  <2>3. CASE order[r].kind \in {"reset", "own"} /\ Table!SetPassword(u, order[r].new)
    BY <2>1, <2>3, KindOfOrder DEF Table!Next
  <2>4. CASE /\ order[r].kind = "update"
             /\ admins' = NewAdmins(r) /\ disabled' = NewDisabled(r)
             /\ UNCHANGED <<members, password>>
    <3>1. u \in members /\ Revivable(r) /\ AdminLeft(r)
      BY <2>1, <2>4 DEF Allowed
    <3>2. /\ NewAdmins(r) \in Table!With(admins, u)
          /\ NewDisabled(r) \in Table!With(disabled, u)
      BY DEF NewAdmins, NewDisabled, Flagged, Table!With
    <3>3. NewAdmins(r) \cap (members \ NewDisabled(r)) # {}
      <4>1. PICK w : w \in admins /\ w \in members \ disabled
        BY DEF AdminRemains, Table!ActiveAdmins, Table!Active
      <4>2. \A v \in admins \ {u} : v \in NewAdmins(r)
        BY <3>2 DEF Table!With
      <4>3. \A v \in (members \ disabled) \ {u} : v \in members \ NewDisabled(r)
        BY <3>2 DEF Table!With
      <4>4. CASE w # u \/ (u \in NewAdmins(r) /\ u \notin NewDisabled(r))
        BY <4>1, <4>2, <4>3, <4>4
      <4>5. CASE w = u /\ (u \notin NewAdmins(r) \/ u \in NewDisabled(r))
        <5>1. PICK v \in admins \ {u} : Active(v)
          BY <3>1, <4>1, <4>5 DEF AdminLeft, Active
        <5> QED
          BY <4>2, <4>3, <5>1 DEF Active
      <4> QED
        BY <4>4, <4>5
    <3>4. Table!Update(u, NewAdmins(r), NewDisabled(r))
      BY <2>4, <3>1, <3>3 DEF Table!Update, Revivable
    <3> QED
      BY <2>1, <3>2, <3>4 DEF Table!Next
  <2> QED
    BY <1>1, <2>2, <2>3, <2>4 DEF Commit
<1>2. ASSUME NEW u \in Users, Script(u)
      PROVE  Table!Next
  BY <1>2 DEF Script, Table!Next
<1> QED
  BY <1>1, <1>2, Constancy

\* The abstract table keeps an active administrator.
LEMMA AdminStep ==
    ASSUME TypeOK, AdminRemains, [Table!Next]_account
    PROVE  AdminRemains'
<1> USE DEF AdminRemains, Table!ActiveAdmins, Table!Active
<1>1. CASE UNCHANGED account
  BY <1>1 DEF account
<1>2. ASSUME NEW u \in Users, NEW new \in Passwords, NEW role \in BOOLEAN,
             Table!Create(u, new, role)
      PROVE  AdminRemains'
  BY <1>2 DEF Table!Create
<1>3. ASSUME NEW u \in Users, NEW A, NEW D, Table!Update(u, A, D)
      PROVE  AdminRemains'
  BY <1>3 DEF Table!Update
<1>4. ASSUME NEW u \in Users, NEW new \in Passwords, Table!SetPassword(u, new)
      PROVE  AdminRemains'
  BY <1>4 DEF Table!SetPassword
<1> QED
  BY <1>1, <1>2, <1>3, <1>4 DEF Table!Next

------------------------------------------------------------------------------
\* Type correctness

\* A step of the abstract table keeps the types of its state.
LEMMA TableTypes ==
    ASSUME TypeOK, [Table!Next]_account
    PROVE  /\ members' \in SUBSET Users /\ admins' \in SUBSET members'
           /\ disabled' \in SUBSET members'
           /\ password' \in [Users -> Passwords \cup {Placeholder}]
<1> USE DEF TypeOK
<1>1. CASE UNCHANGED account
  BY <1>1 DEF account
<1>2. ASSUME NEW u \in Users, NEW new \in Passwords, NEW role \in BOOLEAN,
             Table!Create(u, new, role)
      PROVE  /\ members' \in SUBSET Users /\ admins' \in SUBSET members'
             /\ disabled' \in SUBSET members'
             /\ password' \in [Users -> Passwords \cup {Placeholder}]
  BY <1>2 DEF Table!Create
<1>3. ASSUME NEW u \in Users, NEW A \in Table!With(admins, u),
             NEW D \in Table!With(disabled, u), Table!Update(u, A, D)
      PROVE  /\ members' \in SUBSET Users /\ admins' \in SUBSET members'
             /\ disabled' \in SUBSET members'
             /\ password' \in [Users -> Passwords \cup {Placeholder}]
  BY <1>3 DEF Table!Update, Table!With
<1>4. ASSUME NEW u \in Users, NEW new \in Passwords, Table!SetPassword(u, new)
      PROVE  /\ members' \in SUBSET Users /\ admins' \in SUBSET members'
             /\ disabled' \in SUBSET members'
             /\ password' \in [Users -> Passwords \cup {Placeholder}]
  BY <1>4 DEF Table!SetPassword
<1> QED
  BY <1>1, <1>2, <1>3, <1>4 DEF Table!Next

\* No more hashes are computed than there are slots.
LEMMA SlotStep ==
    ASSUME TypeOK, NEW r \in Requests,
           \/ UNCHANGED hashing
           \/ r \notin hashing /\ Cardinality(hashing) < Slots /\ hashing' = hashing \cup {r}
           \/ Release(r)
    PROVE  hashing' \in SUBSET Requests /\ Cardinality(hashing') <= Slots
<1>1. IsFiniteSet(hashing) /\ Cardinality(hashing) \in Nat /\ Slots \in Nat
  BY AccountAssumption, FS_Subset, FS_CardinalityType DEF TypeOK
<1>2. /\ r \notin hashing => Cardinality(hashing \cup {r}) = Cardinality(hashing) + 1
      /\ r \in hashing => Cardinality(hashing \ {r}) = Cardinality(hashing) - 1
  BY <1>1, FS_AddElement, FS_RemoveElement
<1>3. CASE UNCHANGED hashing
  BY <1>3 DEF TypeOK
<1>4. CASE r \notin hashing /\ Cardinality(hashing) < Slots /\ hashing' = hashing \cup {r}
  BY <1>1, <1>2, <1>4 DEF TypeOK
<1>5. CASE Release(r)
  BY <1>1, <1>2, <1>5 DEF TypeOK, Release
<1> QED
  BY <1>3, <1>4, <1>5

\* The rest of the types.
LEMMA TypeStep ==
    ASSUME TypeOK, [Table!Next]_account, [Next]_vars
    PROVE  TypeOK'
<1> USE DEF TypeOK, given, memory
<1>1. ASSUME NEW r \in Requests, Arrive(r) \/ Handle(r) \/ Drop(r)
      PROVE  TypeOK'
  <2>1. at' \in [Requests -> Points]
    <3> USE DEF Points, Asking, Connected, Guarded, Computing
    <3>1. CASE TakeSlot(r)
      BY <3>1 DEF TakeSlot
    <3>2. CASE Arrive(r) \/ Lookup(r) \/ Prove(r) \/ Hash(r) \/ Begin(r) \/ Drop(r)
      BY <3>2, Shape, MovesOnlyOne
    <3>3. CASE Lock(r) \/ Read(r) \/ Recheck(r) \/ Decide(r) \/ Confirm(r) \/ Commit(r)
      BY <3>3, Shape, MovesOnlyOne
    <3> QED
      BY <1>1, <3>1, <3>2, <3>3 DEF Handle
  <2>2. /\ hashing' \in SUBSET Requests /\ Cardinality(hashing') <= Slots
        /\ scripts' = scripts
    <3>1. CASE Arrive(r) \/ Lookup(r) \/ Begin(r) \/ Lock(r) \/ Read(r) \/ Decide(r)
               \/ Commit(r) \/ Drop(r)
      BY <3>1 DEF Arrive, Lookup, Begin, Lock, Read, Decide, Commit, Drop
    <3>2. CASE TakeSlot(r)
      BY <3>2, SlotStep DEF TakeSlot
    <3>3. CASE Prove(r) \/ Hash(r) \/ Recheck(r) \/ Confirm(r)
      BY <3>3, SlotStep DEF Prove, Hash, Recheck, Confirm
    <3> QED
      BY <1>1, <3>1, <3>2, <3>3 DEF Handle
  <2>3. cache' \in [Users \X Passwords -> Passwords \cup {NoProof}]
    <3>1. CASE Prove(r)
      BY <3>1 DEF Prove
    <3>2. CASE Arrive(r) \/ Lookup(r) \/ TakeSlot(r) \/ Hash(r) \/ Begin(r) \/ Lock(r)
      BY <3>2 DEF Arrive, Lookup, TakeSlot, Hash, Begin, Lock
    <3>3. CASE Read(r) \/ Recheck(r) \/ Decide(r) \/ Confirm(r) \/ Commit(r) \/ Drop(r)
      BY <3>3 DEF Read, Recheck, Decide, Confirm, Commit, Drop
    <3> QED
      BY <1>1, <3>1, <3>2, <3>3 DEF Handle
  <2>4. /\ entry' \in [Requests -> Passwords \cup {NoProof}]
        /\ seen' \in [Requests -> Passwords \cup {Placeholder, NoProof}]
        /\ privileged' \in [Requests -> BOOLEAN]
    <3>1. CASE Arrive(r) \/ TakeSlot(r) \/ Prove(r) \/ Hash(r) \/ Begin(r) \/ Lock(r)
      BY <3>1 DEF Arrive, TakeSlot, Prove, Hash, Begin, Lock
    <3>2. CASE Recheck(r) \/ Confirm(r) \/ Commit(r) \/ Drop(r)
      BY <3>2 DEF Recheck, Confirm, Commit, Drop
    <3>3. CASE Lookup(r) \/ Read(r)
      <4>1. SeeActor(r) \/ UNCHANGED memory
        BY <3>3 DEF Lookup, Read
      <4>2. user[r] \in Users /\ password[user[r]] \in Passwords \cup {Placeholder}
        OBVIOUS
      <4>3. CASE SeeActor(r)
        BY <4>2, <4>3 DEF SeeActor
      <4>4. CASE UNCHANGED memory
        BY <4>4
      <4> QED
        BY <4>1, <4>3, <4>4
    <3>4. CASE Decide(r)
      <4>1. password[user[r]] \in Passwords \cup {Placeholder}
        OBVIOUS
      <4> QED
        BY <3>4, <4>1 DEF Decide
    <3> QED
      BY <1>1, <3>1, <3>2, <3>3, <3>4 DEF Handle
  <2> QED
    BY <2>1, <2>2, <2>3, <2>4, TableTypes, Constancy DEF Points
<1>2. ASSUME NEW u \in Users, Script(u)
      PROVE  TypeOK'
  BY <1>2, TableTypes, AccountAssumption DEF Script
<1>3. ASSUME NEW u \in Users, NEW s \in Passwords, Expire(u, s)
      PROVE  TypeOK'
  BY <1>3, TableTypes DEF Expire
<1>4. CASE UNCHANGED vars
  BY <1>4, TableTypes DEF vars
<1> QED
  BY <1>1, <1>2, <1>3, <1>4 DEF Next

------------------------------------------------------------------------------
\* The invariant, and what follows from it

\* The invariant holds at first.
LEMMA InitInvariant == Init => IInv
<1> SUFFICES ASSUME Init PROVE IInv
  OBVIOUS
<1>1. TypeOK
  <2>1. Cardinality({}) <= Slots
    BY AccountAssumption, FS_EmptySet
  <2> QED
    BY <2>1, AccountAssumption DEF Init, Table!Init, TypeOK
<1>2. AdminRemains
  BY DEF Init, Table!Init, AdminRemains
<1>3. Exclusive /\ ActorFresh /\ StillAllowed /\ CacheHonest
  BY DEF Init, Exclusive, ActorFresh, StillAllowed, CacheHonest, Guarded
<1> QED
  BY <1>1, <1>2, <1>3 DEF IInv

\* Every step keeps it.
LEMMA NextInvariant == IInv /\ [Next]_vars => IInv'
BY TableStep, TypeStep, AdminStep, LockStep, FreshStep, AllowedStep, CacheStep DEF IInv

\* The invariant holds always.
THEOREM Invariance == Spec => []IInv
BY InitInvariant, NextInvariant, PTL DEF Spec

\* The state has the shape its types allow: only members have flags, and no more hashes
\* are computed than there are slots.
THEOREM TypeCorrect == Spec => []TypeOK
BY Invariance, PTL DEF IInv

\* An active administrator always remains (updateUser, beginAccountChange).
THEOREM AdminAlwaysRemains == Spec => []AdminRemains
BY Invariance, PTL DEF IInv

\* Whoever commits a change still may (beginAccountChange).
THEOREM CommitsAreEntitled == Spec => ActorStillMay
<1>1. IInv /\ [Next]_vars =>
          [\A r \in Requests : (at[r] = "committing" /\ at'[r] = "done") =>
              /\ Active(user[r]) /\ password[user[r]] = secret[r]
              /\ Own(r) \/ user[r] \in admins]_vars
  BY DEF IInv, ActorFresh, Entitled
<1> QED
  BY <1>1, Invariance, PTL DEF Spec, ActorStillMay

\* A request is let in only with the password that was stored when its account was read
\* (authenticate).
THEOREM OnlyStoredPasswords == Spec => OldPasswordsFail
<1>1. IInv /\ [Next]_vars =>
          [\A r \in Requests :
              (at[r] \in {"lookup", "proving"} /\ at'[r] \in {"hashing", "beginning", "done"})
                 => seen'[r] = secret[r]]_vars
  <2> SUFFICES ASSUME IInv, [Next]_vars, NEW r \in Requests,
                      at[r] \in {"lookup", "proving"},
                      at'[r] \in {"hashing", "beginning", "done"}
               PROVE  seen'[r] = secret[r]
    OBVIOUS
  <2> USE DEF IInv, Points, Asking, Connected, Guarded, Computing
  <2>1. Lookup(r) \/ Prove(r)
    <3>1. Arrive(r) \/ Handle(r) \/ Drop(r)
      BY MovedByItself
    <3>2. /\ ~ Arrive(r) /\ ~ Hash(r) /\ ~ Begin(r) /\ ~ Lock(r) /\ ~ Read(r)
          /\ ~ Recheck(r) /\ ~ Decide(r) /\ ~ Confirm(r) /\ ~ Commit(r)
      BY Shape
    <3>3. ~ Drop(r) /\ ~ TakeSlot(r)
      BY Shape, MovesOnlyOne DEF TakeSlot
    <3> QED
      BY <3>1, <3>2, <3>3 DEF Handle
  <2>2. CASE Lookup(r)
    <3>1. /\ SeeActor(r) /\ entry[r] = password[user[r]]
      BY <2>2, AccountAssumption DEF Lookup, GoTo, TypeOK
    <3>2. password[user[r]] # NoProof
      BY AccountAssumption DEF TypeOK
    <3> QED
      BY <3>1, <3>2 DEF SeeActor, CacheHonest, TypeOK
  <2>3. CASE Prove(r)
    BY <2>3 DEF Prove, GoTo, TypeOK, memory
  <2> QED
    BY <2>1, <2>2, <2>3
<1> QED
  BY <1>1, Invariance, PTL DEF Spec, OldPasswordsFail

\* The user table keeps the promise of AccountTable.
THEOREM TableImplemented == Spec => ImplementsAccountTable
<1>1. Init => Table!Init
  BY DEF Init
<1>2. IInv /\ [Next]_vars => [Table!Next]_Table!account
  BY TableStep DEF IInv, account, Table!account
<1> QED
  BY <1>1, <1>2, Invariance, PTL DEF Spec, ImplementsAccountTable, Table!Spec
===============================================================================
