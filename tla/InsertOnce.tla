----------------------------- MODULE InsertOnce -----------------------------
(***************************************************************************)
(* What Model.getOrInsert (ext/db/model.js:208-219) promises, without      *)
(* transactions: looking for the entity and, when there is none, creating  *)
(* it is one step, so an entity is created only where there is none, and   *)
(* the instance a user holds is the entity that was found or created.      *)
(***************************************************************************)
EXTENDS Naturals

CONSTANTS Request, Key, Value, NoEntity, NoInstance, Other, MaxCalls

VARIABLES
  store,     \* the entity each key holds
  holds      \* the instance each user has got hold of

Instances == [key : Key, content : Value]

OnceInit ==
  /\ store = [k \in Key |-> NoEntity]
  /\ holds = [u \in Request |-> NoInstance]

Find(u, k) ==
  /\ holds[u] = NoInstance
  /\ store[k] # NoEntity
  /\ holds' = [holds EXCEPT ![u] = [key |-> k, content |-> store[k]]]
  /\ UNCHANGED store

\* The n-th call of a user creates the entity.  One that fails before it is
\* answered holds nothing.
Create(u, k, n) ==
  /\ holds[u] = NoInstance
  /\ store[k] = NoEntity
  /\ store' = [store EXCEPT ![k] = <<u, n>>]
  /\ holds' \in {holds, [holds EXCEPT ![u] = [key |-> k, content |-> <<u, n>>]]}

\* The call fails after the entity has been found.
Forget(u) ==
  /\ holds' = [holds EXCEPT ![u] = NoInstance]
  /\ UNCHANGED store

\* The rest of the application.
OtherWrite(k, content) ==
  /\ store' = [store EXCEPT ![k] = content]
  /\ UNCHANGED holds

OnceNext ==
  \/ \E u \in Request, k \in Key : Find(u, k) \/ \E n \in 1..MaxCalls : Create(u, k, n)
  \/ \E u \in Request : Forget(u)
  \/ \E k \in Key, content \in {Other, NoEntity} : OtherWrite(k, content)

OnceSpec == OnceInit /\ [][OnceNext]_<<store, holds>>
=============================================================================
