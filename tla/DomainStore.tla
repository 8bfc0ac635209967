----------------------------- MODULE DomainStore -----------------------------
(***************************************************************************)
(* What the cache of api/memcache.js and the namespaces of                 *)
(* ext/jsgi/namespace.js leave of the datastore for those who use it: each *)
(* domain has a store of its own, without any cache, lock, clock or        *)
(* thread, and a request of the domain is shown what that store holds at   *)
(* that moment.                                                            *)
(***************************************************************************)
EXTENDS Naturals

CONSTANTS Request, Domain, Key, Nobody, Absent

VARIABLES
  entity,    \* the entities of each domain
  from,      \* the domain each request is from
  shown      \* the entity it has been shown

dVars == <<entity, from, shown>>

DomainInit ==
  /\ entity = [d \in Domain |-> [k \in Key |-> <<d, 0>>]]
  /\ from = [r \in Request |-> Nobody]
  /\ shown = [r \in Request |-> Absent]

Come(r, d) ==
  /\ from[r] = Nobody
  /\ from' = [from EXCEPT ![r] = d]
  /\ UNCHANGED <<entity, shown>>

Read(r, k) ==
  /\ shown[r] = Absent
  /\ shown' = [shown EXCEPT ![r] = entity[from[r]][k]]
  /\ UNCHANGED <<entity, from>>

\* The request changes an entity of its domain, or ends without.
Revised(r, k) == [entity EXCEPT ![from[r]][k] = <<from[r], @[2] + 1>>]

Go(r) ==
  /\ from' = [from EXCEPT ![r] = Nobody]
  /\ shown' = [shown EXCEPT ![r] = Absent]
  /\ \/ UNCHANGED entity
     \/ shown[r] = Absent /\ \E k \in Key : entity' = Revised(r, k)

DomainNext ==
  \E r \in Request :
    \/ \E d \in Domain : Come(r, d)
    \/ from[r] # Nobody /\ (Go(r) \/ \E k \in Key : Read(r, k))

DomainSpec == DomainInit /\ [][DomainNext]_dVars
=============================================================================
