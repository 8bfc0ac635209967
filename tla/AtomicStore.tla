---------------------------- MODULE AtomicStore ----------------------------
(***************************************************************************)
(* What runInTransaction (ext/db.js:139-161) promises those who call it,   *)
(* with no versions, snapshots, stacks or exceptions: all the updates that *)
(* a function has asked for become visible in one indivisible step, made   *)
(* on contents of the store that are those the function read, or none      *)
(* ever does.  Its caller is told which, except when the call that commits *)
(* is itself cut short.                                                    *)
(***************************************************************************)
CONSTANTS TxId, Key, Value, NoEntity, NotRead, NoWrite, Direct

VARIABLES
  store,     \* the entity each key holds
  asked,     \* the updates each function has asked for
  answer,    \* what the caller of each function was told, if anything
  seen       \* what each function that updated entities had read

aVars == <<store, asked, answer, seen>>

Answer == {"none", "returned", "failed", "unknown"}
NothingRead == [k \in Key |-> NotRead]
NothingAsked == [k \in Key |-> NoWrite]

AtomicInit ==
  /\ store = [k \in Key |-> NoEntity]
  /\ asked = [t \in TxId |-> NothingAsked]
  /\ answer = [t \in TxId |-> "none"]
  /\ seen = [t \in TxId |-> NothingRead]

\* The function t, which is not over, asks for updates of some keys.
Ask(t) ==
  /\ answer[t] = "none"
  /\ UNCHANGED <<store, answer, seen>>
  /\ asked' = [asked EXCEPT ![t] = asked'[t]]
  /\ asked'[t] \in [Key -> {t, NoEntity, NoWrite}]
  /\ \A k \in Key : asked'[t][k] \in {asked[t][k], t, NoEntity}

\* The caller of t is told that it is over, and not that it failed.
Done(t) ==
  /\ answer[t] = "none"
  /\ answer' \in {[answer EXCEPT ![t] = told] : told \in {"returned", "unknown"}}

\* The function t ran: what it read is what the store held, and all the
\* updates it asked for are made.
Update(t) ==
  /\ Done(t)
  /\ asked[t] # NothingAsked
  /\ store' = [k \in Key |-> IF asked[t][k] = NoWrite THEN store[k] ELSE asked[t][k]]
  /\ seen' = [seen EXCEPT ![t] = seen'[t]]
  /\ seen'[t] \in [Key -> Value \cup {NoEntity, NotRead}]
  /\ \A k \in Key : seen'[t][k] \in {NotRead, store[k]}
  /\ UNCHANGED asked

\* The function t ran and asked for no updates.
NoUpdate(t) ==
  /\ Done(t)
  /\ asked[t] = NothingAsked
  /\ UNCHANGED <<store, asked, seen>>

\* Some functions end in vain: none of their updates is ever made, and no
\* caller is told that its function returned.
EndInVain ==
  /\ answer' \in [TxId -> Answer]
  /\ \A t \in TxId : \/ answer'[t] = answer[t]
                     \/ answer[t] = "none" /\ answer'[t] \in {"failed", "unknown"}
  /\ UNCHANGED <<store, asked, seen>>

\* A write outside any transaction.
WriteDirectly ==
  /\ store' \in [Key -> Value \cup {NoEntity}]
  /\ \A k \in Key : store'[k] \in {store[k], Direct, NoEntity}
  /\ UNCHANGED <<asked, answer, seen>>

AtomicNext ==
  \/ \E t \in TxId : Ask(t) \/ Update(t) \/ NoUpdate(t)
  \/ EndInVain
  \/ WriteDirectly

AtomicSpec == AtomicInit /\ [][AtomicNext]_aVars
=============================================================================
