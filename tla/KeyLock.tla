------------------------------- MODULE KeyLock -------------------------------
(***************************************************************************)
(* The per-key try-lock of the teardown service                            *)
(* (automation-instance-teardown/src/service.rs): a registry of shared     *)
(* entries under a mutex, the held flag of an entry outside of it, and the *)
(* reference count by which the last guard removes its entry.              *)
(*                                                                         *)
(* An Arc is an element of Entries; its reference count is the number of   *)
(* registry slots and of callers that hold it.  A caller gives up the      *)
(* reference of a refused try_lock, or of a dropped guard, in a step of    *)
(* its own, since the code drops both outside of the mutex.                *)
(***************************************************************************)
EXTENDS Naturals, FiniteSets

CONSTANTS Callers, LockKeys, Entries, NoEntry, Nobody

ASSUME KeyLockAssumption ==
  /\ IsFiniteSet(Callers)
  /\ IsFiniteSet(LockKeys)
  /\ NoEntry \notin Entries
  /\ Nobody \notin Callers

VARIABLES
  registry,   \* locks: key -> the entry registered for it, or NoEntry
  held,       \* entry -> LockEntry::held
  pc,         \* caller -> where it is in try_lock or in the guard's drop
  key,        \* caller -> the key of its call
  entry,      \* caller -> the reference it holds, or NoEntry
  mutex       \* the caller inside KeyLockGuard::drop, or Nobody

lockVars == <<registry, held, pc, key, entry, mutex>>

StrongCount(e) ==
  Cardinality({k \in LockKeys : registry[k] = e}) + Cardinality({c \in Callers : entry[c] = e})

LockInit ==
  /\ registry = [k \in LockKeys |-> NoEntry]
  /\ held = [e \in Entries |-> FALSE]
  /\ pc = [c \in Callers |-> "idle"]
  /\ key \in [Callers -> LockKeys]
  /\ entry = [c \in Callers |-> NoEntry]
  /\ mutex = Nobody

\* A freshly allocated entry is one nothing refers to.
Fresh == {e \in Entries : StrongCount(e) = 0}

\* try_lock takes the mutex and clones the key's entry, made by or_default
\* when there is none.
Clone(c, k) ==
  /\ pc[c] = "idle"
  /\ mutex = Nobody
  /\ \E e \in IF registry[k] = NoEntry THEN Fresh ELSE {registry[k]} :
       /\ registry' = [registry EXCEPT ![k] = e]
       /\ held' = IF registry[k] = NoEntry THEN [held EXCEPT ![e] = FALSE] ELSE held
       /\ entry' = [entry EXCEPT ![c] = e]
  /\ key' = [key EXCEPT ![c] = k]
  /\ pc' = [pc EXCEPT ![c] = "cloned"]
  /\ UNCHANGED mutex

\* Mutant: the flag is read and set without a compare-exchange's failure.
CompareExchangeIgnored(c) ==
  /\ pc[c] = "cloned"
  /\ held' = [held EXCEPT ![entry[c]] = TRUE]
  /\ pc' = [pc EXCEPT ![c] = "holding"]
  /\ UNCHANGED <<registry, key, entry, mutex>>

\* Mutant: a compare_exchange_weak, which may fail on a free entry.
CompareExchangeWeak(c) ==
  /\ pc[c] = "cloned"
  /\ \/ /\ pc' = [pc EXCEPT ![c] = IF held[entry[c]] THEN "refused" ELSE "holding"]
        /\ held' = [held EXCEPT ![entry[c]] = TRUE]
     \/ pc' = [pc EXCEPT ![c] = "refused"] /\ UNCHANGED held
  /\ UNCHANGED <<registry, key, entry, mutex>>

\* held.compare_exchange(false, true): the guard is made, or None returned.
CompareExchange(c) ==
  /\ pc[c] = "cloned"
  /\ pc' = [pc EXCEPT ![c] = IF held[entry[c]] THEN "refused" ELSE "holding"]
  /\ held' = [held EXCEPT ![entry[c]] = TRUE]
  /\ UNCHANGED <<registry, key, entry, mutex>>

\* The first half of KeyLockGuard::drop: the mutex is taken and the flag
\* cleared.
ReleaseFlag(c) ==
  /\ pc[c] = "holding"
  /\ mutex = Nobody
  /\ mutex' = c
  /\ held' = [held EXCEPT ![entry[c]] = FALSE]
  /\ pc' = [pc EXCEPT ![c] = "removing"]
  /\ UNCHANGED <<registry, key, entry>>

\* The second half: the entry leaves the registry when only the registry and
\* this guard refer to it; then the mutex is released.
RemoveEntry(c) ==
  /\ pc[c] = "removing"
  /\ registry' = IF StrongCount(entry[c]) = 2 /\ registry[key[c]] = entry[c]
                   THEN [registry EXCEPT ![key[c]] = NoEntry]
                   ELSE registry
  /\ mutex' = Nobody
  /\ pc' = [pc EXCEPT ![c] = "dropping"]
  /\ UNCHANGED <<held, key, entry>>

\* The caller's own reference goes: the guard's field after drop, or the
\* local of a refused try_lock.
DropEntry(c) ==
  /\ pc[c] \in {"refused", "dropping"}
  /\ entry' = [entry EXCEPT ![c] = NoEntry]
  /\ pc' = [pc EXCEPT ![c] = "idle"]
  /\ UNCHANGED <<registry, held, key, mutex>>

LockNext ==
  \E c \in Callers :
    \/ \E k \in LockKeys : Clone(c, k)
    \/ CompareExchange(c)
    \/ ReleaseFlag(c)
    \/ RemoveEntry(c)
    \/ DropEntry(c)

LockSpec == LockInit /\ [][LockNext]_lockVars

----------------------------------------------------------------------------

LockTypeOK ==
  /\ registry \in [LockKeys -> Entries \cup {NoEntry}]
  /\ held \in [Entries -> BOOLEAN]
  /\ pc \in [Callers -> {"idle", "cloned", "refused", "holding", "removing", "dropping"}]
  /\ key \in [Callers -> LockKeys]
  /\ entry \in [Callers -> Entries \cup {NoEntry}]
  /\ mutex \in Callers \cup {Nobody}
  /\ \A c \in Callers :
       /\ entry[c] = NoEntry <=> pc[c] = "idle"
       /\ mutex = c <=> pc[c] = "removing"

\* Two teardowns of one instance never run at the same time, although a
\* guard's drop clears the flag and removes the entry in two steps while
\* other callers already hold clones of it.
MutualExclusion ==
  \A c, d \in Callers :
    c # d /\ pc[c] = "holding" /\ pc[d] = "holding" => key[c] # key[d]

\* Nobody that still decides, holds or removes works on an entry the registry
\* has forgotten: this is what makes the reference count a sound test for
\* "nobody else uses it".
EntryIsRegistered ==
  \A c \in Callers :
    pc[c] \in {"cloned", "holding", "removing"} => registry[key[c]] = entry[c]

\* No key is stuck: a set flag always has a holder that will clear it.
HeldHasHolder ==
  \A k \in LockKeys :
    registry[k] # NoEntry /\ held[registry[k]] =>
      \E c \in Callers : pc[c] = "holding" /\ key[c] = k

\* The refinement: the owner of a key is the caller that holds its guard, and
\* the refused callers are those that still drop their clone.
Holds(c, k) == pc[c] = "holding" /\ key[c] = k

Owner ==
  [k \in LockKeys |-> IF \E c \in Callers : Holds(c, k)
                        THEN CHOOSE c \in Callers : Holds(c, k)
                        ELSE Nobody]

Refused == {c \in Callers : pc[c] = "refused"}

Abstract == INSTANCE KeyLockSpec WITH Keys <- LockKeys, owner <- Owner, refused <- Refused

\* try_lock and the guard's drop implement the lock KeyLockSpec describes: in
\* particular InProgress is answered only when some other caller really holds
\* the key at that moment.
ImplementsKeyLock == Abstract!Spec
=============================================================================
