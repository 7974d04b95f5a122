------------------------------ MODULE HashSeed ------------------------------
(***************************************************************************)
(* The process-global hash seed of object.rs.                              *)
(*                                                                         *)
(* HASH_SEED and HASH_SEED_INITIALIZING are the only mutable globals the   *)
(* object code shares between threads.  json_object() and                  *)
(* json_object_seed() call ensure_seed(); every later lookup or insertion  *)
(* hashes its key under the seed of that moment.  One action per atomic    *)
(* access.                                                                 *)
(*                                                                         *)
(* The program starts in one thread, Main, which may or may not create the *)
(* seed before it spawns the others.                                       *)
(*                                                                         *)
(* SeedInit, SeedNext and SeedSpec have names of their own, so that this   *)
(* module can be extended together with ObjectTable.                       *)
(***************************************************************************)
EXTENDS Integers, FiniteSets

CONSTANTS
  Threads,    \* the program's threads
  Main,       \* the thread that runs before the others are spawned
  SeedSpace,  \* 2^32: a seed is a u32
  MaxArg      \* largest size_t argument given to json_object_seed

ASSUME ThreadsAssumption == Main \in Threads
ASSUME SeedSpaceAssumption == SeedSpace \in Nat \ {0, 1}
ASSUME MaxArgAssumption == MaxArg \in Nat

VARIABLES
  seed,         \* HASH_SEED, 0 until a seed is established
  initializing, \* HASH_SEED_INITIALIZING
  pc,           \* where each thread stands in ensure_seed
  arg,          \* explicit_seed.unwrap_or(0) of the call in progress
  creating,     \* the call in progress is json_object()'s
  object,       \* the thread holds an object of its own
  stored,       \* the seeds its one key has been hashed under when inserted
  spawned,      \* the other threads run
  autoseeded    \* a seed was in place when they were spawned

seedVars == <<seed, initializing, pc, arg, creating, object, stored, spawned,
              autoseeded>>

Seeds   == 0 .. SeedSpace - 1
Seeding == {"store", "clear"}
PCs     == {"idle", "load", "cas", "spin", "return"} \cup Seeding

Moves(t, from, to) ==
  /\ pc[t] = from
  /\ pc' = [pc EXCEPT ![t] = to]

SeedInit ==
  /\ seed = 0
  /\ initializing = FALSE
  /\ pc = [t \in Threads |-> "idle"]
  /\ arg = [t \in Threads |-> 0]
  /\ creating = [t \in Threads |-> FALSE]
  /\ object = [t \in Threads |-> FALSE]
  /\ stored = [t \in Threads |-> {}]
  /\ spawned = FALSE
  /\ autoseeded = FALSE

Running(t) == spawned \/ t = Main

-----------------------------------------------------------------------------
(* The program around the library.                                         *)

Spawn ==
  /\ ~spawned
  /\ pc[Main] = "idle"
  /\ spawned' = TRUE
  /\ autoseeded' = (seed # 0)
  /\ UNCHANGED <<seed, initializing, pc, arg, creating, object, stored>>

\* json_object(): the allocation before ensure_seed may fail, which changes
\* nothing and is the absence of this step.
CallObject(t) ==
  /\ Running(t)
  /\ ~object[t]
  /\ Moves(t, "idle", "load")
  /\ arg' = [arg EXCEPT ![t] = 0]
  /\ creating' = [creating EXCEPT ![t] = TRUE]
  /\ UNCHANGED <<seed, initializing, object, stored, spawned, autoseeded>>

\* json_object_seed(seed): the size_t is cut to a u32.
CallSeed(t) ==
  /\ Running(t)
  /\ Moves(t, "idle", "load")
  /\ \E a \in 0 .. MaxArg : arg' = [arg EXCEPT ![t] = a % SeedSpace]
  /\ creating' = [creating EXCEPT ![t] = FALSE]
  /\ UNCHANGED <<seed, initializing, object, stored, spawned, autoseeded>>

-----------------------------------------------------------------------------
(* ensure_seed, one action per atomic access.                              *)

\* Mutant: the early return is missing.
LoadSeedAlwaysTries(t) ==
  /\ Moves(t, "load", "cas")
  /\ UNCHANGED <<seed, initializing, arg, creating, object, stored, spawned,
                 autoseeded>>

LoadSeed(t) ==
  /\ Moves(t, "load", IF seed # 0 THEN "return" ELSE "cas")
  /\ UNCHANGED <<seed, initializing, arg, creating, object, stored, spawned,
                 autoseeded>>

\* Mutant: a load and a store in place of compare_exchange.
AcquireIgnoresFlag(t) ==
  /\ Moves(t, "cas", "store")
  /\ initializing' = TRUE
  /\ UNCHANGED <<seed, arg, creating, object, stored, spawned, autoseeded>>

CompareExchange(t) ==
  /\ Moves(t, "cas", IF initializing THEN "spin" ELSE "store")
  /\ initializing' = TRUE
  /\ UNCHANGED <<seed, arg, creating, object, stored, spawned, autoseeded>>

\* Mutant: generate_seed may return 0.
StoreSeedMaybeZero(t) ==
  /\ Moves(t, "store", "clear")
  /\ seed' \in IF arg[t] # 0 THEN {arg[t]} ELSE Seeds
  /\ UNCHANGED <<initializing, arg, creating, object, stored, spawned,
                 autoseeded>>

StoreSeed(t) ==
  /\ Moves(t, "store", "clear")
  /\ seed' \in IF arg[t] # 0 THEN {arg[t]} ELSE Seeds \ {0}
  /\ UNCHANGED <<initializing, arg, creating, object, stored, spawned,
                 autoseeded>>

ClearInitializing(t) ==
  /\ Moves(t, "clear", "return")
  /\ initializing' = FALSE
  /\ UNCHANGED <<seed, arg, creating, object, stored, spawned, autoseeded>>

\* Mutant: a waiter returns without looking at the seed.
SpinGivesUp(t) ==
  /\ Moves(t, "spin", "return")
  /\ UNCHANGED <<seed, initializing, arg, creating, object, stored, spawned,
                 autoseeded>>

\* while current_seed() == 0 { yield_now() }: a turn that finds 0 changes
\* nothing.
Spin(t) ==
  /\ seed # 0
  /\ Moves(t, "spin", "return")
  /\ UNCHANGED <<seed, initializing, arg, creating, object, stored, spawned,
                 autoseeded>>

\* json_object goes on to RawTable::init, which may fail; json_object_seed
\* is done.  The locals of the call go out of scope.
Return(t) ==
  /\ Moves(t, "return", "idle")
  /\ \E initialised \in BOOLEAN :
       object' = [object EXCEPT ![t] = @ \/ (creating[t] /\ initialised)]
  /\ arg' = [arg EXCEPT ![t] = 0]
  /\ creating' = [creating EXCEPT ![t] = FALSE]
  /\ UNCHANGED <<seed, initializing, stored, spawned, autoseeded>>

-----------------------------------------------------------------------------
(* A thread uses an object of its own.                                     *)

\* hash_key_bytes
HashSeedInUse == IF seed = 0 THEN 1 ELSE seed

\* json_object_set: find_entry compares hashes, so a key that was inserted
\* under another seed is not found and a second entry is inserted.
SetKey(t) ==
  /\ pc[t] = "idle"
  /\ object[t]
  /\ stored' = [stored EXCEPT ![t] = @ \cup {HashSeedInUse}]
  /\ UNCHANGED <<seed, initializing, pc, arg, creating, object, spawned,
                 autoseeded>>

\* json_object_del: only the entry hashed under the present seed is found.
DelKey(t) ==
  /\ pc[t] = "idle"
  /\ object[t]
  /\ HashSeedInUse \in stored[t]
  /\ stored' = [stored EXCEPT ![t] = @ \ {HashSeedInUse}]
  /\ UNCHANGED <<seed, initializing, pc, arg, creating, object, spawned,
                 autoseeded>>

\* The last reference to the object is released.
DropObject(t) ==
  /\ pc[t] = "idle"
  /\ object[t]
  /\ object' = [object EXCEPT ![t] = FALSE]
  /\ stored' = [stored EXCEPT ![t] = {}]
  /\ UNCHANGED <<seed, initializing, pc, arg, creating, spawned, autoseeded>>

-----------------------------------------------------------------------------
EnsureSeed(t) ==
  \/ LoadSeed(t)
  \/ CompareExchange(t)
  \/ StoreSeed(t)
  \/ ClearInitializing(t)
  \/ Spin(t)
  \/ Return(t)

SeedNext ==
  \/ Spawn
  \/ \E t \in Threads :
       \/ CallObject(t)
       \/ CallSeed(t)
       \/ EnsureSeed(t)
       \/ SetKey(t)
       \/ DelKey(t)
       \/ DropObject(t)

\* The scheduler lets every thread inside the library run; a spinning thread
\* yields the processor.
Fairness == \A t \in Threads : WF_seedVars(EnsureSeed(t))

SeedSpec     == SeedInit /\ [][SeedNext]_seedVars
FairSeedSpec == SeedSpec /\ Fairness

-----------------------------------------------------------------------------
SeedTypeOK ==
  /\ seed \in Seeds
  /\ initializing \in BOOLEAN
  /\ pc \in [Threads -> PCs]
  /\ arg \in [Threads -> Seeds]
  /\ creating \in [Threads -> BOOLEAN]
  /\ object \in [Threads -> BOOLEAN]
  /\ stored \in [Threads -> SUBSET (Seeds \ {0})]
  /\ spawned \in BOOLEAN
  /\ autoseeded \in BOOLEAN

\* HASH_SEED_INITIALIZING is a lock: at most one thread is between winning
\* the compare_exchange and resetting the flag, and the flag is set exactly
\* while there is one (object.rs, ensure_seed).
OneInitialiser ==
  /\ \A t, u \in Threads :
       pc[t] \in Seeding /\ pc[u] \in Seeding => t = u
  /\ initializing <=> \E t \in Threads : pc[t] \in Seeding

\* ensure_seed never returns, by any of its three exits, without a seed in
\* place, so no object exists in an unseeded process and the fallback of
\* hash_key_bytes for seed 0 is never taken.
ReturnsSeeded ==
  \A t \in Threads : pc[t] = "return" \/ object[t] => seed # 0

\* A program that creates the seed in its main thread before it spawns the
\* others, as the thread-safety page recommends, never sees it change again.
AutoseedFreezesSeed == [][autoseeded => seed' = seed]_seedVars

\* In such a program every key that was inserted stays findable, and no
\* object holds the same key twice.
AutoseededKeysFindable ==
  autoseeded => \A t \in Threads : stored[t] \subseteq {seed}

\* Every call of ensure_seed returns, the waiting loop included.
EnsureSeedReturns ==
  \A t \in Threads : pc[t] # "idle" ~> pc[t] = "idle"

\* What SAFETY.md says of every program: once a seed is established, no call
\* replaces it.
SeedNeverChanges == [][seed # 0 => seed' = seed]_seed
=============================================================================
