------------------------------- MODULE Containers -------------------------------
(***************************************************************************)
(* nall's containers, a scenario of each: a vector, strings, and a hash    *)
(* set.  In each scenario the others rest.                                 *)
(***************************************************************************)
EXTENDS Integers, SequencesExt, FiniteSetsExt

CONSTANTS
  Scenarios,                                        \* of a run
  Value, Operations, MaxElements, MaxMemory,        \* VectorPool
  Variables, Characters, MaxText, SSO, Blocks, NoBlock,     \* StringAllocator
  Items, Nothing, Hash, Lengths                     \* HashSet

-------------------------------------------------------------------------------
VARIABLES
  scenario,
  memory, pool, size, left, right, called, work,
  string, block,
  slots, count, members, removed

Vector == INSTANCE VectorPool WITH MaxSize <- MaxElements
Texts  == INSTANCE StringAllocator WITH MaxSize <- MaxText
Hashed == INSTANCE HashSet WITH pool <- slots, Elements <- Items

ASSUME ContainersAssumption ==
  Vector!PoolAssumption /\ Texts!AllocatorAssumption /\ Hashed!HashSetAssumption

vectorVars == <<memory, pool, size, left, right, called, work>>
textVars   == <<string, block>>
hashVars   == <<slots, count, members, removed>>
vars       == <<scenario, vectorVars, textVars, hashVars>>

Init == scenario \in Scenarios /\ Vector!Init /\ Texts!Init /\ Hashed!Init

VectorNext == scenario = "vector" /\ Vector!Next /\ UNCHANGED <<scenario, textVars, hashVars>>
TextsNext  == scenario = "strings" /\ Texts!Next /\ UNCHANGED <<scenario, vectorVars, hashVars>>
HashedNext == scenario = "hash set" /\ Hashed!Next /\ UNCHANGED <<scenario, vectorVars, textVars>>

Next == VectorNext \/ TextsNext \/ HashedNext
Spec == Init /\ [][Next]_vars

-------------------------------------------------------------------------------
(* The properties of the three modules; a part that rests has them too.    *)
ConstructedExactly ==
  /\ [](Vector!ConstructedExactly /\ Vector!StaysInAllocation)
  /\ [][scenario = "vector" => [Vector!LosesOnly]_vectorVars]_vars
ImplementsList ==
  Vector!List!Init /\ [][scenario = "vector" => [Vector!List!Next]_<<Vector!Elements, called>>]_vars

ImplementsStrings ==
  /\ Texts!Abstract!Init
  /\ [][scenario = "strings" => [Texts!Abstract!Next]_(Texts!Texts)]_vars
  /\ [](Texts!BlocksAreCounted /\ Texts!TextIsTerminated)

SearchFindsMembers == Hashed!SearchFindsMembers /\ Hashed!LoadStaysLow
===============================================================================
