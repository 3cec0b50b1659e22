-------------------------------- MODULE Ids --------------------------------
(* The identifiers the components share.  They are opaque: the code only
   compares them. *)
EXTENDS Integers, Sequences, FiniteSets

CONSTANTS Provider,   \* provider ids
          Model,      \* upstream model ids
          Key,        \* API key ids
          NoKey,      \* no usable key
          Absent      \* no cache entry, no runtime-stale map

ASSUME IdsAssumption == NoKey \notin Key

(* What an alias points at and what a direct request names. *)
Target == Provider \X Model
=============================================================================
