------------------------------ MODULE MCMemory ------------------------------
(***************************************************************************)
(* The memory operations of ppc/misc.S for TLC: the byte loops and the     *)
(* cache line loops, which share nothing, side by side.  A behaviour is    *)
(* one of Bytes or one of DataCache.                                       *)
(***************************************************************************)
EXTENDS Bytes, DataCache

VARIABLE part

MCInit ==
    /\ BytesInit
    /\ CacheInit
    /\ \/ part = "bytes"
       \/ part = "cache" /\ mem = [a \in Address |-> 0]

MCNext ==
    /\ UNCHANGED part
    /\ \/ part = "bytes" /\ BytesNext /\ UNCHANGED cacheVars
       \/ part = "cache" /\ CacheNext /\ UNCHANGED bytesVars

MCSpec == MCInit /\ [][MCNext]_<<bytesVars, cacheVars, part>>
=============================================================================
