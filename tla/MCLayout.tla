------------------------------- MODULE MCLayout ------------------------------
(* Layout with a small size_t, so that every overflow is within reach.       *)
EXTENDS Layout

MCSizeMax == 31
MCPowersOfTwo == {1, 2, 4, 8, 16}

\* uint8_t, uint16_t, uint32_t and uint64_t.
MCBasicTypes == {[size |-> s, alignment |-> s] : s \in {1, 2, 4, 8}}

\* Zero, a scalar, arrays, and more than can fit.
MCCounts == {0, 1, 3, 31}

\* No size, no alignment, and an alignment that is no power of two.
MCBadTypes == {[size |-> 0, alignment |-> 1], [size |-> 4, alignment |-> 0],
               [size |-> 4, alignment |-> 3]}
=============================================================================
