-------------------------------- MODULE Arena --------------------------------
(***************************************************************************)
(* The arena of a catalogue (arena.c): memory that is handed out piece by  *)
(* piece from chunks and given back as a whole.  Everything that a         *)
(* descriptor built at run time refers to lies in the arena of its         *)
(* catalogue.                                                              *)
(***************************************************************************)
EXTENDS Integers, Sequences

CONSTANTS
    SizeMax,       \* SIZE_MAX
    ChunkBytes,    \* ARENA_CHUNK_BYTES
    Alignments,    \* the alignments that callers ask for
    Bases,         \* addresses at which calloc places chunks
    MayStarve      \* whether calloc may fail

ASSUME ArenaAssumption ==
    /\ SizeMax \in Nat
    /\ ChunkBytes \in Nat
    /\ Alignments \subseteq Nat \ {0}
    /\ Bases \subseteq Nat
    /\ MayStarve \in BOOLEAN

VARIABLES
    chunks,   \* arena->chunks, the newest last
    blocks,   \* the pieces handed out
    starved   \* calloc has failed

arenaVars == <<chunks, blocks, starved>>

Newest == chunks[Len(chunks)]

-----------------------------------------------------------------------------
(* struct_meta_internal_arena_allocate                                     *)

\* A plausible bug: the chunk is filled without gaps.
aligned_offset_Packed(chunk, alignment) == chunk.used

\* The first place in a chunk that is free and aligned.
aligned_offset(chunk, alignment) ==
    LET misaligned == (chunk.base + chunk.used) % alignment
    IN  chunk.used + (IF misaligned = 0 THEN 0 ELSE alignment - misaligned)

HasRoom(chunk, size, alignment) ==
    /\ aligned_offset(chunk, alignment) <= chunk.capacity
    /\ size <= chunk.capacity - aligned_offset(chunk, alignment)

NewestHasRoom(size, alignment) ==
    chunks # <<>> /\ HasRoom(Newest, size, alignment)

\* A request that a common chunk cannot hold gets a chunk of its own.
Capacity(size, alignment) ==
    IF size + alignment > ChunkBytes THEN size + alignment ELSE ChunkBytes

\* A plausible bug: the piece is not taken off the chunk.
Used_Before(chunk, size, alignment) == chunk.used

\* The bytes of the chunk in use once the piece is handed out.
Used(chunk, size, alignment) == aligned_offset(chunk, alignment) + size

\* The piece of the last chunk of s.
Block(s, size, alignment) ==
    [chunk |-> Len(s), first |-> aligned_offset(s[Len(s)], alignment),
     size |-> size, alignment |-> alignment]

HandOut(s, size, alignment) ==
    /\ chunks' = [s EXCEPT ![Len(s)] =
                     [@ EXCEPT !.used = Used(s[Len(s)], size, alignment)]]
    /\ blocks' = blocks \cup {Block(s, size, alignment)}
    /\ UNCHANGED starved

\* The new chunk, of add_chunk, comes first from then on: what is left of the
\* one before stays unused.
allocate(size, alignment) ==
    /\ size # 0
    /\ IF NewestHasRoom(size, alignment)
         THEN HandOut(chunks, size, alignment)
         ELSE /\ size <= SizeMax - alignment
              /\ \E base \in Bases :
                   LET chunk == [base |-> base, used |-> 0,
                                 capacity |-> Capacity(size, alignment)]
                   IN  /\ HasRoom(chunk, size, alignment)
                       /\ HandOut(Append(chunks, chunk), size, alignment)

\* The request is refused: there is no such size, or calloc fails.  (A chunk
\* that was added for a request always has room for it: NewChunkHasRoom.)
allocate_fails(size, alignment) ==
    LET possible == size # 0 /\ size <= SizeMax - alignment
    IN  /\ possible => MayStarve
        /\ size # 0 => ~NewestHasRoom(size, alignment)
        /\ starved' = (starved \/ possible)
        /\ UNCHANGED <<chunks, blocks>>

\* struct_meta_internal_arena_destroy.
arena_destroy ==
    /\ chunks' = <<>>
    /\ blocks' = {}
    /\ UNCHANGED starved

-----------------------------------------------------------------------------
ArenaInit ==
    /\ chunks = <<>>
    /\ blocks = {}
    /\ starved = FALSE

ArenaNext ==
    \/ \E size \in 0..SizeMax, alignment \in Alignments :
          allocate(size, alignment) \/ allocate_fails(size, alignment)
    \/ arena_destroy

ArenaSpec == ArenaInit /\ [][ArenaNext]_arenaVars

-----------------------------------------------------------------------------
(* Properties                                                              *)

ChunkType == [base : Nat, capacity : Nat, used : Nat]

BlockType == [chunk : Nat, first : Nat, size : Nat \ {0}, alignment : Alignments]

ArenaTypeOK ==
    /\ chunks \in Seq(ChunkType)
    /\ blocks \subseteq BlockType
    /\ starved \in BOOLEAN

\* What is handed out lies in one chunk, where its alignment is right.
BlocksInPlace ==
    \A b \in blocks :
        /\ b.chunk \in 1..Len(chunks)
        /\ b.first + b.size <= chunks[b.chunk].used
        /\ chunks[b.chunk].used <= chunks[b.chunk].capacity
        /\ (chunks[b.chunk].base + b.first) % b.alignment = 0

\* No two pieces share a byte: filling one descriptor in changes no other.
BlocksDisjoint ==
    \A b, c \in blocks :
        b.chunk = c.chunk /\ b # c =>
            b.first + b.size <= c.first \/ c.first + c.size <= b.first
=============================================================================
