-------------------------------- MODULE Values -------------------------------
(***************************************************************************)
(* How struct-meta reads and writes values in the memory of an instance:   *)
(* integers of any width (integer.c), bytes as hexadecimal text (bytes.c), *)
(* floating-point numbers and texts.  Memory is a sequence of bytes,       *)
(* addresses count from 0.                                                 *)
(*                                                                         *)
(* A text is what can be read from it: its characters, all but the NUL,    *)
(* and the bytes that it spells in hexadecimal, if it does.  A             *)
(* floating-point number is an integer of its width, of which the largest  *)
(* stands for infinity.                                                    *)
(***************************************************************************)
EXTENDS Integers, Sequences

CONSTANTS
    ByteValues,   \* the number of values of a byte, 256 in the program
    WordBytes     \* the bytes of the widest integer, 8 in the program

ASSUME ValuesAssumption ==
    /\ ByteValues \in Nat /\ ByteValues > 1 /\ ByteValues % 2 = 0
    /\ WordBytes \in Nat \ {0}

Byte == 0..(ByteValues - 1)
NUL == 0

-----------------------------------------------------------------------------
(* Memory                                                                  *)

Slice(memory, address, size) == SubSeq(memory, address + 1, address + size)

Put(memory, address, bytes) ==
    [i \in 1..Len(memory) |-> IF i - address \in 1..Len(bytes)
                              THEN bytes[i - address] ELSE memory[i]]

-----------------------------------------------------------------------------
(* Integers, the lowest byte first                                         *)

\* The number of values of n bytes, a power of ByteValues.
Combinations(n) ==
    LET values[k \in 0..n] == IF k = 0 THEN 1 ELSE ByteValues * values[k - 1]
    IN  values[n]

load_unsigned(bytes) ==
    LET low[n \in 0..Len(bytes)] ==
            IF n = 0 THEN 0 ELSE low[n - 1] + bytes[n] * Combinations(n - 1)
    IN  low[Len(bytes)]

\* A plausible bug: the sign is not extended.
load_signed_Unsigned(bytes) == load_unsigned(bytes)

load_signed(bytes) ==
    LET value == load_unsigned(bytes)
        values == Combinations(Len(bytes))
    IN  IF value < values \div 2 THEN value ELSE value - values

\* The bytes of a number in two's complement.
BytesOf(value, size) ==
    [i \in 1..size |-> (value \div Combinations(i - 1)) % ByteValues]

\* Whether store_signed and store_unsigned accept the value.
store_signed(size, value) ==
    value \in -(Combinations(size) \div 2)..(Combinations(size) \div 2 - 1)
store_unsigned(size, value) == value \in 0..(Combinations(size) - 1)

-----------------------------------------------------------------------------
(* Floating-point numbers                                                  *)

Infinity(size) == Combinations(size) \div 2 - 1

\* The number nearest to a value.
Rounded(size, value) ==
    IF store_signed(size, value) THEN value ELSE Infinity(size)

-----------------------------------------------------------------------------
(* Texts                                                                   *)

NotHex == <<>>
Text(characters, hex) == [characters |-> characters, hex |-> hex]
EmptyLine == Text(<<>>, NotHex)

HasNUL(bytes) == \E i \in 1..Len(bytes) : bytes[i] = NUL

\* The text in a char array that has a NUL.
TextOf(bytes) ==
    LET end == CHOOSE i \in 1..Len(bytes) :
                  bytes[i] = NUL /\ \A j \in 1..(i - 1) : bytes[j] # NUL
    IN  Text(SubSeq(bytes, 1, end - 1), NotHex)

\* Two digits for each byte and spaces between them.
bytes_to_hex(bytes) == Text([i \in 1..(3 * Len(bytes) - 1) |-> 1], bytes)

\* Whether bytes_from_hex accepts the text.
bytes_from_hex(count, text) == Len(text.hex) = count
=============================================================================
