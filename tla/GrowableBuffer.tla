---------------------------- MODULE GrowableBuffer ----------------------------
(***************************************************************************)
(* How the tools collect data of unknown size, in size_t arithmetic:        *)
(*   read_file    static_library_validator.c: read_file into a struct       *)
(*                buffer, chunk by chunk                                    *)
(*   text_buffer  vfs.c: pieces of any size into a struct text_buffer       *)
(*   list         the arrays that double when full: add_symbol,             *)
(*                string_list_append, string_set_insert, append_entry       *)
(*   read_line    def_file_generator.c: read_line, character by character   *)
(*   copy_file    static_library_validator.c: copy_file, without a buffer   *)
(* What is collected is counted, in bytes or entries, not looked at.        *)
(***************************************************************************)
EXTENDS Naturals

CONSTANTS
  Half,         \* half the number of values of size_t
  AllocLimit,   \* realloc gives no block of more bytes
  Chunk,        \* sizeof(chunk)
  MaxPiece,     \* the largest piece that is appended at once
  First,        \* owner -> the capacity of its first block
  EntrySize,    \* bytes of an entry of a list
  MaxSize       \* bound: how much there is to collect

Buffers == {"read_file", "text_buffer"}
Owners == Buffers \cup {"list", "read_line", "copy_file"}
Modulus == 2 * Half

ASSUME SizesAssumption ==
  /\ Half \in Nat /\ AllocLimit \in Nat /\ MaxSize \in Nat
  /\ Chunk \in Nat \ {0} /\ MaxPiece \in Nat \ {0} /\ EntrySize \in Nat \ {0}
  /\ First \in [Owners -> Nat]
  /\ Chunk <= MaxPiece

\* A block and a piece fit into half the address space together, and so do the
\* first blocks.
ASSUME AddressSpaceAssumption ==
  /\ AllocLimit + MaxPiece < Half
  /\ \A o \in Owners : First[o] > 1 /\ First[o] * EntrySize < Half

VARIABLES
  owner,    \* which of the collectors this is; never changes
  size,     \* how much there is to collect; never changes
  taken,    \* how much of it has been taken
  len,      \* how much has been stored
  cap,      \* the capacity, in entries
  block,    \* the bytes of the block
  extra,    \* the size of the piece in hand
  need,     \* buffer_reserve's `need'
  newcap,   \* the capacity asked for
  pc,       \* "take", "reserve", "double", "realloc", "store", "check", "done"
  fault,    \* a read or write has failed
  result    \* "true", "false" or "exit 2", once pc = "done"

memory == <<len, cap, block>>
vars == <<owner, size, taken, memory, extra, need, newcap, pc, fault, result>>

Bytes(n) == IF owner = "list" THEN (n * EntrySize) % Modulus ELSE n

Init ==
  /\ owner \in Owners
  /\ size \in 0..MaxSize
  /\ taken = 0
  /\ len = 0 /\ cap = 0 /\ block = 0
  /\ extra = 0 /\ need = 0 /\ newcap = 0
  /\ pc = "take"
  /\ fault = FALSE
  /\ result = "none"

Return(r) == pc' = "done" /\ result' = r
Goto(step) == pc' = step /\ UNCHANGED result

Take(n) == extra' = n /\ taken' = taken + n

------------------------------------------------------------------------------
(* Where the next piece comes from.                                         *)

\* fread fills the chunk unless the file ends or an error comes first.
ReadChunk ==
  /\ owner \in {"read_file", "copy_file"} /\ pc = "take"
  /\ fault' \in BOOLEAN
  /\ \E n \in 0..Chunk :
       /\ taken + n <= size
       /\ n < Chunk /\ taken + n < size => fault'
       /\ n = Chunk => ~fault'
       /\ Take(n)
       /\ Goto(IF n = 0 THEN "check" ELSE IF owner = "copy_file" THEN "store" ELSE "reserve")
  /\ UNCHANGED <<owner, size, memory, need, newcap>>

\* Mutant: a chunk that is not full ends the file also after an error.
CheckChunkUnread ==
  /\ owner \in {"read_file", "copy_file"} /\ pc = "check"
  /\ IF extra = Chunk THEN Goto("take") ELSE Return("true")
  /\ UNCHANGED <<owner, size, taken, memory, extra, need, newcap, fault>>

CheckChunk ==
  /\ owner \in {"read_file", "copy_file"} /\ pc = "check"
  /\ IF extra = Chunk THEN Goto("take") ELSE Return(IF fault THEN "false" ELSE "true")
  /\ UNCHANGED <<owner, size, taken, memory, extra, need, newcap, fault>>

\* The other collectors are given a piece, an entry or a character.
TakePiece ==
  /\ owner \in {"text_buffer", "list", "read_line"} /\ pc = "take"
  /\ taken < size
  /\ \E n \in 1..MaxPiece :
       /\ taken + n <= size
       /\ owner # "text_buffer" => n = 1
       /\ Take(n)
  /\ Goto("reserve")
  /\ UNCHANGED <<owner, size, memory, need, newcap, fault>>

TakeEnds ==
  /\ owner \in {"text_buffer", "list", "read_line"} /\ pc = "take"
  /\ taken = size
  /\ Return("true")
  /\ UNCHANGED <<owner, size, taken, memory, extra, need, newcap, fault>>

------------------------------------------------------------------------------
(* Room for it.                                                             *)

\* Mutant: no room is kept for the terminating zero.
BufferNeedsNoZero == (len + extra) % Modulus

BufferNeed == (len + extra + 1) % Modulus

\* Mutant: doubling starts from an empty buffer.
FirstCapacityIsZero == cap

FirstCapacity == IF cap = 0 THEN First[owner] ELSE cap

BufferReserve ==
  /\ owner \in Buffers /\ pc = "reserve"
  /\ need' = BufferNeed
  /\ newcap' = FirstCapacity
  /\ Goto(IF need' <= cap THEN "store" ELSE "double")
  /\ UNCHANGED <<owner, size, taken, memory, extra, fault>>

BufferDouble ==
  /\ pc = "double"
  /\ IF newcap < need
     THEN newcap' = (newcap * 2) % Modulus /\ UNCHANGED <<pc, result>>
     ELSE Goto("realloc") /\ UNCHANGED newcap
  /\ UNCHANGED <<owner, size, taken, memory, extra, need, fault>>

\* A list is full; a line has no room for a character and a zero after it.
IsFull == IF owner = "list" THEN len = cap ELSE (len + 1) % Modulus >= cap

ListReserve ==
  /\ owner \in {"list", "read_line"} /\ pc = "reserve"
  /\ newcap' = IF cap = 0 THEN First[owner] ELSE (cap * 2) % Modulus
  /\ Goto(IF IsFull THEN "realloc" ELSE "store")
  /\ UNCHANGED <<owner, size, taken, memory, extra, need, fault>>

Realloc ==
  /\ pc = "realloc"
  /\ Bytes(newcap) <= AllocLimit
  /\ cap' = newcap /\ block' = Bytes(newcap)
  /\ Goto("store")
  /\ UNCHANGED <<owner, size, taken, len, extra, need, newcap, fault>>

\* Mutant: a block that was not given is taken for one that was.
ReallocFailsUnnoticed ==
  /\ pc = "realloc"
  /\ cap' = newcap
  /\ Goto("store")
  /\ UNCHANGED <<owner, size, taken, len, block, extra, need, newcap, fault>>

\* xrealloc: out of memory ends the program.
ReallocFails ==
  /\ pc = "realloc"
  /\ Return("exit 2")
  /\ UNCHANGED <<owner, size, taken, memory, extra, need, newcap, fault>>

Store ==
  /\ pc = "store"
  /\ len' = len + extra
  /\ Goto(IF owner \in {"read_file", "copy_file"} THEN "check" ELSE "take")
  /\ UNCHANGED <<owner, size, taken, cap, block, extra, need, newcap, fault>>

\* fwrite writes less than the chunk.
StoreFails ==
  /\ owner = "copy_file" /\ pc = "store"
  /\ \E n \in 0 .. extra - 1 : len' = len + n
  /\ fault' = TRUE
  /\ Return("false")
  /\ UNCHANGED <<owner, size, taken, cap, block, extra, need, newcap>>

------------------------------------------------------------------------------
Step ==
  \/ ReadChunk \/ CheckChunk \/ TakePiece \/ TakeEnds \/ BufferReserve
  \/ BufferDouble \/ ListReserve \/ Realloc \/ ReallocFails \/ Store \/ StoreFails

Next == Step \/ (pc = "done" /\ UNCHANGED vars)

Spec == Init /\ [][Next]_vars

------------------------------------------------------------------------------
(* Properties.                                                              *)

\* Bytes of an entry.
Unit == IF owner = "list" THEN EntrySize ELSE 1

\* Every variable has its type: what is computed is a size_t, and the capacity
\* is that of the block.
TypeOK ==
  /\ owner \in Owners /\ size \in Nat
  /\ taken \in Nat /\ len \in Nat /\ extra \in 0..MaxPiece
  /\ cap \in 0 .. Modulus - 1 /\ need \in 0 .. Modulus - 1 /\ newcap \in 0 .. Modulus - 1
  /\ block \in 0..AllocLimit /\ block = cap * Unit
  /\ pc \in {"take", "reserve", "double", "realloc", "store", "check", "done"}
  /\ fault \in BOOLEAN /\ result \in {"none", "true", "false", "exit 2"}

\* What is stored stays inside the block, with the zero that follows bytes,
\* though the room for it was computed with numbers that wrap.
Written == len + extra + (IF owner = "list" THEN 0 ELSE 1)
StoreIsInBlock ==
  pc = "store" /\ owner # "copy_file" =>
    Written * Unit <= block

\* A collector that succeeds has stored all there was and nothing twice: a
\* read that stops early is told from the end of the file, also when the file
\* ends with a full chunk.
SuccessIsAll == pc = "done" /\ result = "true" => len = size /\ ~fault
==============================================================================
