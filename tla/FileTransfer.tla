---------------------------- MODULE FileTransfer ----------------------------
(***************************************************************************)
(* How a file travels in every version of the program: send_file sends its *)
(* size and then, for every BUFFER_SIZE - 1 bytes read, one byte more than *)
(* was read; recv_file takes what there is, at most BUFFER_SIZE bytes at a *)
(* time, until it has as many bytes as the size says.                      *)
(*                                                                         *)
(* The bytes themselves do not matter: what is received is always the      *)
(* beginning of what was sent, so a file is a number of bytes and so is    *)
(* what has been sent and received of it.  The 4 bytes of the size are     *)
(* taken to travel in one piece.                                           *)
(***************************************************************************)
EXTENDS Integers

CONSTANTS BUFFER_SIZE,
          SIZE_MAX      \* what recv's -1 is as a size_t

ASSUME FileTransferAssumption ==
    /\ BUFFER_SIZE \in Nat /\ BUFFER_SIZE > 1
    /\ SIZE_MAX \in Nat

\* fread(buffer, 1, BUFFER_SIZE - 1, file) with left bytes to go.
Chunk(left) == IF left < BUFFER_SIZE THEN left ELSE BUFFER_SIZE - 1

\* feof: only a read that comes short finds the end of the file.
AtEnd(left) == left < BUFFER_SIZE - 1

\* What one recv can return of the bytes that are on their way.
Pieces(waiting) == 1 .. (IF waiting < BUFFER_SIZE THEN waiting ELSE BUFFER_SIZE)

\* Mutant: the first piece is taken for the whole file.
AnyPiece(total, file_size) == total > 0

\* recv_file's loop ends.
Complete(total, file_size) == total >= file_size

\* total_bytes_read += recv(...), when recv returns -1.
AddError(total) == IF total = 0 THEN SIZE_MAX ELSE total - 1

\* The bytes that send_file sends of a file in all: a chunk has one more
\* than it takes from the file.
StreamLength(n) == n + n \div (BUFFER_SIZE - 1) + 1

\* The bytes of a file of n bytes among the first p that are sent of it: the
\* last byte of each chunk is not one of them.
Arrived(p, n) == IF p = StreamLength(n) THEN n ELSE p - p \div BUFFER_SIZE
=============================================================================
