----------------------------- MODULE SparseArray -----------------------------
(***************************************************************************)
(* util/sparse_array.h: an array of PageCount pages of PageSize bytes,     *)
(* allocated when they are first touched.  arr maps the number of each     *)
(* allocated page to its bytes; a new page is value-initialised.           *)
(***************************************************************************)
EXTENDS Integers, Sequences

CONSTANTS PageSize,    \* 1 << lower_width
          PageCount    \* 1 << upper_width

ASSUME SparseArrayAssumption == PageSize \in Nat \ {0} /\ PageCount \in Nat \ {0}

SIZE == PageSize * PageCount
NoPages == <<>>

Page(arr, nr) == IF nr \in DOMAIN arr THEN arr[nr] ELSE [o \in 0 .. PageSize - 1 |-> 0]
WithPage(arr, nr, page) == [n \in DOMAIN arr \cup {nr} |-> IF n = nr THEN page ELSE arr[n]]

(* operator[] and get_ptr: the byte at addr. *)
ByteAt(arr, addr) == Page(arr, addr \div PageSize)[addr % PageSize]

(* Mutant: the data pointer is one byte on. *)
MutantCopied(page, offset, data, len, be) ==
    [o \in 0 .. PageSize - 1 |->
        IF o \in offset + 1 .. offset + len - 1 THEN data[o - offset + 1] ELSE page[o]]

(* The bytes of data that one round of write() puts into its page: the     *)
(* loop starts at the first byte of data in every round.  be is the byte   *)
(* enable array, empty when there is none.                                 *)
Copied(page, offset, data, len, be) ==
    [o \in 0 .. PageSize - 1 |->
        IF o \in offset .. offset + len - 1 /\ (be = <<>> \/ be[((o - offset) % Len(be)) + 1])
        THEN data[o - offset + 1] ELSE page[o]]

(* One round of the loop of write(): a write that does not fit into the    *)
(* page is cut, and the rest left to the next round.                       *)
WriteRound(s, data, be) ==
    LET nr == s.start \div PageSize
        offset == s.start % PageSize
        cut == offset + s.len > PageSize
        written == IF cut THEN PageSize - offset ELSE s.len
    IN  IF ~s.ok \/ nr >= PageCount THEN [s EXCEPT !.ok = FALSE]
        ELSE [ok |-> TRUE,
              arr |-> WithPage(s.arr, nr, Copied(Page(s.arr, nr), offset, data, written, be)),
              start |-> IF cut THEN s.start + written ELSE s.start,
              len |-> IF cut THEN s.len - written ELSE s.len]

(* write(): total_page_writes rounds.  ok is FALSE when an assertion       *)
(* failed, which ends the program.                                         *)
write(arr, addr, data, be) ==
    LET total == ((addr % PageSize) + Len(data)) \div PageSize + 1
        round[i \in 0 .. total] ==
            IF i = 0 THEN [ok |-> addr < SIZE, arr |-> arr, start |-> addr, len |-> Len(data)]
            ELSE WriteRound(round[i - 1], data, be)
    IN  [ok |-> round[total].ok, arr |-> round[total].arr]

(* read(): one page, which it allocates, and what lies beyond its end on   *)
(* the heap when the read is longer.                                       *)
read(arr, addr, len, beyond) ==
    LET nr == addr \div PageSize
        offs == addr % PageSize
    IN  IF addr >= SIZE THEN [ok |-> FALSE, arr |-> arr, data |-> <<>>]
        ELSE [ok |-> TRUE,
              arr |-> WithPage(arr, nr, Page(arr, nr)),
              data |-> [i \in 1 .. len |->
                           IF offs + i > PageSize THEN beyond ELSE Page(arr, nr)[offs + i - 1]]]
=============================================================================
