------------------------------ MODULE PmFormat ------------------------------
(***************************************************************************)
(* hex_to_ascii (src/pm_detect.c): the text of a binary page, two digits a *)
(* byte and a space between words, written cell by cell into a buffer that *)
(* was sized beforehand.                                                   *)
(*                                                                         *)
(* A cell of the buffer holds a digit, known by the byte and the half of   *)
(* it that it shows, a space, the terminator, or what malloc left there.   *)
(***************************************************************************)
EXTENDS Integers

VARIABLES
  buf_size,   \* bytes of the page
  i,          \* the next byte
  j,          \* the next cell
  ascii,      \* the buffer, a function from cell numbers
  in_hex      \* the loop is running

hexVars == <<buf_size, i, j, ascii, in_hex>>

word_size == 4

(* Faulty: forgets that the text has spaces. *)
AsciiSize_NoSpaces(n) == 2 * n + 1

(* The argument of malloc. *)
AsciiSize(n) == 2 * n + n \div word_size + 1

Cell == [kind : {"free", "space", "nul", "high", "low"}, byte : Int]

Blank(kind) == [kind |-> kind, byte |-> 0]
High(b)     == [kind |-> "high", byte |-> b]
Low(b)      == [kind |-> "low", byte |-> b]

Allocated(n) == [k \in 0 .. AsciiSize(n) - 1 |-> Blank("free")]

HexInit ==
  /\ i = 0 /\ j = 0
  /\ ascii = Allocated(buf_size)
  /\ in_hex = FALSE

---------------------------------------------------------------------------
(* malloc succeeds. *)
HexStart ==
  /\ ~in_hex
  /\ i' = 0 /\ j' = 0
  /\ ascii' = Allocated(buf_size)
  /\ in_hex' = TRUE
  /\ UNCHANGED buf_size

(* Faulty: a space before the first word too. *)
Spaces_First == IF i % word_size = 0 THEN 1 ELSE 0

(* The spaces written before byte i. *)
Spaces == IF i > 0 /\ i % word_size = 0 THEN 1 ELSE 0

(* One turn of the loop. *)
HexByte ==
  /\ in_hex
  /\ i < buf_size
  /\ ascii' = [k \in DOMAIN ascii |->
                 IF k = j + Spaces THEN High(i)
                 ELSE IF k = j + Spaces + 1 THEN Low(i)
                 ELSE IF k = j THEN Blank("space")
                 ELSE ascii[k]]
  /\ i' = i + 1
  /\ j' = j + Spaces + 2
  /\ UNCHANGED <<buf_size, in_hex>>

(* The terminator, and return. *)
HexEnd ==
  /\ in_hex
  /\ i >= buf_size
  /\ ascii' = [ascii EXCEPT ![j] = Blank("nul")]
  /\ in_hex' = FALSE
  /\ UNCHANGED <<buf_size, i, j>>

---------------------------------------------------------------------------
(* The next cell that hex_to_ascii writes, be it a digit, a space or the   *)
(* terminator, lies in the buffer, for every size of the page.             *)
HexFits == j + (IF in_hex /\ i < buf_size THEN Spaces + 1 ELSE 0) < AsciiSize(buf_size)

(* When hex_to_ascii returns, byte b is found at a position that depends   *)
(* on b alone, no cell before the terminator is left as malloc gave it,    *)
(* and the terminator follows the last digit.                              *)
HexLayout ==
  (~in_hex /\ i > 0) =>
    /\ \A b \in 0 .. buf_size - 1 :
         /\ ascii[2 * b + b \div word_size] = High(b)
         /\ ascii[2 * b + b \div word_size + 1] = Low(b)
    /\ \A w \in 1 .. (buf_size - 1) \div word_size :
         ascii[9 * w - 1] = Blank("space")
    /\ ascii[2 * buf_size + (buf_size - 1) \div word_size] = Blank("nul")
=============================================================================
