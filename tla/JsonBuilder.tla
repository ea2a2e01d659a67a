---------------------------- MODULE JsonBuilder ----------------------------
(***************************************************************************)
(* The JSON builder of external/jsonb.c as operators on a builder: a heap  *)
(* block, the position where the next text goes, and key_state.            *)
(*                                                                         *)
(* A key with its quotes and a value with its own are one cell each, every *)
(* other character is a cell: the room an operation reserves and the       *)
(* length of its text contain the same strlen of both, so that what is cut *)
(* off and what lies outside the block are the same cells as in the code.  *)
(***************************************************************************)
EXTENDS Integers, Sequences

Value == "value"  \* an int, a float, a bool or a quoted string
Nul == "\\0"
Comma == ","
Colon == ":"
OpenObject == "{"
CloseObject == "}"
OpenArray == "["
CloseArray == "]"
Openings == {OpenObject, OpenArray}
Stale == "?"      \* memory of the block that was never written

(* pjsonb_init, of an object "{" or an array "[".                          *)
NewBuilder(opening) == [block |-> <<opening>>, position |-> 1, toClose |-> FALSE]

(* realloc keeps what fits.                                                *)
Resized(block, n) ==
  [i \in 1..n |-> IF i \in DOMAIN block THEN block[i] ELSE Stale]

(* snprintf(block + position, room, text) after a realloc to position +    *)
(* room: at most room - 1 cells and a NUL are written, and position grows  *)
(* by the whole text.                                                      *)
Written(text, room) == Append(SubSeq(text, 1, room - 1), Nul)

Printed(b, room, text, toClose) ==
  LET w == Written(text, room) IN
  [block |-> [i \in 1..(b.position + room) |->
                IF i - b.position \in DOMAIN w THEN w[i - b.position]
                ELSE Resized(b.block, b.position + room)[i]],
   position |-> b.position + Len(text),
   toClose |-> toClose]

(* Mutant of SetKeyed: one byte less is reserved.                          *)
SetKeyedShort(b, key) == Printed(b, 3, <<key, Colon, Value, Comma>>, TRUE)

(* pjsonb_set_int, _float, _bool and _string with a key: the room has no   *)
(* place for the NUL, which overwrites the separator.                      *)
SetKeyed(b, key) == Printed(b, 4, <<key, Colon, Value, Comma>>, TRUE)

(* Mutant of SetItem: no room for the NUL, as in pjsonb_set_int without a  *)
(* key.                                                                    *)
SetItemShort(b) == Printed(b, 2, <<Value, Comma>>, TRUE)

(* pjsonb_set_string without a key.                                        *)
SetItem(b) == Printed(b, 3, <<Value, Comma>>, TRUE)

EnterObject(b, key) == Printed(b, 4, <<key, Colon, OpenObject>>, FALSE)

(* One byte less than the key, the colon, the bracket and a NUL take: the  *)
(* colon becomes a NUL, and the bracket is never written.                  *)
EnterArray(b, key) == Printed(b, 2, <<key, Colon, OpenArray>>, FALSE)

(* Mutant of LeaveObject: key_state is left alone.                         *)
LeaveObjectOpen(b) ==
  IF b.toClose
    THEN [block |-> [Resized(b.block, b.position + 1) EXCEPT
                       ![b.position] = CloseObject, ![b.position + 1] = Comma],
          position |-> b.position + 1, toClose |-> FALSE]
    ELSE Printed(b, 3, <<CloseObject, Comma>>, FALSE)

(* The last separator becomes the bracket; an empty object gets its own.   *)
LeaveObject(b) ==
  IF b.toClose
    THEN [block |-> [Resized(b.block, b.position + 1) EXCEPT
                       ![b.position] = CloseObject, ![b.position + 1] = Comma],
          position |-> b.position + 1, toClose |-> TRUE]
    ELSE Printed(b, 3, <<CloseObject, Comma>>, TRUE)

(* pjsonb_end: the last cell, of an empty builder the opening one, becomes *)
(* the bracket.                                                            *)
Closing(opening) == IF opening = OpenObject THEN CloseObject ELSE CloseArray
End(b) == [b EXCEPT !.block[b.position] = Closing(b.block[1])]

(* What callers send: `position` bytes of the block.                       *)
Body(b) == [i \in 1..b.position |-> b.block[i]]
=============================================================================
