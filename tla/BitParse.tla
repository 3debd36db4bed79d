------------------------------- MODULE BitParse -------------------------------
(***************************************************************************)
(* linux_app/bitParse: a value is cut into segments of four bits, which    *)
(* are printed from the highest down under a row of bit numbers.  A value, *)
(* and a segment, is the set of its bits that are one.  A row is what it   *)
(* prints, column by column; spaces and bars are left out.                 *)
(***************************************************************************)
EXTENDS Integers, Sequences

_seg_bit_len == 4
Values   == SUBSET (0..63)      \* u64
Segments == SUBSET (0..3)       \* u8, after "& 0xf"
Numbers  == Nat                 \* second argument

VARIABLES
  pc,
  _val, _val_bit_len, _segment,     \* the bitParse object
  i, bit,                           \* loop variables
  tags, row                         \* the two rows, as printed so far

vars == <<pc, _val, _val_bit_len, _segment, i, bit, tags, row>>

Init ==
  /\ pc = "main" /\ _val = {} /\ _val_bit_len = 0 /\ _segment = <<>>
  /\ i = 0 /\ bit = 0 /\ tags = <<>> /\ row = <<>>

is_parameter_invalid(val, argc, len) == val = {} \/ (argc = 3 /\ len = 0)

\* Without a value "val" stays zero; the length given is cut to a u8.
main ==
  /\ pc = "main"
  /\ \E argc \in 1..4, given \in Values, number \in Numbers :
       LET val == IF argc \in 2..3 THEN given ELSE {}
           len == IF argc = 3 THEN number % 256 ELSE 0
       IN  /\ pc' = IF is_parameter_invalid(val, argc, len) THEN "usage" ELSE "segments"
           /\ _val' = val /\ _val_bit_len' = IF len = 0 THEN 32 ELSE len
  /\ i' = 0
  /\ UNCHANGED <<_segment, bit, tags, row>>

Count == _val_bit_len \div _seg_bit_len

SEG_OF_VAL(seg_index) == {b \in 0..3 : b + seg_index * _seg_bit_len \in _val}

\* Shifting by 64 and more is undefined.
SegmentsAt(seg_index) ==
  IF seg_index * _seg_bit_len < 64 THEN {SEG_OF_VAL(seg_index)} ELSE Segments

_val_to_segval ==
  /\ pc = "segments"
  /\ \/ /\ i < Count
        /\ \E segval \in SegmentsAt(i) : _segment' = Append(_segment, segval)
        /\ i' = i + 1
        /\ UNCHANGED pc
     \/ /\ i >= Count
        /\ pc' = "tags" /\ i' = _val_bit_len - 1
        /\ UNCHANGED _segment
  /\ UNCHANGED <<_val, _val_bit_len, bit, tags, row>>

_print_bit_tag ==
  /\ pc = "tags"
  /\ \/ /\ i >= 0
        /\ tags' = Append(tags, i) /\ i' = i - 1
        /\ UNCHANGED <<pc, bit>>
     \/ /\ i < 0
        /\ pc' = "row" /\ i' = Count - 1 /\ bit' = _seg_bit_len - 1
        /\ UNCHANGED tags
  /\ UNCHANGED <<_val, _val_bit_len, _segment, row>>

BIT_OF_SEG(segment, b) == IF b \in segment THEN 1 ELSE 0

\* Prints segment i from its highest bit down, and goes on to the one below.
_print_segval_with_bit ==
  /\ pc = "row"
  /\ \/ /\ i >= 0
        /\ row' = Append(row, BIT_OF_SEG(_segment[i + 1], bit))
        /\ IF bit > 0 THEN bit' = bit - 1 /\ UNCHANGED i
                      ELSE bit' = _seg_bit_len - 1 /\ i' = i - 1
        /\ UNCHANGED pc
     \/ /\ i < 0 /\ pc' = "done"
        /\ UNCHANGED <<row, bit, i>>
  /\ UNCHANGED <<_val, _val_bit_len, _segment, tags>>

Next == main \/ _val_to_segval \/ _print_bit_tag \/ _print_segval_with_bit

Spec == Init /\ [][Next]_vars

-----------------------------------------------------------------------------
(***************************************************************************)
(* Properties.                                                             *)
(***************************************************************************)

Digit(b) == IF b \in _val THEN 1 ELSE 0

\* Bits above the last whole segment.
Rest == _val_bit_len % _seg_bit_len

\* Of a length up to the width of a value, the rows show each bit once, from
\* the highest down; bits that fill no segment have a number and no digit, so
\* that every digit then stands below a number too high by as many.
RowIsShifted ==
  pc = "done" /\ _val_bit_len <= 64 =>
    /\ Len(tags) = _val_bit_len /\ Len(row) = _val_bit_len - Rest
    /\ \A k \in 1..Len(row) : row[k] = Digit(tags[k] - Rest)

\* Of a length that fills its segments, every digit stands below its number.
RowsAgree ==
  pc = "done" /\ _val_bit_len <= 64 /\ Rest = 0 =>
    /\ Len(row) = Len(tags)
    /\ \A k \in 1..Len(row) : row[k] = Digit(tags[k])
=============================================================================
