---------------------------- MODULE BitParseProofs ----------------------------
(***************************************************************************)
(* Proofs about BitParse for every value and every length: what the two    *)
(* rows show.                                                              *)
(***************************************************************************)
EXTENDS BitParse, TLAPS

Bit == {0, 1}

TypeOK ==
  /\ pc \in {"main", "usage", "segments", "tags", "row", "done"}
  /\ _val \in Values /\ _val_bit_len \in 0..255
  /\ _segment \in Seq(Segments)
  /\ i \in Int /\ bit \in 0..3
  /\ tags \in Seq(Int) /\ row \in Seq(Bit)

\* A segment holds the bits of its place.
SegmentInv ==
  /\ pc \in {"main", "usage"} => _segment = <<>>
  /\ pc = "main" => i = 0
  /\ pc = "segments" => i \in 0..Count /\ Len(_segment) = i
  /\ pc \in {"tags", "row", "done"} => Len(_segment) = Count
  /\ _val_bit_len <= 64 =>
       \A k \in 1..Len(_segment) : _segment[k] = SEG_OF_VAL(k - 1)

\* The tags go down from the highest bit.
TagInv ==
  /\ pc \in {"main", "usage", "segments"} => tags = <<>>
  /\ pc = "tags" => i \in -1.._val_bit_len - 1 /\ Len(tags) = _val_bit_len - 1 - i
  /\ pc \in {"row", "done"} => Len(tags) = _val_bit_len
  /\ \A k \in 1..Len(tags) : tags[k] = _val_bit_len - k

\* The digits go down from the highest bit that is in a segment.
RowInv ==
  /\ pc \in {"main", "usage", "segments", "tags"} => row = <<>>
  /\ pc = "row" => /\ i \in -1..Count - 1 /\ (i = -1 => bit = 3)
                   /\ Len(row) = 4 * (Count - 1 - i) + 3 - bit
  /\ pc = "done" => Len(row) = 4 * Count
  /\ _val_bit_len <= 64 =>
       \A k \in 1..Len(row) : row[k] = Digit(4 * Count - k)

IInv == TypeOK /\ SegmentInv /\ TagInv /\ RowInv

-----------------------------------------------------------------------------
(***************************************************************************)
(* The steps.                                                              *)
(***************************************************************************)

LEMMA Appended ==
  ASSUME NEW S, NEW s \in Seq(S), NEW e \in S
  PROVE  /\ Append(s, e) \in Seq(S)
         /\ Len(Append(s, e)) = Len(s) + 1 /\ Len(s) \in Nat
         /\ \A k \in 1..Len(s) : Append(s, e)[k] = s[k]
         /\ Append(s, e)[Len(s) + 1] = e
  OBVIOUS

LEMMA CountType ==
  ASSUME _val_bit_len \in 0..255
  PROVE  /\ Count \in 0..63 /\ 4 * Count = _val_bit_len - Rest /\ Rest \in 0..3
         /\ _val_bit_len <= 64 => Count <= 16
  BY DEF Count, Rest, _seg_bit_len

LEMMA InitInv == Init => IInv
<1> SUFFICES ASSUME Init PROVE IInv
  OBVIOUS
<1>1. Len(_segment) = 0 /\ Len(tags) = 0 /\ Len(row) = 0
  BY DEF Init
<1>2. TypeOK
  BY DEF Init, TypeOK, Values
<1> QED
  BY <1>1, <1>2 DEF Init, IInv, SegmentInv, TagInv, RowInv

LEMMA MainStep == IInv /\ main => IInv'
<1> SUFFICES ASSUME IInv, main PROVE IInv'
  OBVIOUS
<1>1. /\ pc' \in {"usage", "segments"} /\ _val' \in Values /\ _val_bit_len' \in 0..255
  <2>1. PICK argc \in 1..4, given \in Values, number \in Numbers :
          LET val == IF argc \in 2..3 THEN given ELSE {}
              len == IF argc = 3 THEN number % 256 ELSE 0
          IN  /\ pc' = IF is_parameter_invalid(val, argc, len) THEN "usage" ELSE "segments"
              /\ _val' = val /\ _val_bit_len' = IF len = 0 THEN 32 ELSE len
    BY DEF main
  <2>2. number % 256 \in 0..255
    BY DEF Numbers
  <2>3. {} \in Values
    BY DEF Values
  <2> QED
    BY <2>1, <2>2, <2>3
<1>2. i' = 0 /\ UNCHANGED <<_segment, bit, tags, row>>
  BY DEF main
<1>3. _segment = <<>> /\ tags = <<>> /\ row = <<>> /\ bit \in 0..3
  BY DEF main, IInv, TypeOK, SegmentInv, TagInv, RowInv
<1>4. Len(_segment') = 0 /\ Len(tags') = 0 /\ Len(row') = 0
  BY <1>2, <1>3
<1>5. Count' \in 0..63
  <2>1. \A n \in 0..255 : n \div 4 \in 0..63
    OBVIOUS
  <2>2. Count' = _val_bit_len' \div 4
    BY DEF Count, _seg_bit_len
  <2> QED
    BY <1>1, <2>1, <2>2
<1>6. TypeOK'
  BY <1>1, <1>2, <1>3 DEF TypeOK
<1>7. SegmentInv'
  BY <1>1, <1>2, <1>3, <1>4, <1>5 DEF SegmentInv
<1>8. TagInv'
  <2>1. tags' = <<>> /\ 1..Len(tags') = {}
    BY <1>2, <1>3, <1>4
  <2> QED
    BY <1>1, <2>1 DEF TagInv
<1>9. RowInv'
  BY <1>1, <1>2, <1>3, <1>4 DEF RowInv
<1> QED
  BY <1>6, <1>7, <1>8, <1>9 DEF IInv

LEMMA SegmentStep == IInv /\ _val_to_segval => IInv'
<1> SUFFICES ASSUME IInv, _val_to_segval PROVE IInv'
  OBVIOUS
<1>1. /\ pc = "segments" /\ UNCHANGED <<_val, _val_bit_len, bit, tags, row>>
      /\ tags = <<>> /\ row = <<>> /\ Len(tags) = 0 /\ Len(row) = 0
  BY DEF _val_to_segval, IInv, TagInv, RowInv
<1>2. i \in 0..Count /\ Len(_segment) = i /\ Count' = Count /\ Count \in 0..63
  BY <1>1, CountType DEF IInv, TypeOK, SegmentInv, Count
<1>3. CASE i < Count
  <2>1. PICK segval \in SegmentsAt(i) : _segment' = Append(_segment, segval)
    BY <1>3, <1>2 DEF _val_to_segval
  <2>2. i' = i + 1 /\ pc' = pc
    BY <1>3, <1>2 DEF _val_to_segval
  <2>3. segval \in Segments /\ (_val_bit_len <= 64 => segval = SEG_OF_VAL(i))
    <3>1. SEG_OF_VAL(i) \in Segments
      BY DEF SEG_OF_VAL, Segments
    <3>2. _val_bit_len <= 64 => i * _seg_bit_len < 64
      BY <1>2, <1>3, CountType DEF IInv, TypeOK, _seg_bit_len
    <3> QED
      BY <2>1, <3>1, <3>2 DEF SegmentsAt
  <2>4. /\ _segment' \in Seq(Segments) /\ Len(_segment') = i + 1
        /\ \A k \in 1..i : _segment'[k] = _segment[k]
        /\ _segment'[i + 1] = segval
    BY <1>2, <2>1, <2>3, Appended DEF IInv, TypeOK
  <2>5. \A n : SEG_OF_VAL(n)' = SEG_OF_VAL(n)
    BY <1>1 DEF SEG_OF_VAL
  <2>6. _val_bit_len <= 64 =>
          \A k \in 1..Len(_segment') : _segment'[k] = SEG_OF_VAL(k - 1)
    <3> SUFFICES ASSUME _val_bit_len <= 64, NEW k \in 1..i + 1
                 PROVE  _segment'[k] = SEG_OF_VAL(k - 1)
      BY <2>4
    <3>1. CASE k = i + 1
      <4>1. k - 1 = i
        BY <1>2, <3>1
      <4> QED
        BY <2>3, <2>4, <3>1, <4>1
    <3>2. CASE k \in 1..i
      BY <1>2, <2>4, <3>2 DEF IInv, SegmentInv
    <3> QED
      BY <1>2, <3>1, <3>2
  <2>7. TypeOK'
    BY <1>1, <1>2, <2>2, <2>4 DEF IInv, TypeOK
  <2>8. SegmentInv'
    BY <1>1, <1>2, <1>3, <2>2, <2>4, <2>5, <2>6 DEF SegmentInv
  <2> QED
    BY <1>1, <2>2, <2>7, <2>8 DEF IInv, TagInv, RowInv
<1>4. CASE i >= Count
  <2>1. pc' = "tags" /\ i' = _val_bit_len - 1 /\ UNCHANGED _segment
    BY <1>2, <1>4 DEF _val_to_segval
  <2>2. TypeOK'
    BY <1>1, <2>1 DEF IInv, TypeOK
  <2>3. SegmentInv'
    BY <1>1, <1>2, <1>4, <2>1 DEF IInv, SegmentInv, SEG_OF_VAL
  <2>4. TagInv' /\ RowInv'
    BY <1>1, <2>1 DEF IInv, TypeOK, TagInv, RowInv
  <2> QED
    BY <2>2, <2>3, <2>4 DEF IInv
<1> QED
  BY <1>2, <1>3, <1>4

LEMMA TagStep == IInv /\ _print_bit_tag => IInv'
<1> SUFFICES ASSUME IInv, _print_bit_tag PROVE IInv'
  OBVIOUS
<1>1. /\ pc = "tags" /\ UNCHANGED <<_val, _val_bit_len, _segment, row>>
      /\ row = <<>> /\ Len(row) = 0
  BY DEF _print_bit_tag, IInv, RowInv
<1>2. /\ i \in -1.._val_bit_len - 1 /\ Len(tags) = _val_bit_len - 1 - i
      /\ _val_bit_len \in 0..255 /\ Count' = Count /\ Count \in 0..63
      /\ Len(_segment) = Count
  BY <1>1, CountType DEF IInv, TypeOK, TagInv, SegmentInv, Count
<1>3. SegmentInv'
  BY <1>1, <1>2 DEF _print_bit_tag, IInv, SegmentInv, SEG_OF_VAL
<1>4. CASE i >= 0
  <2>1. tags' = Append(tags, i) /\ i' = i - 1 /\ UNCHANGED <<pc, bit>>
    BY <1>2, <1>4 DEF _print_bit_tag
  <2>2. tags \in Seq(Int) /\ i \in Int
    BY DEF IInv, TypeOK
  <2>3. /\ tags' \in Seq(Int) /\ Len(tags') = Len(tags) + 1
        /\ \A k \in 1..Len(tags) : tags'[k] = tags[k]
        /\ tags'[Len(tags) + 1] = i
    BY <2>1, <2>2, Appended
  <2>4. \A k \in 1..Len(tags') : tags'[k] = _val_bit_len - k
    <3> SUFFICES ASSUME NEW k \in 1..Len(tags') PROVE tags'[k] = _val_bit_len - k
      OBVIOUS
    <3>1. CASE k = Len(tags) + 1
      BY <1>2, <2>3, <3>1
    <3>2. CASE k \in 1..Len(tags)
      BY <2>3, <3>2 DEF IInv, TagInv
    <3> QED
      BY <1>2, <2>3, <3>1, <3>2
  <2>5. TagInv'
    BY <1>1, <1>2, <1>4, <2>1, <2>3, <2>4 DEF TagInv
  <2>6. TypeOK'
    BY <1>1, <2>1, <2>2, <2>3 DEF IInv, TypeOK
  <2>7. RowInv'
    BY <1>1, <2>1 DEF RowInv
  <2> QED
    BY <1>3, <2>5, <2>6, <2>7 DEF IInv
<1>5. CASE i < 0
  <2>1. pc' = "row" /\ i' = Count - 1 /\ bit' = 3 /\ UNCHANGED tags
    BY <1>2, <1>5 DEF _print_bit_tag, _seg_bit_len
  <2>2. TypeOK'
    BY <1>1, <1>2, <2>1 DEF IInv, TypeOK
  <2>3. TagInv'
    BY <1>1, <1>2, <1>5, <2>1 DEF IInv, TagInv
  <2>4. RowInv'
    BY <1>1, <1>2, <2>1 DEF RowInv
  <2> QED
    BY <1>3, <2>2, <2>3, <2>4 DEF IInv
<1> QED
  BY <1>2, <1>4, <1>5

\* A bit of segment i is a bit of the value.
LEMMA DigitOfSegment ==
  ASSUME NEW n \in Nat, NEW b \in 0..3
  PROVE  BIT_OF_SEG(SEG_OF_VAL(n), b) = Digit(4 * n + b)
<1>1. b + n * _seg_bit_len = 4 * n + b
  BY DEF _seg_bit_len
<1>2. b \in SEG_OF_VAL(n) <=> 4 * n + b \in _val
  BY <1>1 DEF SEG_OF_VAL
<1> QED
  BY <1>2 DEF BIT_OF_SEG, Digit

LEMMA RowStep == IInv /\ _print_segval_with_bit => IInv'
<1> SUFFICES ASSUME IInv, _print_segval_with_bit PROVE IInv'
  OBVIOUS
<1>1. pc = "row" /\ UNCHANGED <<_val, _val_bit_len, _segment, tags>>
  BY DEF _print_segval_with_bit
<1>2. /\ i \in -1..Count - 1 /\ (i = -1 => bit = 3) /\ bit \in 0..3
      /\ Len(row) = 4 * (Count - 1 - i) + 3 - bit
      /\ _val_bit_len \in 0..255 /\ Count' = Count /\ Count \in 0..63
      /\ Len(_segment) = Count
  BY <1>1, CountType DEF IInv, TypeOK, RowInv, SegmentInv, Count
<1>3. pc' \in {"row", "done"}
  BY <1>1 DEF _print_segval_with_bit
<1>4. SegmentInv' /\ TagInv'
  BY <1>1, <1>2, <1>3 DEF IInv, SegmentInv, TagInv, SEG_OF_VAL
<1>5. CASE i >= 0
  <2>1. /\ row' = Append(row, BIT_OF_SEG(_segment[i + 1], bit)) /\ pc' = pc
        /\ bit > 0 => bit' = bit - 1 /\ i' = i
        /\ bit = 0 => bit' = 3 /\ i' = i - 1
    BY <1>2, <1>5 DEF _print_segval_with_bit, _seg_bit_len
  <2>2. row \in Seq(Bit) /\ BIT_OF_SEG(_segment[i + 1], bit) \in Bit
    BY DEF IInv, TypeOK, BIT_OF_SEG, Bit
  <2>3. /\ row' \in Seq(Bit) /\ Len(row') = Len(row) + 1
        /\ \A k \in 1..Len(row) : row'[k] = row[k]
        /\ row'[Len(row) + 1] = BIT_OF_SEG(_segment[i + 1], bit)
    BY <2>1, <2>2, Appended
  <2>4. _val_bit_len <= 64 =>
          \A k \in 1..Len(row') : row'[k] = Digit(4 * Count - k)
    <3> SUFFICES ASSUME _val_bit_len <= 64, NEW k \in 1..Len(row')
                 PROVE  row'[k] = Digit(4 * Count - k)
      OBVIOUS
    <3>1. CASE k = Len(row) + 1
      <4>1. _segment[i + 1] = SEG_OF_VAL(i)
        <5>1. PICK m \in 1..Len(_segment) : m = i + 1
          BY <1>2, <1>5
        <5>2. _segment[m] = SEG_OF_VAL(m - 1)
          BY <5>1 DEF IInv, SegmentInv
        <5>3. m - 1 = i
          BY <5>1, <1>2
        <5> QED
          BY <5>1, <5>2, <5>3
      <4>2. BIT_OF_SEG(SEG_OF_VAL(i), bit) = Digit(4 * i + bit)
        <5>1. i \in Nat /\ bit \in 0..3
          BY <1>2, <1>5
        <5> QED
          BY <5>1, DigitOfSegment
      <4>3. 4 * Count - k = 4 * i + bit
        BY <1>2, <3>1
      <4> QED
        BY <2>3, <3>1, <4>1, <4>2, <4>3
    <3>2. CASE k \in 1..Len(row)
      BY <2>3, <3>2 DEF IInv, RowInv
    <3> QED
      BY <1>2, <2>3, <3>1, <3>2
  <2>5. /\ i' \in -1..Count - 1 /\ (i' = -1 => bit' = 3) /\ bit' \in 0..3
        /\ Len(row') = 4 * (Count - 1 - i') + 3 - bit'
    <3>1. Len(row') = 4 * (Count - 1 - i) + 4 - bit
      BY <1>2, <2>3
    <3>2. CASE bit > 0
      <4>1. bit' = bit - 1 /\ i' = i
        BY <2>1, <3>2
      <4> QED
        BY <1>2, <1>5, <3>1, <3>2, <4>1
    <3>3. CASE bit = 0
      <4>1. bit' = 3 /\ i' = i - 1
        BY <2>1, <3>3
      <4>2. 4 * (Count - 1 - i) + 4 = 4 * (Count - 1 - (i - 1))
        BY <1>2
      <4>3. Len(row') = 4 * (Count - 1 - i') + 3 - bit'
        BY <1>2, <3>1, <3>3, <4>1, <4>2
      <4> QED
        BY <1>2, <1>5, <4>1, <4>3
    <3> QED
      BY <1>2, <3>2, <3>3
  <2>6. TypeOK'
    BY <1>1, <1>2, <2>1, <2>3, <2>5 DEF IInv, TypeOK
  <2>7. \A n : Digit(n)' = Digit(n)
    BY <1>1 DEF Digit
  <2>8. RowInv'
    BY <1>1, <1>2, <2>1, <2>4, <2>5, <2>7 DEF RowInv
  <2> QED
    BY <1>4, <2>6, <2>8 DEF IInv
<1>6. CASE i < 0
  <2>1. pc' = "done" /\ UNCHANGED <<row, bit, i>>
    BY <1>2, <1>6 DEF _print_segval_with_bit
  <2>2. TypeOK'
    BY <1>1, <2>1 DEF IInv, TypeOK
  <2>3. Len(row') = 4 * Count
    BY <1>2, <1>6, <2>1
  <2>4. RowInv'
    BY <1>1, <1>2, <2>1, <2>3 DEF IInv, RowInv, Digit
  <2> QED
    BY <1>4, <2>2, <2>4 DEF IInv
<1> QED
  BY <1>2, <1>5, <1>6

LEMMA StutterStep == IInv /\ UNCHANGED vars => IInv'
  BY DEF vars, IInv, TypeOK, SegmentInv, TagInv, RowInv, Count, SEG_OF_VAL, Digit

\* The inductive invariant: where the loops are, and what they have stored and
\* printed so far.
THEOREM Invariant == Spec => []IInv
<1>1. IInv /\ [Next]_vars => IInv'
  BY MainStep, SegmentStep, TagStep, RowStep, StutterStep DEF Next
<1> QED
  BY <1>1, InitInv, PTL DEF Spec

-----------------------------------------------------------------------------
(***************************************************************************)
(* What the rows show.                                                     *)
(***************************************************************************)

LEMMA Shifted == IInv => RowIsShifted
<1> SUFFICES ASSUME IInv, pc = "done", _val_bit_len <= 64
             PROVE  /\ Len(tags) = _val_bit_len /\ Len(row) = _val_bit_len - Rest
                    /\ \A k \in 1..Len(row) : row[k] = Digit(tags[k] - Rest)
  BY DEF RowIsShifted
<1>1. /\ _val_bit_len \in 0..255 /\ 4 * Count = _val_bit_len - Rest
      /\ Count \in 0..63 /\ Rest \in 0..3
  BY CountType DEF IInv, TypeOK
<1>2. Len(tags) = _val_bit_len /\ Len(row) = 4 * Count
  BY DEF IInv, TagInv, RowInv
<1>3. ASSUME NEW k \in 1..Len(row) PROVE row[k] = Digit(tags[k] - Rest)
  <2>1. k \in 1..Len(tags)
    BY <1>1, <1>2
  <2>2. tags[k] = _val_bit_len - k /\ row[k] = Digit(4 * Count - k)
    BY <2>1 DEF IInv, TagInv, RowInv
  <2>3. tags[k] - Rest = 4 * Count - k
    BY <1>1, <1>2, <2>1, <2>2
  <2> QED
    BY <2>2, <2>3
<1> QED
  BY <1>1, <1>2, <1>3

\* Of any value and any length up to 64 the rows show each bit once, in order,
\* each digit below a number too high by the bits that fill no segment.
THEOREM RowsShifted == Spec => []RowIsShifted
  BY Invariant, Shifted, PTL

\* Of a length that is a multiple of four every digit stands below its number.
THEOREM RowsAligned == Spec => []RowsAgree
<1>1. IInv => RowsAgree
  <2> SUFFICES ASSUME IInv, pc = "done", _val_bit_len <= 64, Rest = 0
               PROVE  /\ Len(row) = Len(tags)
                      /\ \A k \in 1..Len(row) : row[k] = Digit(tags[k])
    BY DEF RowsAgree
  <2>1. /\ Len(tags) = _val_bit_len /\ Len(row) = _val_bit_len - Rest
        /\ \A k \in 1..Len(row) : row[k] = Digit(tags[k] - Rest)
    BY Shifted DEF RowIsShifted
  <2>2. _val_bit_len \in Int /\ \A k \in 1..Len(tags) : tags[k] \in Int
    BY DEF IInv, TypeOK
  <2>3. \A k \in 1..Len(tags) : tags[k] - Rest = tags[k]
    BY <2>2
  <2> QED
    BY <2>1, <2>2, <2>3
<1> QED
  BY <1>1, Invariant, PTL
=============================================================================
