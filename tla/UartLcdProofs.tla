---------------------------- MODULE UartLcdProofs ----------------------------
(***************************************************************************)
(* Proofs about UartLcd for any number of terminals, any buffer and any    *)
(* bytes: an undisturbed command shows its page, and an undisturbed        *)
(* receiver prints what was sent.                                          *)
(***************************************************************************)
EXTENDS UartLcd, SequenceTheorems, TLAPS

Places == {"shell", "set_opt", "set_attr", "command", "over", "read", "print"}

Lcds == [held : Partial \cup {Junk}, ffs : 0..2, screen : Pages \cup {"boot"}]

RunsOK == pc \in [Terminals -> Places] /\ opt \in [Terminals -> Options]

LineOK == configured \in BOOLEAN /\ inbox \in Seq(Bytes) /\ Len(inbox) <= MaxInbox

BuffersOK == /\ rev \in [Terminals -> [1..RevSize -> Bytes]]
             /\ size \in [Terminals -> 0..RevSize]

GhostsOK == /\ sole \in [Terminals -> {"no", "part", "whole"}]
            /\ shown \in Pages \cup {"none", "idle"}
            /\ exact \in [Terminals -> BOOLEAN] /\ owed \in Seq(Bytes \cup {"?"})

\* Only a run with a page name for an option writes.
PageInv == \A t \in Terminals : pc[t] \in {"command", "over"} => opt[t] \in Pages

\* Between the two writes of a run that is alone there is no FF on the LCD,
\* which holds its command if that was whole.
SoleInv ==
  \A t \in Terminals :
    /\ sole[t] # "no" => pc[t] = "over" /\ lcd.ffs = 0
    /\ sole[t] = "whole" => lcd.held = Command(opt[t])

\* What an undisturbed receiver has in its buffer ends with a NUL, the first.
BufferInv(t) ==
  pc[t] = "print" =>
    /\ size[t] < RevSize
    /\ \A k \in 1..size[t] : rev[t][k] # NUL
    /\ rev[t][size[t] + 1] = NUL

\* There is one such receiver at most, since every one takes what others
\* were owed.
Receives(t) ==
  /\ pc[t] \in {"set_attr", "read", "print"}
  /\ pc[t] = "set_attr" => opt[t] = "recv"
  /\ \A u \in Terminals : exact[u] => u = t
  /\ BufferInv(t)
  /\ owed = Unread(t) \o inbox

ExactInv == \A t \in Terminals : exact[t] => Receives(t)

IInv == TypeOK /\ PageInv /\ SoleInv /\ PageShown /\ LcdRecovers /\ ExactInv

LEMMA TypeParts == TypeOK <=> RunsOK /\ LineOK /\ BuffersOK /\ GhostsOK /\ lcd \in Lcds
BY DEF TypeOK, RunsOK, LineOK, BuffersOK, GhostsOK, Lcds, Places

LEMMA TypePartsNext ==
  TypeOK' <=> RunsOK' /\ LineOK' /\ BuffersOK' /\ GhostsOK' /\ lcd' \in Lcds
BY DEF TypeOK, RunsOK, LineOK, BuffersOK, GhostsOK, Lcds, Places

-----------------------------------------------------------------------------
(***************************************************************************)
(* The display.                                                            *)
(***************************************************************************)

LEMMA LcdTakesType ==
  ASSUME NEW l \in Lcds, NEW unit
  PROVE  LcdTakes(l, unit) \in Lcds
<1>1. Hold(l, unit) \in Partial \cup {Junk}
  BY DEF Hold
<1>2. ScreenAfter(l) \in Pages \cup {"boot"}
  <2>1. CASE \E page \in Pages : l.held = Command(page)
    <3>1. PICK page \in Pages : l.held = Command(page)
      BY <2>1
    <3>2. Command(page)[2] = page
      BY DEF Command
    <3> QED
      BY <2>1, <3>1, <3>2 DEF ScreenAfter
  <2>2. CASE ~\E page \in Pages : l.held = Command(page)
    BY <2>2 DEF ScreenAfter, Lcds
  <2> QED
    BY <2>1, <2>2
<1>3. <<>> \in Partial
  BY DEF Partial
<1>4. l.held \in Partial \cup {Junk} /\ l.ffs \in 0..2 /\ l.screen \in Pages \cup {"boot"}
  BY DEF Lcds
<1>5. l.ffs < 2 => l.ffs + 1 \in 0..2
  BY <1>4
<1> QED
  BY <1>1, <1>2, <1>3, <1>4, <1>5 DEF LcdTakes, Lcds

LEMMA LcdAfterType ==
  ASSUME NEW l \in Lcds, NEW units, NEW n \in Nat
  PROVE  LcdAfter(l, units, n) \in Lcds
<1> DEFINE one == IF n > 0 THEN LcdTakes(l, units[1]) ELSE l
           two == IF n > 1 THEN LcdTakes(one, units[2]) ELSE one
           all == IF n > 2 THEN LcdTakes(two, units[3]) ELSE two
<1>1. one \in Lcds
  BY LcdTakesType
<1> HIDE DEF one
<1>2. two \in Lcds
  BY <1>1, LcdTakesType
<1> HIDE DEF two
<1>3. all \in Lcds
  BY <1>2, LcdTakesType
<1> QED
  BY <1>3 DEF LcdAfter, one, two

LEMMA FirstAppended ==
  ASSUME NEW x
  PROVE  Append(<<>>, x) = <<x>>
<1> DEFINE s == Append(<<>>, x)
           p == <<x>>
<1>1. <<>> \in Seq({x}) /\ Len(<<>>) = 0 /\ p \in Seq({x}) /\ Len(p) = 1 /\ p[1] = x
  OBVIOUS
<1>2. s \in Seq({x}) /\ Len(s) = 1 /\ s[1] = x
  BY <1>1, AppendProperties
<1> HIDE DEF s, p
<1>3. \A k \in 1..Len(s) : s[k] = p[k]
  BY <1>1, <1>2
<1> QED
  BY <1>1, <1>2, <1>3, SeqEqual

LEMMA SecondAppended ==
  ASSUME NEW S, NEW one \in Seq(S), Len(one) = 1, NEW y \in S
  PROVE  Append(one, y) = <<one[1], y>>
<1> DEFINE s == Append(one, y)
           p == <<one[1], y>>
<1>1. one[1] \in S
  BY ElementOfSeq
<1>2. p \in Seq(S) /\ Len(p) = 2 /\ p[1] = one[1] /\ p[2] = y
  BY <1>1
<1>3. \A k \in 1..Len(one) : s[k] = one[k]
  BY AppendProperties
<1>4. s[Len(one) + 1] = y
  BY AppendProperties
<1>5. s \in Seq(S)
  BY AppendProperties
<1>6. Len(s) = Len(one) + 1
  BY AppendProperties
<1> HIDE DEF p, s
<1>7. Len(s) = 2 /\ s[1] = one[1] /\ s[2] = y
  BY <1>3, <1>4, <1>6
<1>8. \A k \in 1..Len(s) : s[k] = p[k]
  BY <1>2, <1>7
<1>9. s = p
  BY <1>2, <1>5, <1>7, <1>8, SeqEqual
<1> QED
  BY <1>9 DEF s, p

\* An idle LCD that takes all of a command holds it.
LEMMA CommandHeld ==
  ASSUME NEW l \in Lcds, l.held = <<>>, l.ffs = 0, NEW page \in Pages
  PROVE  /\ LcdAfter(l, Command(page), 2).held = Command(page)
         /\ LcdAfter(l, Command(page), 2).ffs = 0
<1> DEFINE one == LcdTakes(l, "page")
           two == LcdTakes(one, page)
<1>1. "page" # FF /\ page # FF
  BY DEF FF, Pages
<1>2. Append(<<>>, "page") = <<"page">> /\ Append(<<"page">>, page) = Command(page)
  <2>1. Append(<<>>, "page") = <<"page">>
    BY FirstAppended
  <2>2. Append(<<"page">>, page) = <<"page", page>>
    <3> DEFINE first == <<"page">>
               S == Pages \cup {"page"}
    <3>1. first \in Seq(S) /\ Len(first) = 1 /\ first[1] = "page" /\ page \in S
      OBVIOUS
    <3> HIDE DEF first, S
    <3>2. Append(first, page) = <<first[1], page>>
      BY <3>1, SecondAppended
    <3> QED
      BY <3>1, <3>2 DEF first
  <2> QED
    BY <2>1, <2>2 DEF Command
<1>3. <<"page">> \in Partial /\ Command(page) \in Partial
  BY DEF Partial
<1>4. one.held = <<"page">> /\ one.ffs = 0
  BY <1>1, <1>2, <1>3 DEF LcdTakes, Hold
<1> HIDE DEF one
<1>5. two.held = Command(page) /\ two.ffs = 0
  BY <1>1, <1>2, <1>3, <1>4 DEF LcdTakes, Hold
<1>6. LcdAfter(l, Command(page), 2) = two
  BY DEF LcdAfter, Command, one
<1> QED
  BY <1>5, <1>6

\* Whatever it held, any part of a command ends a row of FFs.
LEMMA NoFFsHeld ==
  ASSUME NEW l \in Lcds, NEW page \in Pages, NEW n \in 1..2
  PROVE  LcdAfter(l, Command(page), n).ffs = 0
<1> DEFINE one == LcdTakes(l, "page")
           two == LcdTakes(one, page)
<1>1. "page" # FF /\ page # FF
  BY DEF FF, Pages
<1>2. one.ffs = 0 /\ two.ffs = 0
  BY <1>1 DEF LcdTakes
<1>3. LcdAfter(l, Command(page), n) = IF n = 1 THEN one ELSE two
  BY DEF LcdAfter, Command
<1> QED
  BY <1>2, <1>3

\* Three FFs without one before them leave the LCD idle, whatever it held.
LEMMA TerminatorEnds ==
  ASSUME NEW l \in Lcds, l.ffs = 0
  PROVE  LET after == LcdAfter(l, Terminator, 3)
         IN  after.held = <<>> /\ after.ffs = 0
<1> DEFINE one == LcdTakes(l, FF)
           two == LcdTakes(one, FF)
           all == LcdTakes(two, FF)
<1>1. one.ffs = 1
  BY DEF LcdTakes
<1> HIDE DEF one
<1>2. two.ffs = 2
  BY <1>1 DEF LcdTakes
<1> HIDE DEF two
<1>3. all.held = <<>> /\ all.ffs = 0
  BY <1>2 DEF LcdTakes
<1>4. LcdAfter(l, Terminator, 3) = all
  BY DEF LcdAfter, Terminator, over, one, two
<1> QED
  BY <1>3, <1>4

\* Three FFs after it show the page and leave the LCD idle.
LEMMA CommandShown ==
  ASSUME NEW l \in Lcds, NEW page \in Pages, l.held = Command(page), l.ffs = 0
  PROVE  LET after == LcdAfter(l, Terminator, 3)
         IN  after.held = <<>> /\ after.ffs = 0 /\ after.screen = page
<1> DEFINE one == LcdTakes(l, FF)
           two == LcdTakes(one, FF)
           all == LcdTakes(two, FF)
<1>1. one.held = Command(page) /\ one.ffs = 1
  BY DEF LcdTakes
<1> HIDE DEF one
<1>2. two.held = Command(page) /\ two.ffs = 2
  BY <1>1 DEF LcdTakes
<1> HIDE DEF two
<1>3. ScreenAfter(two) = page
  BY <1>2 DEF ScreenAfter, Command
<1>4. all.held = <<>> /\ all.ffs = 0 /\ all.screen = page
  BY <1>2, <1>3 DEF LcdTakes
<1>5. LcdAfter(l, Terminator, 3) = all
  BY DEF LcdAfter, Terminator, over, one, two
<1> QED
  BY <1>4, <1>5

-----------------------------------------------------------------------------
(***************************************************************************)
(* The receive buffer.                                                     *)
(***************************************************************************)

LEMMA InboxParts ==
  ASSUME NEW s \in Seq(Bytes), NEW n \in 0..Len(s)
  PROVE  /\ SubSeq(s, 1, n) \in Seq(Bytes) /\ Len(SubSeq(s, 1, n)) = n
         /\ SubSeq(s, n + 1, Len(s)) \in Seq(Bytes)
         /\ Len(SubSeq(s, n + 1, Len(s))) = Len(s) - n
         /\ SubSeq(s, 1, n) \o SubSeq(s, n + 1, Len(s)) = s
         /\ n = 0 => SubSeq(s, n + 1, Len(s)) = s
<1>1. Len(s) \in Nat /\ \A k \in 1..Len(s) : s[k] \in Bytes
  BY LenProperties, ElementOfSeq
<1>2. \A k \in 1..n : s[k] \in Bytes
  BY <1>1
<1>3. SubSeq(s, 1, n) \in Seq(Bytes) /\ Len(SubSeq(s, 1, n)) = n
  BY <1>1, <1>2, SubSeqProperties
<1>4. \A k \in n + 1..Len(s) : s[k] \in Bytes
  BY <1>1
<1>5. SubSeq(s, n + 1, Len(s)) \in Seq(Bytes)
      /\ Len(SubSeq(s, n + 1, Len(s))) = Len(s) - n
  BY <1>1, <1>4, SubSeqProperties
<1>6. n = 0 => SubSeq(s, n + 1, Len(s)) = s
  BY SubSeqFull
<1>7. SubSeq(s, 1, n) \o SubSeq(s, n + 1, Len(s)) = SubSeq(s, 1, Len(s))
  <2>1. 1 \in 1..Len(s) + 1 /\ n \in 1 - 1..Len(s) /\ Len(s) \in n..Len(s)
    BY <1>1
  <2> QED
    BY <2>1, ConcatAdjacentSubSeq
<1> QED
  BY <1>3, <1>5, <1>6, <1>7, SubSeqFull

\* A buffer begins with the bytes that were read, and has NULs behind them.
LEMMA BufferHolds ==
  ASSUME NEW t \in Terminals, NEW bytes \in Seq(Bytes), Len(bytes) <= RevSize
  PROVE  /\ Buffer(t, bytes) \in [1..RevSize -> Bytes]
         /\ SubSeq(Buffer(t, bytes), 1, Len(bytes)) = bytes
         /\ \A k \in 1..Len(bytes) : Buffer(t, bytes)[k] = bytes[k]
         /\ Len(bytes) < RevSize => Buffer(t, bytes)[Len(bytes) + 1] = NUL
<1> DEFINE n == Len(bytes)
           b == Buffer(t, bytes)
           s == SubSeq(b, 1, n)
<1>1. n \in Nat /\ \A k \in 1..n : bytes[k] \in Bytes
  BY LenProperties, ElementOfSeq
<1>2. b \in [1..RevSize -> Bytes]
  BY <1>1, ByteAssumption, BoundAssumption DEF Buffer
<1>3. \A k \in 1..n : b[k] = bytes[k]
  BY <1>1, BoundAssumption DEF Buffer
<1>4. n < RevSize => b[n + 1] = NUL
  BY <1>1, BoundAssumption DEF Buffer
<1> HIDE DEF b
<1>5. \A k \in 1..n : b[k] \in Bytes
  BY <1>1, <1>3
<1>6. s \in Seq(Bytes) /\ Len(s) = n /\ \A k \in 1..n - 1 + 1 : s[k] = b[1 + k - 1]
  BY <1>1, <1>5, SubSeqProperties
<1>7. \A k \in 1..Len(s) : s[k] = bytes[k]
  BY <1>1, <1>3, <1>6
<1>8. s = bytes
  <2> HIDE DEF s
  <2> QED
    BY <1>6, <1>7, SeqEqual
<1> QED
  BY <1>2, <1>3, <1>4, <1>8 DEF b

LEMMA BufferIsSeq ==
  ASSUME NEW b \in [1..RevSize -> Bytes]
  PROVE  b \in Seq(Bytes) /\ Len(b) = RevSize
BY BoundAssumption

\* A print that is owed shows no more than the bytes of the line and, past
\* a full buffer, something else.
LEMMA PrintableType ==
  ASSUME NEW b \in [1..RevSize -> Bytes], NEW text \in Printable(b)
  PROVE  text \in Seq(Bytes \cup {"?"})
<1>1. b \in Seq(Bytes) /\ Len(b) = RevSize
  BY BufferIsSeq
<1>2. b \in Seq(Bytes \cup {"?"}) /\ <<"?">> \in Seq(Bytes \cup {"?"})
      /\ <<>> \in Seq(Bytes \cup {"?"})
  BY <1>1, SeqMonotonic
<1>3. CASE {k \in 1..RevSize : b[k] = NUL} = {}
  <2>1. PICK rest \in {<<>>, <<"?">>} : text = b \o rest
    BY <1>3 DEF Printable
  <2> QED
    BY <1>2, <2>1, ConcatProperties
<1>4. CASE {k \in 1..RevSize : b[k] = NUL} # {}
  <2>1. PICK k \in 1..RevSize : text = SubSeq(b, 1, k - 1)
    BY <1>4 DEF Printable
  <2>2. \A j \in 1..k - 1 : b[j] \in Bytes \cup {"?"}
    BY BoundAssumption
  <2> QED
    BY <2>1, <2>2, SubSeqProperties, BoundAssumption
<1> QED
  BY <1>3, <1>4

\* The first NUL ends the print.
LEMMA PrintsToNul ==
  ASSUME NEW b \in [1..RevSize -> Bytes], NEW n \in Nat, n < RevSize,
         \A k \in 1..n : b[k] # NUL, b[n + 1] = NUL,
         NEW text \in Printable(b)
  PROVE  text = SubSeq(b, 1, n)
<1> DEFINE ends == {k \in 1..RevSize : b[k] = NUL}
<1>1. n + 1 \in ends
  BY BoundAssumption
<1>2. ends # {}
  BY <1>1
<1>3. PICK e \in ends : text = SubSeq(b, 1, e - 1) /\ \A d \in ends : e <= d
  BY <1>2 DEF Printable
<1>4. e <= n + 1 /\ e \in 1..RevSize /\ b[e] = NUL
  BY <1>1, <1>3
<1>5. e = n + 1
  BY <1>4, BoundAssumption
<1> QED
  BY <1>3, <1>5

\* What is owed goes down by what is printed.
LEMMA UnprintedType ==
  ASSUME NEW text \in Seq(Bytes \cup {"?"}), owed \in Seq(Bytes \cup {"?"})
  PROVE  Unprinted(text) \in Seq(Bytes \cup {"?"})
<1> DEFINE S == Bytes \cup {"?"}
<1>1. owed \o text \in Seq(S)
  BY ConcatProperties
<1>2. Len(owed) \in Nat /\ Len(text) \in Nat /\ \A k \in 1..Len(owed) : owed[k] \in S
  BY LenProperties, ElementOfSeq
<1>3. \A k \in Len(text) + 1..Len(owed) : owed[k] \in S
  BY <1>2
<1>4. SubSeq(owed, Len(text) + 1, Len(owed)) \in Seq(S)
  BY <1>2, <1>3, SubSeqProperties
<1> QED
  BY <1>1, <1>4 DEF Unprinted

LEMMA UnprintedRest ==
  ASSUME NEW text \in Seq(Bytes), NEW rest \in Seq(Bytes), owed = text \o rest
  PROVE  Unprinted(text) = rest
<1> DEFINE n == Len(text)
           m == Len(rest)
           tail == SubSeq(owed, n + 1, Len(owed))
           head == SubSeq(owed, 1, n)
<1>1. /\ n \in Nat /\ m \in Nat /\ owed \in Seq(Bytes) /\ Len(owed) = n + m
      /\ \A k \in 1..n + m : owed[k] = IF k <= n THEN text[k] ELSE rest[k - n]
  BY ConcatProperties, LenProperties
<1>2. \A k \in 1..Len(owed) : owed[k] \in Bytes
  BY <1>1, ElementOfSeq
<1>3. head \in Seq(Bytes) /\ Len(head) = n /\ \A k \in 1..n : head[k] = owed[k]
  <2>1. \A k \in 1..n : owed[k] \in Bytes
    BY <1>1, <1>2
  <2>2. /\ head \in Seq(Bytes) /\ Len(head) = IF 1 <= n THEN n - 1 + 1 ELSE 0
        /\ \A k \in 1..n - 1 + 1 : head[k] = owed[1 + k - 1]
    BY <1>1, <2>1, SubSeqProperties
  <2> HIDE DEF head
  <2> QED
    BY <1>1, <2>2
<1>4. head = text
  <2>1. \A k \in 1..Len(head) : head[k] = text[k]
    BY <1>1, <1>3
  <2> HIDE DEF head
  <2> QED
    BY <1>3, <2>1, SeqEqual
<1>5. tail \in Seq(Bytes) /\ Len(tail) = m /\ \A k \in 1..m : tail[k] = owed[n + k]
  <2>1. \A k \in n + 1..Len(owed) : owed[k] \in Bytes
    BY <1>1, <1>2
  <2>2. /\ tail \in Seq(Bytes)
        /\ Len(tail) = IF n + 1 <= Len(owed) THEN Len(owed) - (n + 1) + 1 ELSE 0
        /\ \A k \in 1..Len(owed) - (n + 1) + 1 : tail[k] = owed[n + 1 + k - 1]
    BY <1>1, <2>1, SubSeqProperties
  <2>3. Len(owed) - (n + 1) + 1 = m /\ (n + 1 <= Len(owed) <=> m > 0)
    BY <1>1
  <2>4. \A k \in 1..m : n + 1 + k - 1 = n + k
    BY <1>1
  <2> HIDE DEF tail, m, n
  <2>5. Len(tail) = m
    BY <1>1, <2>2, <2>3
  <2> QED
    BY <2>2, <2>3, <2>4, <2>5
<1>6. tail = rest
  <2>1. \A k \in 1..Len(tail) : tail[k] = rest[k]
    BY <1>1, <1>5
  <2> HIDE DEF tail
  <2> QED
    BY <1>5, <2>1, SeqEqual
<1>7. Len(text) <= Len(owed)
  BY <1>1
<1> QED
  BY <1>4, <1>6, <1>7 DEF Unprinted
-----------------------------------------------------------------------------
(***************************************************************************)
(* What a step leaves alone.                                               *)
(***************************************************************************)

LEMMA InitIInv == Init => IInv
<1> SUFFICES ASSUME Init PROVE IInv
  OBVIOUS
<1>1. RunsOK
  BY DEF Init, RunsOK, Places, Options
<1>2. LineOK
  <2>1. inbox = <<>> /\ configured = FALSE
    BY DEF Init
  <2>2. inbox \in Seq(Bytes)
    BY <2>1
  <2>3. Len(inbox) <= MaxInbox
    <3>1. Len(inbox) = 0
      BY <2>1
    <3> QED
      BY <3>1, BoundAssumption
  <2> QED
    BY <2>1, <2>2, <2>3 DEF LineOK
<1>3. BuffersOK
  BY BoundAssumption, ByteAssumption DEF Init, BuffersOK, Cleared
<1>4. GhostsOK
  BY DEF Init, GhostsOK
<1>5. lcd \in Lcds
  BY DEF Init, Lcds, Partial
<1>6. TypeOK
  BY <1>1, <1>2, <1>3, <1>4, <1>5, TypeParts
<1> QED
  BY <1>6 DEF Init, IInv, PageInv, SoleInv, PageShown, LcdRecovers, Pages, ExactInv

LEMMA StepRuns ==
  ASSUME RunsOK, PageInv, NEW t \in Terminals, NEW here, NEW next \in Places,
         Step(t, here, next), next \in {"command", "over"} => opt[t] \in Pages
  PROVE  /\ RunsOK' /\ PageInv'
         /\ pc[t] = here /\ pc'[t] = next
         /\ next # "shell" => opt'[t] = opt[t]
         /\ \A u \in Terminals : u # t => pc'[u] = pc[u] /\ opt'[u] = opt[u]
<1>1. /\ pc' = [pc EXCEPT ![t] = next] /\ pc[t] = here
      /\ opt' = IF next = "shell" THEN [opt EXCEPT ![t] = "other"] ELSE opt
  BY DEF Step
<1>2. pc' \in [Terminals -> Places]
  BY <1>1 DEF RunsOK
<1>3. opt' \in [Terminals -> Options]
  BY <1>1 DEF RunsOK, Options
<1>4. /\ pc'[t] = next
      /\ next # "shell" => opt'[t] = opt[t]
      /\ \A u \in Terminals : u # t => pc'[u] = pc[u] /\ opt'[u] = opt[u]
  BY <1>1 DEF RunsOK
<1>5. PageInv'
  <2> SUFFICES ASSUME NEW u \in Terminals, pc'[u] \in {"command", "over"}
               PROVE  opt'[u] \in Pages
    BY DEF PageInv
  <2>1. CASE u = t
    <3>1. next \in {"command", "over"}
      BY <1>4, <2>1
    <3>2. opt'[t] = opt[t]
      BY <1>4, <3>1
    <3> QED
      BY <2>1, <3>1, <3>2
  <2>2. CASE u # t
    BY <1>4, <2>2 DEF PageInv
  <2> QED
    BY <2>1, <2>2
<1> QED
  BY <1>1, <1>2, <1>3, <1>4, <1>5 DEF RunsOK

\* A step that leaves the LCD alone, by a run that is not between two writes.
LEMMA LcdLeftAlone ==
  ASSUME SoleInv, PageShown, LcdRecovers, NEW t \in Terminals, sole[t] = "no",
         UNCHANGED <<lcd, sole, shown>>,
         \A u \in Terminals : u # t => pc'[u] = pc[u] /\ opt'[u] = opt[u]
  PROVE  SoleInv' /\ PageShown' /\ LcdRecovers'
<1>1. SoleInv'
  BY DEF SoleInv
<1>2. PageShown' /\ LcdRecovers'
  BY DEF PageShown, LcdRecovers, LcdIdle
<1> QED
  BY <1>1, <1>2

\* A receiver that stays undisturbed through another run's step.
LEMMA ReceiverLeftAlone ==
  ASSUME NEW u \in Terminals, Receives(u),
         \A v \in Terminals : exact'[v] => exact[v],
         pc'[u] = pc[u], opt'[u] = opt[u], rev'[u] = rev[u], size'[u] = size[u],
         inbox' = inbox, owed' = owed
  PROVE  Receives(u)'
<1>1. BufferInv(u)'
  BY DEF Receives, BufferInv
<1>2. Unread(u)' = Unread(u)
  BY DEF Unread
<1> QED
  BY <1>1, <1>2 DEF Receives

LEMMA BuffersLeftAlone ==
  ASSUME ExactInv, NEW t \in Terminals, ~exact[t] \/ ~exact'[t],
         \A v \in Terminals : exact'[v] => exact[v],
         \A u \in Terminals : u # t => /\ pc'[u] = pc[u] /\ opt'[u] = opt[u]
                                       /\ rev'[u] = rev[u] /\ size'[u] = size[u],
         \A u \in Terminals : u # t /\ exact'[u] => inbox' = inbox /\ owed' = owed
  PROVE  ExactInv'
<1> SUFFICES ASSUME NEW u \in Terminals, exact'[u] PROVE Receives(u)'
  BY DEF ExactInv
<1>1. exact[u] /\ u # t /\ Receives(u)
  BY DEF ExactInv
<1> QED
  BY <1>1, ReceiverLeftAlone
-----------------------------------------------------------------------------
(***************************************************************************)
(* Each action.                                                            *)
(***************************************************************************)

LEMMA OpenStep ==
  ASSUME IInv, NEW t \in Terminals, NEW o \in Options, open_uart_dev(t, o)
  PROVE  IInv'
<1>0. RunsOK /\ LineOK /\ BuffersOK /\ GhostsOK /\ lcd \in Lcds
  BY TypeParts DEF IInv
<1>1. /\ pc[t] = "shell" /\ pc' = [pc EXCEPT ![t] = "set_opt"]
      /\ opt' = [opt EXCEPT ![t] = o]
      /\ UNCHANGED <<configured, lcd, inbox, rev, size, ghosts>>
  BY DEF open_uart_dev
<1>2. UNCHANGED <<configured, lcd, inbox, rev, size, sole, shown, exact, owed>>
  BY <1>1 DEF ghosts
<1>3. RunsOK'
  BY <1>0, <1>1 DEF RunsOK, Places
<1>4. LineOK' /\ BuffersOK' /\ GhostsOK' /\ lcd' \in Lcds
  BY <1>0, <1>2 DEF LineOK, BuffersOK, GhostsOK
<1>5. /\ pc'[t] = "set_opt"
      /\ \A u \in Terminals : u # t => pc'[u] = pc[u] /\ opt'[u] = opt[u]
  BY <1>0, <1>1 DEF RunsOK
<1>6. PageInv'
  BY <1>5 DEF PageInv, IInv
<1>7. sole[t] = "no" /\ ~exact[t]
  BY <1>1 DEF IInv, SoleInv, ExactInv, Receives
<1>8. SoleInv' /\ PageShown' /\ LcdRecovers'
  BY <1>2, <1>5, <1>7, LcdLeftAlone DEF IInv
<1>9. ExactInv'
  BY <1>2, <1>5, <1>7, BuffersLeftAlone DEF IInv
<1>10. TypeOK'
  BY <1>3, <1>4, TypePartsNext
<1> QED
  BY <1>6, <1>8, <1>9, <1>10 DEF IInv

LEMMA NothingUnread ==
  ASSUME NEW s \in Seq(Bytes)
  PROVE  <<>> \o s = s
BY ConcatEmptySeq

LEMMA SetupStep ==
  ASSUME IInv, NEW t \in Terminals, set_opt(t)
  PROVE  IInv'
<1>0. RunsOK /\ LineOK /\ BuffersOK /\ GhostsOK /\ lcd \in Lcds /\ PageInv
  BY TypeParts DEF IInv
<1>1. opt[t] \in Options
  BY <1>0 DEF RunsOK
<1>2. PICK next : /\ Step(t, "set_opt", next)
                  /\ \/ next = AfterSetup(opt[t]) /\ inbox' = inbox
                     \/ next = "set_attr" /\ inbox' = <<>>
  BY DEF set_opt, Flushed
<1>3. /\ next \in Places
      /\ next \in {"command", "over"} => opt[t] \in Pages
      /\ opt[t] = "recv" => next \in {"set_attr", "read"}
      /\ opt[t] = "recv" => next # "shell"
  BY <1>1, <1>2 DEF AfterSetup, Options, Pages, Places
<1>4. /\ RunsOK' /\ PageInv' /\ pc[t] = "set_opt" /\ pc'[t] = next
      /\ next # "shell" => opt'[t] = opt[t]
      /\ \A u \in Terminals : u # t => pc'[u] = pc[u] /\ opt'[u] = opt[u]
  BY <1>0, <1>2, <1>3, StepRuns
<1>5. /\ UNCHANGED configured /\ inbox' \in {inbox, <<>>}
      /\ UNCHANGED <<lcd, rev, size, sole, shown>>
  BY <1>2 DEF set_opt
<1>6. LineOK'
  <2>1. CASE inbox' = inbox
    BY <1>0, <1>5, <2>1 DEF LineOK
  <2>2. CASE inbox' = <<>>
    <3>1. inbox' \in Seq(Bytes)
      BY <2>2
    <3>2. Len(inbox') <= MaxInbox
      <4>1. Len(inbox') = 0
        BY <2>2
      <4> QED
        BY <4>1, BoundAssumption
    <3>3. configured' \in BOOLEAN
      BY <1>0, <1>5 DEF LineOK
    <3> QED
      BY <3>1, <3>2, <3>3 DEF LineOK
  <2> QED
    BY <1>5, <2>1, <2>2
<1>7. BuffersOK' /\ lcd' \in Lcds
  BY <1>0, <1>5 DEF BuffersOK
<1>8. sole[t] = "no" /\ ~exact[t]
  BY <1>4 DEF IInv, SoleInv, ExactInv, Receives
<1>9. SoleInv' /\ PageShown' /\ LcdRecovers'
  BY <1>4, <1>5, <1>8, LcdLeftAlone DEF IInv
<1>10. GhostsOK' /\ ExactInv'
  <2>1. CASE opt[t] = "recv"
    <3>1. /\ exact' = [u \in Terminals |-> u = t /\ inbox' = <<>>]
          /\ owed' = <<>>
      BY <2>1 DEF set_opt, Receiver
    <3>2. GhostsOK'
      BY <1>0, <1>5, <3>1 DEF GhostsOK
    <3>3. ExactInv'
      <4> SUFFICES ASSUME NEW u \in Terminals, exact'[u] PROVE Receives(u)'
        BY DEF ExactInv
      <4>1. /\ u = t /\ inbox' = <<>> /\ pc'[u] \in {"set_attr", "read"}
            /\ opt'[u] = "recv"
        BY <1>3, <1>4, <2>1, <3>1
      <4>2. \A v \in Terminals : exact'[v] => v = u
        BY <3>1, <4>1
      <4>3. owed' = Unread(u)' \o inbox'
        <5>1. Unread(u)' = <<>>
          BY <4>1 DEF Unread
        <5>2. <<>> \o <<>> = <<>>
          OBVIOUS
        <5> QED
          BY <3>1, <4>1, <5>1, <5>2
      <4> QED
        BY <4>1, <4>2, <4>3 DEF Receives, BufferInv
    <3> QED
      BY <3>2, <3>3
  <2>2. CASE opt[t] # "recv"
    <3>1. /\ exact' = [u \in Terminals |-> exact[u] /\ inbox' = inbox]
          /\ owed' = owed
      BY <2>2 DEF set_opt, Receiver
    <3>2. GhostsOK'
      BY <1>0, <1>5, <3>1 DEF GhostsOK
    <3>3. \A v \in Terminals : exact'[v] => exact[v] /\ inbox' = inbox
      BY <3>1
    <3>4. ExactInv'
      BY <1>4, <1>5, <1>8, <3>1, <3>3, BuffersLeftAlone DEF IInv
    <3> QED
      BY <3>2, <3>4
  <2> QED
    BY <2>1, <2>2
<1>12. TypeOK'
  BY <1>4, <1>6, <1>7, <1>10, TypePartsNext
<1> QED
  BY <1>4, <1>9, <1>10, <1>12 DEF IInv

\* A receiver waits for nothing between its flush and its first read.
LEMMA AttributesStep ==
  ASSUME IInv, NEW t \in Terminals, SetAttributes(t)
  PROVE  IInv'
<1> DEFINE next == AfterSetup(opt[t])
<1>0. RunsOK /\ LineOK /\ BuffersOK /\ GhostsOK /\ lcd \in Lcds /\ PageInv
  BY TypeParts DEF IInv
<1>1. opt[t] \in Options
  BY <1>0 DEF RunsOK
<1>2. /\ next \in Places
      /\ next \in {"command", "over"} => opt[t] \in Pages
      /\ opt[t] = "recv" => next = "read"
  BY <1>1 DEF AfterSetup, Options, Pages, Places
<1>3. Step(t, "set_attr", next)
  BY DEF SetAttributes
<1> HIDE DEF next
<1>4. /\ RunsOK' /\ PageInv' /\ pc[t] = "set_attr" /\ pc'[t] = next
      /\ \A u \in Terminals : u # t => pc'[u] = pc[u] /\ opt'[u] = opt[u]
  BY <1>0, <1>2, <1>3, StepRuns
<1>5. /\ configured' \in {configured, TRUE}
      /\ UNCHANGED <<lcd, inbox, rev, size, sole, shown, exact, owed>>
  BY DEF SetAttributes, ghosts
<1>6. LineOK' /\ BuffersOK' /\ GhostsOK' /\ lcd' \in Lcds
  BY <1>0, <1>5 DEF LineOK, BuffersOK, GhostsOK
<1>7. sole[t] = "no"
  BY <1>4 DEF IInv, SoleInv
<1>8. SoleInv' /\ PageShown' /\ LcdRecovers'
  BY <1>4, <1>5, <1>7, LcdLeftAlone DEF IInv
<1>9. ExactInv'
  <2> SUFFICES ASSUME NEW u \in Terminals, exact'[u] PROVE Receives(u)'
    BY DEF ExactInv
  <2>1. exact[u] /\ Receives(u)
    BY <1>5 DEF IInv, ExactInv
  <2>2. CASE u = t
    <3>1. pc'[u] = "read"
      BY <1>2, <1>4, <2>1, <2>2 DEF Receives
    <3>2. Unread(u) = <<>> /\ Unread(u)' = <<>> /\ BufferInv(u)'
      BY <1>4, <2>2, <3>1 DEF Unread, BufferInv
    <3> QED
      BY <1>5, <2>1, <3>1, <3>2 DEF Receives
  <2>3. CASE u # t
    BY <1>4, <1>5, <2>1, <2>3, ReceiverLeftAlone
  <2> QED
    BY <2>2, <2>3
<1>10. TypeOK'
  BY <1>4, <1>6, TypePartsNext
<1> QED
  BY <1>4, <1>8, <1>9, <1>10 DEF IInv

\* Either write: the receivers see nothing of it.
LEMMA WriteParts ==
  ASSUME IInv, NEW t \in Terminals, NEW next \in Places,
         Step(t, "command", next) \/ Step(t, "over", next),
         next \in {"command", "over"} => opt[t] \in Pages,
         NEW units, NEW n, Write(t, units, n), Len(units) \in Nat
  PROVE  /\ RunsOK' /\ PageInv' /\ LineOK' /\ BuffersOK' /\ lcd' \in Lcds
         /\ ExactInv' /\ exact' = exact /\ owed' = owed
         /\ lcd' = LcdAfter(lcd, units, n)
<1>0. RunsOK /\ LineOK /\ BuffersOK /\ GhostsOK /\ lcd \in Lcds /\ PageInv
  BY TypeParts DEF IInv
<1>1. /\ n \in Nat /\ lcd' = LcdAfter(lcd, units, n)
      /\ UNCHANGED <<configured, inbox, rev, size, exact, owed>>
  BY DEF Write
<1>2. PICK here \in {"command", "over"} : Step(t, here, next)
  OBVIOUS
<1>3. /\ RunsOK' /\ PageInv' /\ pc[t] = here
      /\ \A u \in Terminals : u # t => pc'[u] = pc[u] /\ opt'[u] = opt[u]
  BY <1>0, <1>2, StepRuns
<1>4. LineOK' /\ BuffersOK'
  BY <1>0, <1>1 DEF LineOK, BuffersOK
<1>5. lcd' \in Lcds
  BY <1>0, <1>1, LcdAfterType
<1>6. ~exact[t]
  BY <1>2, <1>3 DEF IInv, ExactInv, Receives
<1>7. ExactInv'
  BY <1>1, <1>3, <1>6, BuffersLeftAlone DEF IInv
<1> QED
  BY <1>1, <1>3, <1>4, <1>5, <1>7

LEMMA CommandStep ==
  ASSUME IInv, NEW t \in Terminals, WriteCommand(t)
  PROVE  IInv'
<1>0. RunsOK /\ LineOK /\ BuffersOK /\ GhostsOK /\ lcd \in Lcds /\ PageInv
  BY TypeParts DEF IInv
<1>1. PICK n \in 0..2 : /\ Write(t, Command(opt[t]), n)
                        /\ sole' = [u \in Terminals |->
                              IF u # t \/ n = 0 THEN "no"
                              ELSE IF n = 2 /\ LcdIdle THEN "whole" ELSE "part"]
  BY DEF WriteCommand
<1>2. Step(t, "command", "over") /\ shown' = "none"
  BY DEF WriteCommand
<1>3. opt[t] \in Pages
  BY <1>0, <1>2 DEF PageInv, Step
<1>4. "over" \in Places /\ Len(Command(opt[t])) \in Nat
  BY DEF Places, Command
<1>5. /\ RunsOK' /\ PageInv' /\ LineOK' /\ BuffersOK' /\ lcd' \in Lcds
      /\ ExactInv' /\ exact' = exact /\ owed' = owed
      /\ lcd' = LcdAfter(lcd, Command(opt[t]), n)
  BY <1>1, <1>2, <1>3, <1>4, WriteParts
<1>6. pc'[t] = "over" /\ opt'[t] = opt[t]
  BY <1>0, <1>2, <1>3, <1>4, StepRuns
<1>7. /\ sole' \in [Terminals -> {"no", "part", "whole"}]
      /\ \A u \in Terminals : sole'[u] # "no" => u = t /\ n \in 1..2
      /\ \A u \in Terminals : sole'[u] = "whole" => u = t /\ n = 2 /\ LcdIdle
  BY <1>1
<1>8. GhostsOK'
  BY <1>0, <1>2, <1>5, <1>7 DEF GhostsOK
<1>9. SoleInv'
  <2> SUFFICES ASSUME NEW u \in Terminals
               PROVE  /\ sole'[u] # "no" => pc'[u] = "over" /\ lcd'.ffs = 0
                      /\ sole'[u] = "whole" => lcd'.held = Command(opt'[u])
    BY DEF SoleInv
  <2>1. ASSUME sole'[u] # "no" PROVE pc'[u] = "over" /\ lcd'.ffs = 0
    <3>1. u = t /\ n \in 1..2
      BY <1>7, <2>1
    <3>2. LcdAfter(lcd, Command(opt[t]), n).ffs = 0
      BY <1>0, <1>3, <3>1, NoFFsHeld
    <3> QED
      BY <1>5, <1>6, <3>1, <3>2
  <2>2. ASSUME sole'[u] = "whole" PROVE lcd'.held = Command(opt'[u])
    <3>1. u = t /\ n = 2 /\ lcd.held = <<>> /\ lcd.ffs = 0
      BY <1>7, <2>2 DEF LcdIdle
    <3>2. LcdAfter(lcd, Command(opt[t]), 2).held = Command(opt[t])
      BY <1>0, <1>3, <3>1, CommandHeld
    <3> QED
      BY <1>5, <1>6, <3>1, <3>2
  <2> QED
    BY <2>1, <2>2
<1>10. PageShown' /\ LcdRecovers'
  BY <1>2 DEF PageShown, LcdRecovers, Pages
<1>11. TypeOK'
  BY <1>5, <1>8, TypePartsNext
<1> QED
  BY <1>5, <1>9, <1>10, <1>11 DEF IInv

LEMMA OverStep ==
  ASSUME IInv, NEW t \in Terminals, WriteOver(t)
  PROVE  IInv'
<1>0. RunsOK /\ LineOK /\ BuffersOK /\ GhostsOK /\ lcd \in Lcds /\ PageInv
  BY TypeParts DEF IInv
<1>1. PICK n \in 0..3 :
        /\ Write(t, Terminator, n)
        /\ shown' = IF n < Len(Terminator) \/ sole[t] = "no" THEN "none"
                    ELSE IF sole[t] = "whole" THEN opt[t] ELSE "idle"
  BY DEF WriteOver
<1>2. Step(t, "over", "shell") /\ sole' = [u \in Terminals |-> "no"]
  BY DEF WriteOver
<1>3. opt[t] \in Pages
  BY <1>0, <1>2 DEF PageInv, Step
<1>4. "shell" \in Places /\ Len(Terminator) = 3
  BY DEF Places, Terminator, over
<1>5. /\ RunsOK' /\ PageInv' /\ LineOK' /\ BuffersOK' /\ lcd' \in Lcds
      /\ ExactInv' /\ exact' = exact /\ owed' = owed
      /\ lcd' = LcdAfter(lcd, Terminator, n)
  BY <1>1, <1>2, <1>3, <1>4, WriteParts
<1>6. shown' \in Pages \cup {"none", "idle"}
  BY <1>1, <1>3
<1>7. GhostsOK'
  BY <1>0, <1>2, <1>5, <1>6 DEF GhostsOK
<1>8. SoleInv'
  BY <1>2 DEF SoleInv
<1>9. LcdRecovers'
  <2> SUFFICES ASSUME shown' # "none" PROVE LcdIdle'
    BY DEF LcdRecovers
  <2>1. sole[t] # "no" /\ n = 3
    BY <1>1, <1>4
  <2>2. lcd.ffs = 0
    BY <2>1 DEF IInv, SoleInv
  <2> DEFINE after == LcdAfter(lcd, Terminator, 3)
  <2>3. after.held = <<>> /\ after.ffs = 0
    BY <1>0, <2>2, TerminatorEnds
  <2>4. lcd' = after
    BY <1>5, <2>1
  <2> HIDE DEF after
  <2> QED
    BY <2>3, <2>4 DEF LcdIdle
<1>11. PageShown'
  <2> SUFFICES ASSUME shown' \in Pages PROVE lcd'.screen = shown'
    BY DEF PageShown
  <2>1. sole[t] = "whole" /\ n = 3 /\ shown' = opt[t]
    BY <1>1, <1>4 DEF Pages
  <2>2. lcd.held = Command(opt[t]) /\ lcd.ffs = 0
    BY <2>1 DEF IInv, SoleInv
  <2>3. LcdAfter(lcd, Terminator, 3).screen = opt[t]
    BY <1>0, <1>3, <2>2, CommandShown
  <2> QED
    BY <1>5, <2>1, <2>3
<1>10. TypeOK'
  BY <1>5, <1>7, TypePartsNext
<1> QED
  BY <1>5, <1>8, <1>9, <1>10, <1>11 DEF IInv
\* A read moves bytes from the line to the buffer.
LEMMA ReadStep ==
  ASSUME IInv, NEW t \in Terminals, Read(t)
  PROVE  IInv'
<1> DEFINE n == IF Len(inbox) < RevSize THEN Len(inbox) ELSE RevSize
           bytes == SubSeq(inbox, 1, n)
           left == SubSeq(inbox, n + 1, Len(inbox))
<1>0. RunsOK /\ LineOK /\ BuffersOK /\ GhostsOK /\ lcd \in Lcds /\ PageInv
  BY TypeParts DEF IInv
<1>1. /\ Step(t, "read", "print")
      /\ rev' = [rev EXCEPT ![t] = Buffer(t, bytes)]
      /\ size' = [size EXCEPT ![t] = n]
      /\ inbox' = left
      /\ exact' = [u \in Terminals |->
                     IF u = t THEN exact[t] /\ n < RevSize
                                   /\ \A k \in 1..n : bytes[k] # NUL
                              ELSE exact[u] /\ n = 0]
      /\ UNCHANGED <<configured, lcd, sole, shown, owed>>
  BY DEF Read
<1>2. n \in 0..Len(inbox) /\ n <= RevSize /\ n \in Nat /\ Len(inbox) \in Nat
  BY <1>0, BoundAssumption, LenProperties DEF LineOK
<1> HIDE DEF n
<1>3. /\ bytes \in Seq(Bytes) /\ Len(bytes) = n
      /\ left \in Seq(Bytes) /\ Len(left) = Len(inbox) - n
      /\ bytes \o left = inbox
  BY <1>0, <1>2, InboxParts DEF LineOK
<1>4. n = 0 => left = inbox
  BY <1>0, <1>2, InboxParts DEF LineOK
<1> HIDE DEF bytes, left
<1>5. /\ Buffer(t, bytes) \in [1..RevSize -> Bytes]
      /\ SubSeq(Buffer(t, bytes), 1, n) = bytes
      /\ \A k \in 1..n : Buffer(t, bytes)[k] = bytes[k]
      /\ n < RevSize => Buffer(t, bytes)[n + 1] = NUL
  BY <1>2, <1>3, BufferHolds
<1>6. /\ RunsOK' /\ PageInv' /\ pc[t] = "read" /\ pc'[t] = "print"
      /\ \A u \in Terminals : u # t => pc'[u] = pc[u] /\ opt'[u] = opt[u]
  <2>1. "print" \in Places /\ "print" \notin {"command", "over"}
    BY DEF Places
  <2> QED
    BY <1>0, <1>1, <2>1, StepRuns
<1>7. LineOK'
  <2>1. Len(inbox') <= MaxInbox
    <3>1. Len(left) <= Len(inbox)
      BY <1>2, <1>3
    <3>2. Len(inbox) <= MaxInbox
      BY <1>0 DEF LineOK
    <3> QED
      BY <1>1, <1>2, <1>3, <3>1, <3>2, BoundAssumption
  <2>2. inbox' \in Seq(Bytes) /\ configured' \in BOOLEAN
    BY <1>0, <1>1, <1>3 DEF LineOK
  <2> QED
    BY <2>1, <2>2 DEF LineOK
<1>8. /\ BuffersOK'
      /\ rev'[t] = Buffer(t, bytes) /\ size'[t] = n
      /\ \A u \in Terminals : u # t => rev'[u] = rev[u] /\ size'[u] = size[u]
  <2>1. n \in 0..RevSize
    BY <1>2, BoundAssumption
  <2> QED
    BY <1>0, <1>1, <1>5, <2>1 DEF BuffersOK
<1>9. /\ exact' \in [Terminals -> BOOLEAN]
      /\ exact'[t] => exact[t] /\ n < RevSize /\ \A k \in 1..n : bytes[k] # NUL
      /\ \A u \in Terminals : u # t /\ exact'[u] => exact[u] /\ n = 0
  BY <1>0, <1>1 DEF GhostsOK
<1>10. GhostsOK' /\ lcd' \in Lcds
  BY <1>0, <1>1, <1>9 DEF GhostsOK
<1>11. sole[t] = "no"
  BY <1>6 DEF IInv, SoleInv
<1>12. SoleInv' /\ PageShown' /\ LcdRecovers'
  BY <1>1, <1>6, <1>11, LcdLeftAlone DEF IInv
<1>13. \A v \in Terminals : exact'[v] => exact[v]
  BY <1>9
<1>14. ExactInv'
  <2> SUFFICES ASSUME NEW u \in Terminals, exact'[u] PROVE Receives(u)'
    BY DEF ExactInv
  <2>1. exact[u] /\ Receives(u)
    BY <1>13 DEF IInv, ExactInv
  <2>2. CASE u = t
    <3>1. /\ pc'[t] = "print" /\ size'[t] = n /\ rev'[t] = Buffer(t, bytes)
          /\ n < RevSize /\ \A k \in 1..n : bytes[k] # NUL
      BY <1>6, <1>8, <1>9, <2>2
    <3>2. BufferInv(t)'
      BY <1>5, <3>1 DEF BufferInv
    <3>3. Unread(t)' = bytes
      BY <1>5, <3>1 DEF Unread
    <3>4. Unread(t) = <<>>
      BY <1>6 DEF Unread
    <3>5. owed = inbox
      BY <1>0, <2>1, <2>2, <3>4, NothingUnread DEF Receives, LineOK
    <3>6. owed' = Unread(t)' \o inbox'
      BY <1>1, <1>3, <3>3, <3>5
    <3>7. \A v \in Terminals : exact'[v] => v = t
      BY <1>13, <2>1, <2>2 DEF Receives
    <3> QED
      BY <2>2, <3>1, <3>2, <3>6, <3>7 DEF Receives
  <2>3. CASE u # t
    <3>1. inbox' = inbox /\ owed' = owed
      BY <1>1, <1>4, <1>9, <2>3
    <3> QED
      BY <1>6, <1>8, <1>13, <2>1, <2>3, <3>1, ReceiverLeftAlone
  <2> QED
    BY <2>2, <2>3
<1>15. TypeOK'
  BY <1>6, <1>7, <1>8, <1>10, TypePartsNext
<1> QED
  BY <1>6, <1>12, <1>14, <1>15 DEF IInv

\* A print takes from what is owed exactly what the buffer held.
LEMMA PrintStep ==
  ASSUME IInv, NEW t \in Terminals, PrintRev(t)
  PROVE  IInv'
<1>0. RunsOK /\ LineOK /\ BuffersOK /\ GhostsOK /\ lcd \in Lcds /\ PageInv
  BY TypeParts DEF IInv
<1>1. /\ Step(t, "print", "read")
      /\ UNCHANGED <<configured, lcd, inbox, rev, size, sole, shown, exact>>
      /\ size[t] > 0 => \E text \in Printable(rev[t]) :
                          owed' = IF exact[t] THEN Unprinted(text) ELSE owed
      /\ ~(size[t] > 0) => owed' = owed
  BY DEF PrintRev
<1>2. /\ RunsOK' /\ PageInv' /\ pc[t] = "print" /\ pc'[t] = "read"
      /\ \A u \in Terminals : u # t => pc'[u] = pc[u] /\ opt'[u] = opt[u]
  <2>1. "read" \in Places /\ "read" \notin {"command", "over"}
    BY DEF Places
  <2> QED
    BY <1>0, <1>1, <2>1, StepRuns
<1>3. rev[t] \in [1..RevSize -> Bytes] /\ size[t] \in Nat /\ size[t] <= RevSize
  BY <1>0, BoundAssumption DEF BuffersOK
<1>4. LineOK' /\ BuffersOK' /\ lcd' \in Lcds
  BY <1>0, <1>1 DEF LineOK, BuffersOK
<1>5. owed' \in Seq(Bytes \cup {"?"})
  <2>1. CASE size[t] > 0
    <3>1. PICK text \in Printable(rev[t]) :
            owed' = IF exact[t] THEN Unprinted(text) ELSE owed
      BY <1>1, <2>1
    <3>2. text \in Seq(Bytes \cup {"?"})
      BY <1>3, PrintableType
    <3>3. Unprinted(text) \in Seq(Bytes \cup {"?"})
      BY <1>0, <3>2, UnprintedType DEF GhostsOK
    <3> QED
      BY <1>0, <3>1, <3>3 DEF GhostsOK
  <2>2. CASE ~(size[t] > 0)
    BY <1>0, <1>1, <2>2 DEF GhostsOK
  <2> QED
    BY <2>1, <2>2
<1>6. GhostsOK'
  BY <1>0, <1>1, <1>5 DEF GhostsOK
<1>7. sole[t] = "no"
  BY <1>2 DEF IInv, SoleInv
<1>8. SoleInv' /\ PageShown' /\ LcdRecovers'
  BY <1>1, <1>2, <1>7, LcdLeftAlone DEF IInv
<1>9. ExactInv'
  <2> SUFFICES ASSUME NEW u \in Terminals, exact'[u] PROVE Receives(u)'
    BY DEF ExactInv
  <2>1. exact[u] /\ Receives(u)
    BY <1>1 DEF IInv, ExactInv
  <2>2. CASE u # t
    <3>1. ~exact[t]
      BY <2>1, <2>2 DEF Receives
    <3>2. owed' = owed
      BY <1>1, <3>1
    <3> QED
      BY <1>1, <1>2, <2>1, <2>2, <3>2, ReceiverLeftAlone
  <2>3. CASE u = t
    <3> DEFINE text == SubSeq(rev[t], 1, size[t])
    <3>1. /\ size[t] < RevSize
          /\ \A k \in 1..size[t] : rev[t][k] # NUL
          /\ rev[t][size[t] + 1] = NUL
      BY <1>2, <2>1, <2>3 DEF Receives, BufferInv
    <3>2. owed = text \o inbox
      BY <1>2, <2>1, <2>3 DEF Receives, Unread
    <3>3. text \in Seq(Bytes)
      <4>1. \A k \in 1..size[t] : rev[t][k] \in Bytes
        BY <1>3, BoundAssumption
      <4> QED
        BY <1>3, <4>1, SubSeqProperties
    <3>4. owed' = inbox
      <4>1. CASE size[t] > 0
        <5>1. PICK shownText \in Printable(rev[t]) : owed' = Unprinted(shownText)
          BY <1>1, <2>1, <2>3, <4>1
        <5>2. shownText = text
          BY <1>3, <3>1, PrintsToNul
        <5> HIDE DEF text
        <5>3. Unprinted(text) = inbox
          BY <1>0, <3>2, <3>3, UnprintedRest DEF LineOK
        <5> QED
          BY <5>1, <5>2, <5>3
      <4>2. CASE ~(size[t] > 0)
        <5>1. size[t] = 0
          BY <1>3, <4>2
        <5>2. text = <<>>
          BY <5>1
        <5> HIDE DEF text
        <5>3. owed = inbox
          BY <1>0, <3>2, <5>2, NothingUnread DEF LineOK
        <5> QED
          BY <1>1, <4>2, <5>3
      <4> QED
        BY <4>1, <4>2
    <3>5. Unread(t)' = <<>>
      BY <1>2 DEF Unread
    <3>6. owed' = Unread(t)' \o inbox'
      BY <1>0, <1>1, <3>4, <3>5, NothingUnread DEF LineOK
    <3>7. BufferInv(t)'
      BY <1>2 DEF BufferInv
    <3>8. \A v \in Terminals : exact'[v] => v = t
      BY <1>1, <2>1, <2>3 DEF Receives
    <3> QED
      BY <1>2, <2>3, <3>6, <3>7, <3>8 DEF Receives
  <2> QED
    BY <2>2, <2>3
<1>10. TypeOK'
  BY <1>2, <1>4, <1>6, TypePartsNext
<1> QED
  BY <1>2, <1>8, <1>9, <1>10 DEF IInv
LEMMA InterruptStep ==
  ASSUME IInv, NEW t \in Terminals, Interrupt(t)
  PROVE  IInv'
<1>0. RunsOK /\ LineOK /\ BuffersOK /\ GhostsOK /\ lcd \in Lcds /\ PageInv
  BY TypeParts DEF IInv
<1>1. /\ rev' = [rev EXCEPT ![t] = Cleared] /\ size' = [size EXCEPT ![t] = 0]
      /\ exact' = [exact EXCEPT ![t] = FALSE]
      /\ owed' = IF exact[t] THEN <<>> ELSE owed
      /\ UNCHANGED <<configured, lcd, inbox, sole, shown>>
  BY DEF Interrupt
<1>2. PICK here \in {"read", "print"} : Step(t, here, "shell")
  BY DEF Interrupt
<1>3. /\ RunsOK' /\ PageInv' /\ pc[t] = here
      /\ \A u \in Terminals : u # t => pc'[u] = pc[u] /\ opt'[u] = opt[u]
  <2>1. "shell" \in Places /\ "shell" \notin {"command", "over"}
    BY DEF Places
  <2> QED
    BY <1>0, <1>2, <2>1, StepRuns
<1>4. LineOK' /\ lcd' \in Lcds
  BY <1>0, <1>1 DEF LineOK
<1>5. /\ BuffersOK'
      /\ \A u \in Terminals : u # t => rev'[u] = rev[u] /\ size'[u] = size[u]
  <2>1. Cleared \in [1..RevSize -> Bytes] /\ 0 \in 0..RevSize
    BY BoundAssumption, ByteAssumption DEF Cleared
  <2> QED
    BY <1>0, <1>1, <2>1 DEF BuffersOK
<1>6. /\ GhostsOK' /\ ~exact'[t]
      /\ \A v \in Terminals : exact'[v] => exact[v]
  BY <1>0, <1>1 DEF GhostsOK
<1>7. sole[t] = "no"
  BY <1>3 DEF IInv, SoleInv
<1>8. SoleInv' /\ PageShown' /\ LcdRecovers'
  BY <1>1, <1>3, <1>7, LcdLeftAlone DEF IInv
<1>9. \A u \in Terminals : u # t /\ exact'[u] => inbox' = inbox /\ owed' = owed
  <2> SUFFICES ASSUME NEW u \in Terminals, u # t, exact'[u]
               PROVE  inbox' = inbox /\ owed' = owed
    OBVIOUS
  <2>1. ~exact[t]
    BY <1>6 DEF IInv, ExactInv, Receives
  <2> QED
    BY <1>1, <2>1
<1>10. ExactInv'
  BY <1>3, <1>5, <1>6, <1>9, BuffersLeftAlone DEF IInv
<1>11. TypeOK'
  BY <1>3, <1>4, <1>5, <1>6, TypePartsNext
<1> QED
  BY <1>3, <1>8, <1>10, <1>11 DEF IInv

\* A byte of the LCD is owed to the receiver and waits to be read.
LEMMA ByteBehind ==
  ASSUME NEW a \in Seq(Bytes), NEW b \in Seq(Bytes), NEW byte \in Bytes
  PROVE  Append(a \o b, byte) = a \o Append(b, byte)
<1>1. a \o b \in Seq(Bytes) /\ <<byte>> \in Seq(Bytes)
  BY ConcatProperties
<1>2. Append(a \o b, byte) = (a \o b) \o <<byte>>
  BY <1>1, AppendIsConcat
<1>3. Append(b, byte) = b \o <<byte>>
  BY AppendIsConcat
<1>4. (a \o b) \o <<byte>> = a \o (b \o <<byte>>)
  BY <1>1, ConcatAssociative
<1> QED
  BY <1>2, <1>3, <1>4

LEMMA SendStep ==
  ASSUME IInv, NEW byte \in Bytes, LcdSends(byte)
  PROVE  IInv'
<1>0. RunsOK /\ LineOK /\ BuffersOK /\ GhostsOK /\ lcd \in Lcds /\ PageInv
  BY TypeParts DEF IInv
<1>1. /\ Len(inbox) < MaxInbox
      /\ inbox' = Append(inbox, byte)
      /\ exact' = [t \in Terminals |-> exact[t] /\ configured]
      /\ owed' = IF \E t \in Terminals : exact'[t] THEN Append(owed, byte) ELSE <<>>
      /\ UNCHANGED <<pc, opt, rev, size, configured, lcd, sole, shown>>
  BY DEF LcdSends, runs
<1>2. RunsOK' /\ BuffersOK' /\ lcd' \in Lcds /\ PageInv'
  BY <1>0, <1>1 DEF RunsOK, BuffersOK, PageInv
<1>3. LineOK'
  <2>1. Append(inbox, byte) \in Seq(Bytes)
    BY <1>0, AppendProperties DEF LineOK
  <2>2. Len(Append(inbox, byte)) = Len(inbox) + 1
    BY <1>0, AppendProperties DEF LineOK
  <2>3. Len(inbox') <= MaxInbox
    <3>1. Len(inbox) \in Nat
      BY <1>0, LenProperties DEF LineOK
    <3>2. Len(inbox') = Len(inbox) + 1
      BY <1>1, <2>2
    <3> QED
      BY <1>1, <3>1, <3>2, BoundAssumption
  <2> QED
    BY <1>0, <1>1, <2>1, <2>3 DEF LineOK
<1>4. GhostsOK'
  <2>1. Append(owed, byte) \in Seq(Bytes \cup {"?"})
    <3>1. owed \in Seq(Bytes \cup {"?"}) /\ byte \in Bytes \cup {"?"}
      BY <1>0 DEF GhostsOK
    <3> QED
      BY <3>1, AppendProperties
  <2>2. exact' \in [Terminals -> BOOLEAN] /\ owed' \in Seq(Bytes \cup {"?"})
    BY <1>0, <1>1, <2>1 DEF LineOK, GhostsOK
  <2> QED
    BY <1>0, <1>1, <2>2 DEF GhostsOK
<1>5. SoleInv' /\ PageShown' /\ LcdRecovers'
  BY <1>1 DEF IInv, SoleInv, PageShown, LcdRecovers, LcdIdle
<1>6. ExactInv'
  <2> SUFFICES ASSUME NEW u \in Terminals, exact'[u] PROVE Receives(u)'
    BY DEF ExactInv
  <2>1. exact[u] /\ Receives(u)
    BY <1>1 DEF IInv, ExactInv
  <2>2. BufferInv(u)' /\ Unread(u)' = Unread(u)
    BY <1>1, <2>1 DEF Receives, BufferInv, Unread
  <2>3. Unread(u) \in Seq(Bytes)
    <3>1. rev[u] \in [1..RevSize -> Bytes] /\ size[u] \in Nat /\ size[u] <= RevSize
      BY <1>0, BoundAssumption DEF BuffersOK
    <3>2. \A k \in 1..size[u] : rev[u][k] \in Bytes
      BY <3>1, BoundAssumption
    <3>3. SubSeq(rev[u], 1, size[u]) \in Seq(Bytes)
      BY <3>1, <3>2, SubSeqProperties
    <3> QED
      BY <3>3 DEF Unread
  <2>4. owed' = Append(Unread(u) \o inbox, byte)
    BY <1>1, <2>1 DEF Receives
  <2>5. owed' = Unread(u) \o inbox'
    <3>1. inbox \in Seq(Bytes)
      BY <1>0 DEF LineOK
    <3>2. Append(Unread(u) \o inbox, byte) = Unread(u) \o Append(inbox, byte)
      <4> DEFINE a == Unread(u)
      <4>1. a \in Seq(Bytes)
        BY <2>3
      <4> HIDE DEF a
      <4>2. Append(a \o inbox, byte) = a \o Append(inbox, byte)
        BY <3>1, <4>1, ByteBehind
      <4> QED
        BY <4>2 DEF a
    <3> QED
      BY <1>1, <2>4, <3>2
  <2> QED
    BY <1>1, <2>1, <2>2, <2>5 DEF Receives
<1>7. TypeOK'
  BY <1>2, <1>3, <1>4, TypePartsNext
<1> QED
  BY <1>2, <1>5, <1>6, <1>7 DEF IInv

LEMMA StutterStep ==
  ASSUME IInv, UNCHANGED vars
  PROVE  IInv'
<1>0. RunsOK /\ LineOK /\ BuffersOK /\ GhostsOK /\ lcd \in Lcds /\ PageInv
  BY TypeParts DEF IInv
<1>1. UNCHANGED <<pc, opt, rev, size, configured, lcd, inbox,
                  sole, shown, exact, owed>>
  BY DEF vars, runs, ghosts
<1>2. /\ RunsOK' /\ LineOK' /\ BuffersOK' /\ GhostsOK' /\ lcd' \in Lcds
      /\ PageInv'
  BY <1>0, <1>1 DEF RunsOK, LineOK, BuffersOK, GhostsOK, PageInv
<1>3. SoleInv' /\ PageShown' /\ LcdRecovers'
  BY <1>1 DEF IInv, SoleInv, PageShown, LcdRecovers, LcdIdle
<1>4. ExactInv'
  <2> SUFFICES ASSUME NEW u \in Terminals, exact'[u] PROVE Receives(u)'
    BY DEF ExactInv
  <2>1. exact[u] /\ Receives(u)
    BY <1>1 DEF IInv, ExactInv
  <2> QED
    BY <1>1, <2>1, ReceiverLeftAlone
<1> QED
  BY <1>2, <1>3, <1>4, TypePartsNext DEF IInv

-----------------------------------------------------------------------------
(***************************************************************************)
(* The theorems.                                                           *)
(***************************************************************************)

\* IInv holds in every reachable state, for every number of terminals.
THEOREM Invariant == Spec => []IInv
<1>1. Init => IInv
  BY InitIInv
<1>2. IInv /\ [Next]_vars => IInv'
  <2> SUFFICES ASSUME IInv, [Next]_vars PROVE IInv'
    OBVIOUS
  <2>1. CASE \E t \in Terminals : RunStep(t)
    <3>1. PICK t \in Terminals : RunStep(t)
      BY <2>1
    <3> QED
      BY <3>1, OpenStep, SetupStep, CommandStep, OverStep, ReadStep, PrintStep,
         InterruptStep, AttributesStep DEF RunStep
  <2>2. CASE \E byte \in Bytes : LcdSends(byte)
    BY <2>2, SendStep
  <2>3. CASE UNCHANGED vars
    BY <2>3, StutterStep
  <2> QED
    BY <2>1, <2>2, <2>3 DEF Next
<1> QED
  BY <1>1, <1>2, PTL DEF Spec

\* Type correctness.
THEOREM TypeCorrect == Spec => []TypeOK
<1>1. IInv => TypeOK
  BY DEF IInv
<1> QED
  BY <1>1, Invariant, PTL

\* A run that meets an idle LCD, and whose two writes are whole and alone, shows
\* its page until another run writes (uart_raw.c:171-189).
THEOREM CommandShows == Spec => []PageShown
<1>1. IInv => PageShown
  BY DEF IInv
<1> QED
  BY <1>1, Invariant, PTL

\* What was cut short or mixed up is over after a run with a part of its command
\* and its whole terminator alone on the line, for any number of runs.
THEOREM DisplayRecovers == Spec => []LcdRecovers
<1>1. IInv => LcdRecovers
  BY DEF IInv
<1> QED
  BY <1>1, Invariant, PTL

\* A receiver nobody disturbs prints what the LCD sends, byte for byte, for a
\* buffer of any size (uart_raw.c:192-206).
THEOREM ReceiverPrints == Spec => []PrintsWhatWasSent
<1>1. IInv => PrintsWhatWasSent
  BY DEF IInv, ExactInv, Receives, PrintsWhatWasSent
<1> QED
  BY <1>1, Invariant, PTL
=============================================================================
