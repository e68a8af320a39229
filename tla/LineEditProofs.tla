---------------------------- MODULE LineEditProofs ----------------------------
(***************************************************************************)
(* The line editor for every character set, every set of buffer lengths,   *)
(* every terminal width and every history bound: one inductive invariant,  *)
(* preserved by each key, with the safety properties it implies; and then, *)
(* with the refinement mapping of LineEdit!Promise, that each step from a  *)
(* state of the invariant is an operation on an editable line or changes   *)
(* nothing of it.                                                          *)
(***************************************************************************)
EXTENDS LineEdit, TLAPS, SequenceTheorems

Tty == [cell : [Columns -> Text], col : Int]

(* What holds besides the checked properties: an edited buffer has one of  *)
(* the lengths readline() is called with, and an idle fresh row is blank.  *)
CallContext ==
  /\ Editing => len \in BufLens /\ hcur <= Len(hist)
  /\ pc = "idle" /\ fresh => \A k \in Columns : tty.cell[k] = Space

IInv == /\ TypeOK /\ BufferBounds /\ LineIsText
        /\ ScreenShowsLine /\ NothingLeftBehind /\ CallContext

-----------------------------------------------------------------------------
(* Strings. *)

(* strnlen() is the position of the first NUL, or the bound. *)
LEMMA StrnLenIs ==
  ASSUME NEW b, NEW i \in Int, NEW n \in Nat, NEW m \in 0 .. n,
         \A j \in 0 .. m - 1 : b[i + j] # Nul, m = n \/ b[i + m] = Nul
  PROVE  StrnLen(b, i, n) = m
<1> DEFINE P(x) == /\ \A j \in 0 .. x - 1 : b[i + j] # Nul
                   /\ x = n \/ b[i + x] = Nul
<1>1. P(m)
  OBVIOUS
<1>2. \A x \in 0 .. n : P(x) => x = m
  <2>1. TAKE x \in 0 .. n
  <2>2. HAVE P(x)
  <2>3. ~(x < m)
    <3>1. SUFFICES ASSUME x < m PROVE FALSE
      OBVIOUS
    <3>2. x \in 0 .. m - 1 /\ x # n
      BY <3>1
    <3>. QED BY <2>2, <3>2
  <2>4. ~(m < x)
    <3>1. SUFFICES ASSUME m < x PROVE FALSE
      OBVIOUS
    <3>2. m \in 0 .. x - 1 /\ m # n
      BY <3>1
    <3>. QED BY <2>2, <3>2
  <2>. QED BY <2>3, <2>4
<1>. HIDE DEF P
<1>3. (CHOOSE x \in 0 .. n : P(x)) = m
  BY <1>1, <1>2
<1>. QED BY <1>3 DEF StrnLen, P

(* Text is printed whole. *)
LEMMA PutStrIsEcho ==
  ASSUME NEW t, NEW b, NEW i \in Int, NEW n \in Nat,
         \A j \in i .. i + n - 1 : b[j] \in Text
  PROVE  PutStr(t, b, i, n) = Echo(t, b, i, n)
<1>1. \A j \in 0 .. n - 1 : b[i + j] # Nul
  <2>1. TAKE j \in 0 .. n - 1
  <2>2. i + j \in i .. i + n - 1
    OBVIOUS
  <2>. QED BY <2>2, TextAssumption
<1>2. StrnLen(b, i, n) = n
  BY <1>1, StrnLenIs
<1>. QED BY <1>2 DEF PutStr

(* The terminal after a character string, some blanks, some backspaces. *)
LEMMA EchoFacts ==
  ASSUME NEW t \in Tty, NEW b, NEW i \in Int, NEW n \in Nat,
         \A j \in i .. i + n - 1 : b[j] \in Text
  PROVE  /\ Echo(t, b, i, n) \in Tty
         /\ Echo(t, b, i, n).col = t.col + n
         /\ \A k \in Columns : Echo(t, b, i, n).cell[k] =
              IF k \in t.col .. t.col + n - 1 THEN b[i + k - t.col] ELSE t.cell[k]
<1>1. \A k \in Columns : k \in t.col .. t.col + n - 1 => b[i + k - t.col] \in Text
  <2>1. TAKE k \in Columns
  <2>2. HAVE k \in t.col .. t.col + n - 1
  <2>3. t.col \in Int /\ k \in Int
    BY WidthAssumption DEF Tty, Columns
  <2>4. i + k - t.col \in i .. i + n - 1
    BY <2>2, <2>3
  <2>. QED BY <2>4
<1>. QED BY <1>1 DEF Echo, Tty

(* Spaces blank the columns they pass and nothing else.                    *)
LEMMA SpacesFacts ==
  ASSUME NEW t \in Tty, NEW n \in Nat
  PROVE  /\ PutSpaces(t, n) \in Tty
         /\ PutSpaces(t, n).col = t.col + n
         /\ \A k \in Columns : PutSpaces(t, n).cell[k] =
              IF k \in t.col .. t.col + n - 1 THEN Space ELSE t.cell[k]
BY TextAssumption DEF PutSpaces, Tty

(* Going back moves the cursor only.                                       *)
LEMMA BackFacts ==
  ASSUME NEW t \in Tty, NEW n \in Int
  PROVE  /\ Back(t, n) \in Tty
         /\ Back(t, n).col = t.col - n
         /\ Back(t, n).cell = t.cell
BY DEF Back, Tty

(* Text b[p .. p+n-1] is about to be printed at its own column, the row    *)
(* already showing what precedes it; and the row r after n characters and  *)
(* s blanks have been written, e being the end of the line.                *)
Painting(t, b, p, n) ==
  /\ t \in Tty /\ p \in Nat /\ n \in Nat /\ t.col = p /\ p + n <= Width
  /\ \A j \in 0 .. p + n - 1 : b[j] \in Text
  /\ \A k \in 0 .. p - 1 : t.cell[k] = b[k]
Painted(r, t, b, e, s) ==
  /\ r \in Tty /\ r.col = e + s
  /\ \A k \in 0 .. e - 1 : r.cell[k] = b[k]
  /\ \A k \in Columns : e <= k =>
        r.cell[k] = IF k < e + s THEN Space ELSE t.cell[k]

(* A buffer echoed and then blanked behind is painted.                     *)
LEMMA PaintFacts ==
  ASSUME NEW t, NEW b, NEW p, NEW n, NEW s \in Nat, Painting(t, b, p, n)
  PROVE  Painted(PutSpaces(PutStr(t, b, p, n), s), t, b, p + n, s)
<1> DEFINE q == Echo(t, b, p, n)
           r == PutSpaces(q, s)
<1>0. Width \in Nat /\ t \in Tty /\ p \in Nat /\ n \in Nat /\ t.col = p
  BY WidthAssumption DEF Painting
<1>1. PutStr(t, b, p, n) = q
  BY <1>0, PutStrIsEcho DEF Painting
<1>2. /\ q \in Tty /\ q.col = p + n
      /\ \A k \in Columns : q.cell[k] =
           IF k \in p .. p + n - 1 THEN b[p + k - p] ELSE t.cell[k]
  BY <1>0, EchoFacts DEF Painting
<1> HIDE DEF q
<1>3. /\ r \in Tty /\ r.col = p + n + s
      /\ \A k \in Columns : r.cell[k] =
           IF k \in p + n .. p + n + s - 1 THEN Space ELSE q.cell[k]
  BY <1>2, SpacesFacts
<1> HIDE DEF r
<1>4. \A k \in 0 .. p + n - 1 : r.cell[k] = b[k]
  <2>1. TAKE k \in 0 .. p + n - 1
  <2>2. k \in Columns /\ k \notin p + n .. p + n + s - 1 /\ p + k - p = k /\ k \in Int
    BY <1>0 DEF Columns, Painting
  <2>3. r.cell[k] = IF k \in p .. p + n - 1 THEN b[k] ELSE t.cell[k]
    BY <1>2, <1>3, <2>2
  <2>4. CASE k \in p .. p + n - 1
    BY <2>3, <2>4
  <2>5. CASE k \notin p .. p + n - 1
    <3>1. k \in 0 .. p - 1
      BY <1>0, <2>5
    <3>. QED BY <2>3, <2>5, <3>1 DEF Painting
  <2>. QED BY <2>4, <2>5
<1>5. \A k \in Columns : p + n <= k =>
        r.cell[k] = IF k < p + n + s THEN Space ELSE t.cell[k]
  <2>1. TAKE k \in Columns
  <2>2. HAVE p + n <= k
  <2>3. /\ k \in Int /\ k \notin p .. p + n - 1
        /\ k \in p + n .. p + n + s - 1 <=> k < p + n + s
    BY <1>0, <2>2 DEF Columns
  <2>. QED BY <1>2, <1>3, <2>3
<1>6. Painted(r, t, b, p + n, s)
  <2> DEFINE e == p + n
  <2>1. r \in Tty /\ r.col = e + s
    BY <1>3
  <2>4. \A k \in 0 .. e - 1 : r.cell[k] = b[k]
    BY <1>0, <1>4
  <2>2. \A k \in Columns : e <= k => r.cell[k] = IF k < e + s THEN Space ELSE t.cell[k]
    BY <1>5
  <2> HIDE DEF e
  <2>3. Painted(r, t, b, e, s)
    BY Zenon, <2>1, <2>2, <2>4 DEF Painted
  <2>. QED BY <2>3 DEF e
<1>. QED BY Zenon, <1>1, <1>6 DEF r, q

(* Blanks wipe what they cover. *)
LEMMA WipeFacts ==
  ASSUME NEW t \in Tty, NEW n \in Nat
  PROVE  /\ EraseTail(t, n) \in Tty /\ EraseTail(t, n).col = t.col
         /\ \A k \in Columns : EraseTail(t, n).cell[k] =
              IF k \in t.col .. t.col + n - 1 THEN Space ELSE t.cell[k]
<1> DEFINE q == PutSpaces(t, n)
<1>1. t.col \in Int
  BY DEF Tty
<1>2. /\ q \in Tty /\ q.col = t.col + n
      /\ \A k \in Columns : q.cell[k] =
           IF k \in t.col .. t.col + n - 1 THEN Space ELSE t.cell[k]
  BY SpacesFacts
<1>. HIDE DEF q
<1>3. Back(q, n) \in Tty /\ Back(q, n).col = q.col - n /\ Back(q, n).cell = q.cell
  BY <1>2, BackFacts
<1>4. Back(q, n) = EraseTail(t, n)
  BY DEF EraseTail, q
<1>5. q.col - n = t.col
  BY <1>1, <1>2
<1>. QED BY <1>2, <1>3, <1>4, <1>5

(* A deletion by memmove keeps the buffer a buffer. *)
LEMMA MoveDownFacts ==
  ASSUME NEW l \in Nat, NEW b \in [0 .. l - 1 -> Char], NEW d \in Nat, NEW n \in Nat,
         d + n < l
  PROVE  /\ MoveDown(b, d, n) \in [0 .. l - 1 -> Char]
         /\ \A i \in 0 .. l - 1 : MoveDown(b, d, n)[i] =
              IF i \in d .. d + n - 1 THEN b[i + 1] ELSE b[i]
BY DEF MoveDown

-----------------------------------------------------------------------------
(* A deletion, whichever key asks for it: characters from p + 1 on move    *)
(* left by one, what stays is printed from column p, one blank wipes the   *)
(* last column of the old line.                                            *)
LEMMA DeletionKeepsInvariant ==
  ASSUME IInv, Editing, Editing',
         NEW p \in 0 .. eol - 1, NEW t \in Tty, NEW n \in Nat,
         n = eol - p - 1 \/ n = eol - p,
         t.col = p, t.cell = tty.cell,
         buf' = MoveDown(buf, p, n),
         tty' = Back(PutSpaces(PutStr(t, buf', p, eol - p - 1), 1), eol - p),
         num' = p, eol' = eol - 1,
         UNCHANGED <<len, insert, hist, hcur, fresh, ret>>,
         pc' \in {"edit", "wspace", "wword"}
  PROVE  IInv'
<1> USE DEF IInv
<1>1. /\ len \in Nat /\ num \in Nat /\ eol \in Nat /\ num <= eol /\ eol <= len - 1
      /\ buf \in [0 .. len - 1 -> Char] /\ Width \in Nat /\ len <= Width
      /\ len \in BufLens /\ p \in Nat /\ p < eol /\ p + n < len
  BY LenAssumption, WidthAssumption DEF TypeOK, BufferBounds, CallContext
<1>2. /\ buf' \in [0 .. len - 1 -> Char]
      /\ \A i \in 0 .. len - 1 : buf'[i] =
           IF i \in p .. p + n - 1 THEN buf[i + 1] ELSE buf[i]
  <2>1. /\ MoveDown(buf, p, n) \in [0 .. len - 1 -> Char]
        /\ \A i \in 0 .. len - 1 : MoveDown(buf, p, n)[i] =
             IF i \in p .. p + n - 1 THEN buf[i + 1] ELSE buf[i]
    BY ONLY <1>1, MoveDownFacts
  <2>. QED BY <2>1
<1>3. \A i \in 0 .. eol - 1 : buf[i] \in Text
  BY DEF LineIsText
<1>4. \A i \in 0 .. eol - 2 : buf'[i] \in Text
  <2>1. \A i \in 0 .. eol - 2 :
          i \in 0 .. len - 1 /\ i \in 0 .. eol - 1 /\ i + 1 \in 0 .. eol - 1
    BY ONLY <1>1
  <2>. QED BY ONLY <1>2, <1>3, <2>1
<1>5. \A k \in 0 .. p - 1 : t.cell[k] = buf'[k]
  <2>1. \A k \in 0 .. p - 1 : k \in 0 .. eol - 1 /\ k \in 0 .. len - 1
                               /\ k \notin p .. p + n - 1
    BY ONLY <1>1
  <2>2. \A k \in 0 .. eol - 1 : tty.cell[k] = buf[k]
    BY DEF ScreenShowsLine
  <2>. QED BY <1>2, <2>1, <2>2
<1> DEFINE w == eol - p - 1
           r == PutSpaces(PutStr(t, buf', p, w), 1)
<1>6. Painted(r, t, buf', eol - 1, 1)
  <2>1. /\ p + w - 1 = eol - 2 /\ p + w = eol - 1
        /\ w \in Nat /\ p + w <= Width
    BY <1>1
  <2>. HIDE DEF w
  <2>2. Painting(t, buf', p, w)
    BY <1>1, <1>4, <1>5, <2>1 DEF Painting
  <2>3. Painted(r, t, buf', p + w, 1)
    BY <2>2, PaintFacts
  <2>. QED BY <2>1, <2>3
<1>7. tty' \in Tty /\ tty'.col = p /\ tty'.cell = r.cell
  <2>1. tty' = Back(r, eol - p)
    OBVIOUS
  <2>. HIDE DEF r
  <2>2. r.col - (eol - p) = p /\ eol - p \in Int
    BY <1>1, <1>6 DEF Painted
  <2>3. Back(r, eol - p) \in Tty /\ Back(r, eol - p).col = r.col - (eol - p)
        /\ Back(r, eol - p).cell = r.cell
    BY <1>6, <2>2, BackFacts DEF Painted
  <2>. QED BY <2>1, <2>2, <2>3
<1>. HIDE DEF r, w
<1>8. TypeOK'
  BY <1>1, <1>2, <1>7 DEF TypeOK, Tty
<1>9. BufferBounds' /\ LineIsText'
  BY <1>1, <1>4 DEF BufferBounds, LineIsText
<1>10. ScreenShowsLine'
  BY <1>1, <1>6, <1>7 DEF ScreenShowsLine, Painted
<1>11. NothingLeftBehind'
  BY <1>1, <1>6, <1>7 DEF NothingLeftBehind, Columns, Painted
<1>12. CallContext'
  BY DEF CallContext, Editing
<1>. QED BY <1>8, <1>9, <1>10, <1>11, <1>12

-----------------------------------------------------------------------------
(* The other keys.  First what is known while a line is edited. *)
LEMMA EditContext ==
  ASSUME IInv, Editing
  PROVE  /\ len \in Nat /\ num \in Nat /\ eol \in Nat /\ num <= eol /\ eol <= len - 1
         /\ buf \in [0 .. len - 1 -> Char] /\ Width \in Nat /\ len <= Width
         /\ len \in BufLens /\ tty \in Tty /\ tty.col = num
         /\ \A i \in 0 .. eol - 1 : buf[i] \in Text /\ tty.cell[i] = buf[i]
BY LenAssumption, WidthAssumption
   DEF IInv, TypeOK, BufferBounds, CallContext, LineIsText, ScreenShowsLine, Tty

(* What a key has to establish to keep the invariant: a line b of e        *)
(* characters, the cursor before the c-th, the row t that shows it.        *)
Drawn(e, c, b, t) ==
  /\ e \in Nat /\ c \in Nat /\ c <= e /\ e <= len - 1
  /\ b \in [0 .. len - 1 -> Char] /\ t \in Tty /\ t.col = c
  /\ \A i \in 0 .. e - 1 : b[i] \in Text
  /\ \A i \in 0 .. e - 1 : t.cell[i] = b[i]
  /\ fresh' => \A k \in e .. Width - 1 : t.cell[k] = Space

(* A key that leaves the row drawn keeps the invariant.                    *)
LEMMA KeyKeepsInvariant ==
  ASSUME IInv, Editing, pc' \in {"edit", "wspace", "wword"},
         UNCHANGED <<len, hist, ret>>,
         insert' \in BOOLEAN, fresh' \in BOOLEAN, hcur' \in 0 .. Len(hist),
         NEW e, NEW c, NEW b, NEW t, Drawn(e, c, b, t),
         eol' = e, num' = c, buf' = b, tty' = t
  PROVE  IInv'
<1>1. len \in Nat /\ len \in BufLens
  BY EditContext
<1>2. TypeOK'
  BY <1>1 DEF IInv, TypeOK, Tty, Drawn
<1>3. BufferBounds' /\ LineIsText'
  BY DEF BufferBounds, LineIsText, Drawn
<1>4. ScreenShowsLine' /\ NothingLeftBehind'
  BY DEF ScreenShowsLine, NothingLeftBehind, Drawn
<1>5. CallContext'
  BY <1>1 DEF CallContext
<1>. QED BY <1>2, <1>3, <1>4, <1>5 DEF IInv

(* Printed text without blanks behind it. *)
LEMMA PutFacts ==
  ASSUME NEW t, NEW b, NEW p, NEW n, Painting(t, b, p, n)
  PROVE  Painted(PutStr(t, b, p, n), t, b, p + n, 0)
<1> DEFINE q == PutStr(t, b, p, n)
<1>1. q \in Tty
  BY PutStrIsEcho, EchoFacts DEF Painting
<1>2. Painted(PutSpaces(q, 0), t, b, p + n, 0)
  BY PaintFacts
<1>. HIDE DEF q
<1>3. PutSpaces(q, 0) = q
  <2>1. q.col \in Int /\ q.cell \in [Columns -> Text]
    BY <1>1 DEF Tty
  <2>2. \A k \in Columns : k \notin q.col .. q.col + 0 - 1
    BY <2>1, WidthAssumption DEF Columns
  <2>3. [k \in Columns |-> IF k \in q.col .. q.col + 0 - 1 THEN Space ELSE q.cell[k]] = q.cell
    BY <2>1, <2>2
  <2>4. q = [cell |-> q.cell, col |-> q.col]
    BY <1>1 DEF Tty
  <2>5. q.col + 0 = q.col
    BY <2>1
  <2>. QED BY <2>3, <2>4, <2>5 DEF PutSpaces
<1>. QED BY <1>2, <1>3 DEF q

(* The keys that delete a character keep it.                               *)
LEMMA DeletionKeys ==
  ASSUME IInv, DeleteUnder \/ Del \/ Backspace \/ EraseBlank \/ EraseLetter
  PROVE  IInv'
<1>1. Editing /\ Editing' /\ pc' \in {"edit", "wspace", "wword"}
  BY DEF DeleteUnder, Del, Backspace, EraseBlank, EraseLetter, Deletes, Key, InWord, Editing
<1>2. /\ num \in Nat /\ eol \in Nat /\ num <= eol /\ tty \in Tty /\ tty.col = num
  BY <1>1, EditContext
<1>3. CASE DeleteUnder
  <2>1. num \in 0 .. eol - 1 /\ eol - num - 1 \in Nat /\ eol - num - 1 + 1 = eol - num
    BY <1>2, <1>3 DEF DeleteUnder
  <2>. QED BY <1>1, <1>2, <1>3, <2>1, DeletionKeepsInvariant, SMTT(40) DEF DeleteUnder, Deletes, Key
<1>4. CASE Del
  <2>1. num \in 0 .. eol - 1 /\ eol - num \in Nat
    BY <1>2, <1>4 DEF Del
  <2>. QED BY <1>1, <1>2, <1>4, <2>1, DeletionKeepsInvariant, SMTT(40) DEF Del, Deletes, Key
<1>5. CASE Backspace \/ EraseBlank \/ EraseLetter
  <2>1. DoBackspace /\ num > 0 /\ UNCHANGED <<len, insert, hist, hcur, fresh, ret>>
    BY <1>2, <1>5 DEF Backspace, EraseBlank, EraseLetter, Deletes, Key, InWord
  <2> DEFINE p == num - 1
             t == Back(tty, 1)
             n == eol - num
  <2>2. /\ p \in 0 .. eol - 1 /\ n \in Nat /\ n = eol - p - 1 /\ n + 1 = eol - p
    BY <1>2, <2>1
  <2>3. t \in Tty /\ t.col = p /\ t.cell = tty.cell
    BY <1>2, BackFacts
  <2>4. /\ buf' = MoveDown(buf, p, n) /\ num' = p /\ eol' = eol - 1
        /\ tty' = Back(PutSpaces(PutStr(t, buf', p, n), 1), n + 1)
    BY <2>1 DEF DoBackspace
  <2>. HIDE DEF p, t, n
  <2>5. tty' = Back(PutSpaces(PutStr(t, buf', p, eol - p - 1), 1), eol - p)
    BY <2>2, <2>4
  <2>. QED BY <1>1, <2>1, <2>2, <2>3, <2>4, <2>5, DeletionKeepsInvariant, SMTT(40)
<1>. QED BY <1>3, <1>4, <1>5

(* The keys that move the cursor or change the insert mode keep it.        *)
LEMMA MoveKeys ==
  ASSUME IInv, Home \/ Right \/ Left \/ End \/ ToggleInsert \/ StartEraseWord
               \/ BlanksDone \/ WordDone
  PROVE  IInv'
<1>1. /\ Editing /\ pc' \in {"edit", "wspace", "wword"}
      /\ UNCHANGED <<len, buf, eol, hist, hcur, fresh, ret>>
  BY DEF Home, Right, Left, End, ToggleInsert, StartEraseWord, BlanksDone, WordDone,
         Moves, Key, InWord, Editing, edits
<1>2. /\ len \in Nat /\ num \in Nat /\ eol \in Nat /\ num <= eol /\ eol <= len - 1
      /\ buf \in [0 .. len - 1 -> Char] /\ Width \in Nat /\ len <= Width
      /\ tty \in Tty /\ tty.col = num
      /\ \A i \in 0 .. eol - 1 : buf[i] \in Text /\ tty.cell[i] = buf[i]
  BY <1>1, EditContext
<1>3. /\ fresh => \A k \in eol .. Width - 1 : tty.cell[k] = Space
      /\ fresh \in BOOLEAN /\ hcur \in 0 .. Len(hist) /\ insert \in BOOLEAN
  BY <1>1 DEF IInv, NothingLeftBehind, TypeOK, CallContext
<1>4. num' \in Nat /\ num' <= eol /\ tty' \in Tty /\ tty'.col = num' /\ insert' \in BOOLEAN
  <2>1. CASE Home
    <3>1. Back(tty, num) \in Tty /\ Back(tty, num).col = num - num
      BY <1>2, BackFacts
    <3>. QED BY <1>2, <1>3, <2>1, <3>1 DEF Home, Moves
  <2>2. CASE Left
    <3>1. Back(tty, 1) \in Tty /\ Back(tty, 1).col = num - 1
      BY <1>2, BackFacts
    <3>. QED BY <1>2, <1>3, <2>2, <3>1 DEF Left, Moves
  <2>3. CASE Right
    <3>1. \A j \in num .. num + 1 - 1 : buf[j] \in Text
      BY <1>2, <2>3 DEF Right
    <3>2. Echo(tty, buf, num, 1) \in Tty /\ Echo(tty, buf, num, 1).col = num + 1
      BY <1>2, <3>1, EchoFacts
    <3>. QED BY <1>2, <1>3, <2>3, <3>2 DEF Right, Moves
  <2>4. CASE End
    <3>0. /\ eol - num \in Nat /\ num + (eol - num) = eol /\ eol <= Width
          /\ num + (eol - num) - 1 = eol - 1 /\ 0 .. num - 1 \subseteq 0 .. eol - 1
      BY <1>2
    <3>1. Painting(tty, buf, num, eol - num) /\ num + (eol - num) = eol
      BY <1>2, <3>0 DEF Painting
    <3>2. Painted(PutStr(tty, buf, num, eol - num), tty, buf, eol, 0)
      BY <3>1, PutFacts
    <3>. QED BY <1>2, <1>3, <2>4, <3>2 DEF End, Moves, Painted
  <2>5. CASE ToggleInsert \/ StartEraseWord \/ BlanksDone \/ WordDone
    BY <1>2, <1>3, <2>5 DEF ToggleInsert, StartEraseWord, BlanksDone, WordDone, InWord, edits
  <2>. QED BY <2>1, <2>2, <2>3, <2>4, <2>5
<1>5. \A k \in Columns : tty'.cell[k] = tty.cell[k]
  <2>1. CASE Home
    BY <1>2, <2>1, BackFacts DEF Home
  <2>2. CASE Left
    BY <1>2, <2>2, BackFacts DEF Left
  <2>3. CASE Right
    <3>2. \A k \in Columns : Echo(tty, buf, num, 1).cell[k] =
            IF k \in num .. num + 1 - 1 THEN buf[num + k - num] ELSE tty.cell[k]
      BY <1>2 DEF Echo
    <3>3. tty' = Echo(tty, buf, num, 1) /\ num < eol
      BY <2>3 DEF Right
    <3>4. num \in Nat /\ eol \in Nat /\ Width \in Nat
      BY <1>2
    <3>5. \A k \in Columns : (k \in num .. num + 1 - 1 <=> k = num) /\ num + k - num = k
      BY ONLY <3>4 DEF Columns
    <3>6. num \in 0 .. eol - 1
      BY ONLY <3>3, <3>4
    <3>7. tty.cell[num] = buf[num]
      BY ONLY <1>2, <3>6
    <3>. QED BY ONLY <3>2, <3>3, <3>5, <3>7
  <2>4. CASE End
    <3>0. /\ eol - num \in Nat /\ num + (eol - num) = eol /\ eol <= Width
          /\ num + (eol - num) - 1 = eol - 1 /\ 0 .. num - 1 \subseteq 0 .. eol - 1
      BY <1>2
    <3>1. Painting(tty, buf, num, eol - num) /\ num + (eol - num) = eol
      BY <1>2, <3>0 DEF Painting
    <3>2. Painted(PutStr(tty, buf, num, eol - num), tty, buf, eol, 0)
      BY <3>1, PutFacts
    <3>3. tty' = PutStr(tty, buf, num, eol - num)
      BY <2>4 DEF End
    <3> DEFINE r == PutStr(tty, buf, num, eol - num)
    <3>. HIDE DEF r
    <3>4. eol \in Nat /\ Width \in Nat /\ \A i \in 0 .. eol - 1 : tty.cell[i] = buf[i]
      BY <1>2
    <3>5. /\ \A k \in 0 .. eol - 1 : r.cell[k] = buf[k]
          /\ \A k \in Columns : eol <= k =>
                r.cell[k] = IF k < eol + 0 THEN Space ELSE tty.cell[k]
      BY <3>2 DEF Painted, r
    <3>6. \A k \in Columns : k \in 0 .. eol - 1 \/ (eol <= k /\ ~(k < eol + 0))
      BY ONLY <3>4 DEF Columns
    <3>7. \A k \in Columns : r.cell[k] = tty.cell[k]
      BY ONLY <3>4, <3>5, <3>6
    <3>. QED BY <3>3, <3>7 DEF r
  <2>5. CASE ToggleInsert \/ StartEraseWord \/ BlanksDone \/ WordDone
    BY <2>5 DEF ToggleInsert, StartEraseWord, BlanksDone, WordDone
  <2>. QED BY <2>1, <2>2, <2>3, <2>4, <2>5
<1>6. /\ \A i \in 0 .. eol - 1 : tty'.cell[i] = buf[i]
      /\ fresh => \A k \in eol .. Width - 1 : tty'.cell[k] = Space
  <2>1. 0 .. eol - 1 \subseteq Columns /\ eol .. Width - 1 \subseteq Columns
    <3>1. len \in Nat /\ eol \in Nat /\ eol <= len - 1 /\ Width \in Nat /\ len <= Width
      BY <1>2
    <3>. QED BY ONLY <3>1 DEF Columns
  <2>. QED BY ONLY <1>2, <1>3, <1>5, <2>1
<1>7. Drawn(eol, num', buf, tty')
  <2>1. eol \in Nat /\ eol <= len - 1 /\ buf \in [0 .. len - 1 -> Char] /\ fresh' = fresh
        /\ \A i \in 0 .. eol - 1 : buf[i] \in Text
    BY <1>1, <1>2
  <2>. QED BY ONLY <1>4, <1>6, <2>1 DEF Drawn
<1>. QED BY <1>1, <1>3, <1>4, <1>7, KeyKeepsInvariant

(* Blanks from column c to the end of the line, then back to column c. *)
LEMMA ErasingTo ==
  ASSUME IInv, Editing, pc' \in {"edit", "wspace", "wword"},
         UNCHANGED <<len, hist, ret, insert, hcur, fresh, buf>>,
         NEW c \in 0 .. num, NEW t \in Tty, t.col = c, t.cell = tty.cell,
         num' = c, eol' = c, tty' = EraseTail(t, eol - c)
  PROVE  IInv'
<1> DEFINE n == eol - c
           r == EraseTail(t, n)
<1>1. /\ len \in Nat /\ num \in Nat /\ eol \in Nat /\ num <= eol /\ eol <= len - 1
      /\ buf \in [0 .. len - 1 -> Char] /\ Width \in Nat /\ len <= Width
      /\ \A i \in 0 .. eol - 1 : buf[i] \in Text /\ tty.cell[i] = buf[i]
  BY EditContext
<1>2. /\ fresh => \A k \in eol .. Width - 1 : tty.cell[k] = Space
      /\ fresh' \in BOOLEAN /\ hcur' \in 0 .. Len(hist) /\ insert' \in BOOLEAN
  BY DEF IInv, NothingLeftBehind, TypeOK, CallContext
<1>3. /\ c \in Nat /\ n \in Nat /\ c <= c /\ c <= len - 1
      /\ 0 .. c - 1 \subseteq 0 .. eol - 1 /\ 0 .. c - 1 \subseteq Columns
      /\ c .. Width - 1 \subseteq Columns
      /\ \A k \in 0 .. c - 1 : k \notin c .. c + n - 1
      /\ \A k \in c .. Width - 1 : k \in c .. c + n - 1 \/ k \in eol .. Width - 1
  <2>1. /\ len \in Nat /\ num \in Nat /\ eol \in Nat /\ num <= eol /\ eol <= len - 1
        /\ Width \in Nat /\ len <= Width /\ c \in 0 .. num
    BY <1>1
  <2>2. n = eol - c
    OBVIOUS
  <2>. HIDE DEF n
  <2>3. c \in Nat /\ n \in Nat /\ c <= len - 1 /\ c + n - 1 = eol - 1 /\ c <= eol
    BY ONLY <2>1, <2>2
  <2>. QED BY ONLY <2>1, <2>3 DEF Columns
<1>4. tty' = r
  OBVIOUS
<1>. HIDE DEF n
<1>5. /\ r \in Tty /\ r.col = c
      /\ \A k \in Columns : r.cell[k] =
           IF k \in c .. c + n - 1 THEN Space ELSE tty.cell[k]
  <2>1. t \in Tty /\ t.col = c /\ t.cell = tty.cell
    OBVIOUS
  <2>2. /\ r \in Tty /\ r.col = t.col
        /\ \A k \in Columns : r.cell[k] =
             IF k \in t.col .. t.col + n - 1 THEN Space ELSE t.cell[k]
    BY ONLY <1>3, <2>1, WipeFacts
  <2>. QED BY ONLY <2>1, <2>2
<1>. HIDE DEF r
<1>6. \A i \in 0 .. c - 1 : buf[i] \in Text
  BY <1>1, <1>3
<1>7. \A i \in 0 .. c - 1 : r.cell[i] = buf[i]
  BY <1>1, <1>3, <1>5
<1>8. fresh' => \A k \in c .. Width - 1 : r.cell[k] = Space
  BY <1>2, <1>3, <1>5
<1>9. /\ buf' = buf /\ c \in Nat /\ c <= c /\ c <= len - 1 /\ r \in Tty /\ r.col = c
      /\ buf \in [0 .. len - 1 -> Char]
  BY <1>1, <1>3, <1>5
<1>10. Drawn(c, c, buf, r)
  BY ONLY <1>6, <1>7, <1>8, <1>9 DEF Drawn
<1>. QED BY <1>2, <1>4, <1>9, <1>10, KeyKeepsInvariant

(* The keys that erase to the end or the whole line keep it.               *)
LEMMA EraseKeys ==
  ASSUME IInv, EraseToEol \/ EraseLine
  PROVE  IInv'
<1>1. /\ Editing /\ pc' \in {"edit", "wspace", "wword"}
      /\ UNCHANGED <<len, hist, ret, insert, hcur, fresh, buf>>
  BY DEF EraseToEol, EraseLine, Deletes, Key, Editing
<1>2. num \in Nat /\ eol \in Nat /\ num <= eol /\ tty \in Tty /\ tty.col = num
  BY <1>1, EditContext
<1>3. CASE EraseToEol
  <2>1. num \in 0 .. num /\ num' = num /\ eol' = num /\ tty' = EraseTail(tty, eol - num)
    BY <1>2, <1>3 DEF EraseToEol
  <2>. QED BY <1>1, <1>2, <2>1, ErasingTo
<1>4. CASE EraseLine
  <2>1. /\ Back(tty, num) \in Tty /\ Back(tty, num).col = num - num
        /\ Back(tty, num).cell = tty.cell
    BY <1>2, BackFacts
  <2>2. 0 \in 0 .. num /\ num - num = 0 /\ eol - 0 = eol
    BY <1>2
  <2>3. num' = 0 /\ eol' = 0 /\ tty' = EraseTail(Back(tty, num), eol)
    BY <1>4 DEF EraseLine
  <2>. HIDE DEF EraseLine
  <2>. QED BY <1>1, <2>1, <2>2, <2>3, ErasingTo
<1>. QED BY <1>3, <1>4

(* A line b of n characters painted behind its first p ones, the cursor    *)
(* brought back to c: every key that prints text does this.                *)
LEMMA PaintedLine ==
  ASSUME IInv, Editing, pc' = pc, UNCHANGED <<len, hist, ret, insert>>,
         hcur' \in 0 .. Len(hist), fresh' \in BOOLEAN,
         NEW t, NEW p, NEW n, NEW c \in Nat, c <= n,
         Painting(t, buf', p, n - p), n <= len - 1, n \in Nat,
         buf' \in [0 .. len - 1 -> Char], eol' = n, num' = c,
         tty' = Back(PutStr(t, buf', p, n - p), n - c),
         fresh' => \A k \in n .. Width - 1 : t.cell[k] = Space
  PROVE  IInv'
<1> DEFINE q == PutStr(t, buf', p, n - p)
<1>1. /\ len \in Nat /\ Width \in Nat /\ len <= Width /\ insert \in BOOLEAN
      /\ p \in Nat /\ n - p \in Nat /\ p + (n - p) = n /\ p + (n - p) - 1 = n - 1
  BY EditContext DEF IInv, TypeOK, Painting
<1>2. Painted(q, t, buf', n, 0)
  BY <1>1, PutFacts
<1>3. tty' = Back(q, n - c)
  OBVIOUS
<1>. HIDE DEF q
<1>4. tty' \in Tty /\ tty'.col = c /\ tty'.cell = q.cell
  <2>1. q \in Tty /\ q.col = n /\ n - c \in Int
    BY <1>2 DEF Painted
  <2>2. /\ Back(q, n - c) \in Tty /\ Back(q, n - c).col = q.col - (n - c)
        /\ Back(q, n - c).cell = q.cell
    BY <2>1, BackFacts
  <2>. QED BY <1>3, <2>1, <2>2
<1>5. \A i \in 0 .. n - 1 : buf'[i] \in Text /\ tty'.cell[i] = buf'[i]
  BY <1>1, <1>2, <1>4 DEF Painted, Painting
<1>6. fresh' => \A k \in n .. Width - 1 : tty'.cell[k] = Space
  <2>1. HAVE fresh'
  <2>2. TAKE k \in n .. Width - 1
  <2>3. k \in Columns /\ n <= k /\ ~(k < n + 0)
    BY <1>1 DEF Columns
  <2>4. q.cell[k] = t.cell[k]
    BY <1>2, <2>3 DEF Painted
  <2>. QED BY <1>4, <2>1, <2>4
<1>7. pc' \in {"edit", "wspace", "wword"}
  BY DEF Editing
<1>8. Drawn(n, c, buf', tty')
  <2>1. n \in Nat /\ c \in Nat /\ c <= n /\ n <= len - 1 /\ buf' \in [0 .. len - 1 -> Char]
    OBVIOUS
  <2>. QED BY ONLY <1>4, <1>5, <1>6, <2>1 DEF Drawn
<1>. QED BY <1>1, <1>7, <1>8, KeyKeepsInvariant

(* A character inserted or written over another keeps it.                  *)
LEMMA CharacterKeys ==
  ASSUME IInv, NEW x \in Text, InsertChar(x) \/ Overwrite(x)
  PROVE  IInv'
<1>1. /\ Editing /\ pc' = pc /\ UNCHANGED <<len, hist, ret, insert, hcur, fresh>>
      /\ num' = num + 1
  BY DEF InsertChar, Overwrite, Key, Editing
<1>2. /\ len \in Nat /\ num \in Nat /\ eol \in Nat /\ num <= eol /\ eol <= len - 1
      /\ buf \in [0 .. len - 1 -> Char] /\ Width \in Nat /\ len <= Width
      /\ tty \in Tty /\ tty.col = num
      /\ \A i \in 0 .. eol - 1 : buf[i] \in Text /\ tty.cell[i] = buf[i]
  BY <1>1, EditContext
<1>3. /\ fresh => \A k \in eol .. Width - 1 : tty.cell[k] = Space
      /\ fresh \in BOOLEAN /\ hcur \in 0 .. Len(hist)
  BY <1>1 DEF IInv, NothingLeftBehind, TypeOK, CallContext
<1>4. CASE InsertChar(x)
  <2>1. eol <= len - 2 /\ eol' = eol + 1 /\ num' <= eol'
    BY <1>1, <1>2, <1>4 DEF InsertChar, Room
  <2>2. buf' = [MoveUp(buf, num, (eol + 1 - num) - 1) EXCEPT ![num] = x]
    BY <1>4 DEF InsertChar
  <2>3. num \in 0 .. len - 1 /\ x \in Char /\ (eol + 1 - num) - 1 = eol - num
    BY <1>2 DEF Char
  <2>4. /\ buf' \in [0 .. len - 1 -> Char]
        /\ \A i \in 0 .. len - 1 : buf'[i] =
             IF i = num THEN x
             ELSE IF i \in num + 1 .. eol THEN buf[i - 1] ELSE buf[i]
    <3>1. DOMAIN buf = 0 .. len - 1
      BY <1>2
    <3>2. MoveUp(buf, num, eol - num) =
            [i \in 0 .. len - 1 |-> IF i \in num + 1 .. num + (eol - num)
                                    THEN buf[i - 1] ELSE buf[i]]
      BY <3>1 DEF MoveUp
    <3>3. num + (eol - num) = eol
      BY <1>2
    <3>4. MoveUp(buf, num, eol - num) =
            [i \in 0 .. len - 1 |-> IF i \in num + 1 .. eol THEN buf[i - 1] ELSE buf[i]]
      BY <3>2, <3>3
    <3>5. buf' = [i \in 0 .. len - 1 |-> IF i = num THEN x
                   ELSE IF i \in num + 1 .. eol THEN buf[i - 1] ELSE buf[i]]
      BY <2>2, <2>3, <3>4
    <3>6. \A i \in 0 .. len - 1 : i \in num + 1 .. eol => i - 1 \in 0 .. len - 1
      BY <1>2
    <3>. QED BY <1>2, <2>3, <3>5, <3>6
  <2>5. \A i \in 0 .. eol : buf'[i] \in Text
    BY <1>2, <2>1, <2>4
  <2>6. Painting(tty, buf', num, eol' - num)
    <3>1. /\ eol' - num \in Nat /\ num + (eol' - num) <= Width
          /\ num + (eol' - num) - 1 = eol
      BY <1>2, <2>1
    <3>2. \A k \in 0 .. num - 1 : tty.cell[k] = buf'[k]
      BY <1>2, <2>1, <2>4
    <3>. QED BY <1>2, <2>5, <3>1, <3>2 DEF Painting
  <2>7. tty' = Back(PutStr(tty, buf', num, eol' - num), eol' - num')
    <3>1. eol + 1 - num = eol' - num /\ eol' - num - 1 = eol' - num'
      BY <1>1, <1>2, <2>1
    <3>. QED BY <1>4, <3>1 DEF InsertChar
  <2>8. fresh => \A k \in eol' .. Width - 1 : tty.cell[k] = Space
    BY <1>2, <1>3, <2>1
  <2>9. num' \in Nat /\ eol' \in Nat /\ eol' <= len - 1
    BY <1>1, <1>2, <2>1
  <2>. QED BY <1>1, <1>3, <2>1, <2>4, <2>6, <2>7, <2>8, <2>9, PaintedLine, SMTT(40)
<1>5. CASE Overwrite(x)
  <2> DEFINE c == num + 1
             e == IF num = eol THEN c ELSE eol
  <2>1. num' = c /\ eol' = e /\ buf' = [buf EXCEPT ![num] = x]
    BY <1>1, <1>5 DEF Overwrite
  <2>2. /\ e \in Nat /\ c \in Nat /\ c <= e /\ eol <= e /\ e <= len - 1
        /\ num \in 0 .. len - 1 /\ c + 0 = c /\ num + 1 = c /\ num < c
        /\ \A i \in 0 .. e - 1 : i \in 0 .. c - 1 \/ (i \in 0 .. eol - 1 /\ i # num /\ c <= i)
    BY <1>2, <1>5 DEF Overwrite, Room
  <2>. HIDE DEF c, e
  <2>3. /\ 0 .. e - 1 \subseteq 0 .. len - 1 /\ 0 .. e - 1 \subseteq Columns
        /\ e .. Width - 1 \subseteq eol .. Width - 1 /\ e .. Width - 1 \subseteq Columns
        /\ \A i \in Columns : i < c + 0 <=> ~(c <= i)
    <3>1. /\ len \in Nat /\ eol \in Nat /\ Width \in Nat /\ len <= Width
          /\ e \in Nat /\ c \in Nat /\ e <= len - 1 /\ eol <= e
      BY <1>2, <2>2
    <3>. QED BY ONLY <3>1 DEF Columns
  <2> DEFINE b == [buf EXCEPT ![num] = x]
  <2>4. /\ b \in [0 .. len - 1 -> Char]
        /\ \A i \in 0 .. len - 1 : b[i] = IF i = num THEN x ELSE buf[i]
    BY <1>2, <2>2 DEF Char
  <2>. HIDE DEF b
  <2>5. \A i \in 0 .. e - 1 : b[i] \in Text
    <3>1. \A i \in 0 .. e - 1 : i \in 0 .. len - 1 /\ (i = num \/ i \in 0 .. eol - 1)
      <4>1. num \in Nat /\ eol \in Nat /\ num <= eol /\ len \in Nat
        BY <1>2
      <4>. QED BY ONLY <2>2, <4>1
    <3>2. x \in Text /\ \A i \in 0 .. eol - 1 : buf[i] \in Text
      BY <1>2
    <3>. QED BY ONLY <2>4, <3>1, <3>2
  <2>6. Painting(tty, b, num, 1)
    <3>1. num + 1 <= Width /\ num + 1 - 1 = num
      BY <1>2, <2>2
    <3>2. \A j \in 0 .. num : b[j] \in Text
      BY <1>2, <2>2, <2>5
    <3>3. \A k \in 0 .. num - 1 : tty.cell[k] = b[k]
      BY <1>2, <2>2, <2>4
    <3>. QED BY <1>2, <3>1, <3>2, <3>3 DEF Painting
  <2>7. Painted(PutStr(tty, b, num, 1), tty, b, c, 0)
    BY <2>2, <2>6, PutFacts
  <2>8. tty' = PutStr(tty, b, num, 1) /\ buf' = b
    BY <1>5, <2>1 DEF Overwrite, b
  <2> DEFINE r == PutStr(tty, b, num, 1)
  <2>. HIDE DEF r
  <2>9. /\ r \in Tty /\ r.col = c
        /\ \A k \in 0 .. c - 1 : r.cell[k] = b[k]
        /\ \A k \in Columns : c <= k => r.cell[k] = tty.cell[k]
    BY <2>2, <2>3, <2>7 DEF Painted, r
  <2>10. \A i \in 0 .. e - 1 : r.cell[i] = b[i]
    <3>1. SUFFICES ASSUME NEW i \in 0 .. e - 1 PROVE r.cell[i] = b[i]
      OBVIOUS
    <3>2. CASE i \in 0 .. c - 1
      BY <2>9, <3>2
    <3>3. CASE i \in 0 .. eol - 1 /\ i # num /\ c <= i
      <4>1. i \in Columns /\ i \in 0 .. len - 1
        BY <2>3
      <4>. QED BY <1>2, <2>4, <2>9, <3>3, <4>1
    <3>. QED BY <2>2, <3>2, <3>3
  <2>11. fresh => \A k \in e .. Width - 1 : r.cell[k] = Space
    <3>1. \A k \in e .. Width - 1 : c <= k
      BY <1>2, <2>2
    <3>. QED BY <1>3, <2>3, <2>9, <3>1
  <2>12. /\ pc' \in {"edit", "wspace", "wword"} /\ insert' \in BOOLEAN /\ fresh' \in BOOLEAN
         /\ hcur' \in 0 .. Len(hist) /\ UNCHANGED <<len, hist, ret>>
         /\ fresh' => \A k \in e .. Width - 1 : r.cell[k] = Space
    BY <1>1, <1>3, <2>11 DEF Editing, IInv, TypeOK
  <2>13. tty' = r
    BY <2>8 DEF r
  <2>14. e \in Nat /\ c \in Nat /\ c <= e /\ e <= len - 1
    BY <2>2
  <2>15. Drawn(e, c, b, r)
    BY ONLY <2>4, <2>5, <2>9, <2>10, <2>12, <2>14 DEF Drawn
  <2>. QED BY <1>1, <2>1, <2>8, <2>12, <2>13, <2>15, KeyKeepsInvariant
<1>. QED BY <1>4, <1>5

-----------------------------------------------------------------------------
(* Keys and calls that replace the whole line. *)

(* A NUL behind text ends the string there.                                *)
LEMMA CutAtNul ==
  ASSUME NEW l \in Nat, NEW b, NEW e \in 0 .. l - 1,
         \A i \in 0 .. e - 1 : b[i] \in Text, b[e] = Nul
  PROVE  StrnLen(b, 0, l) = e
<1>1. \A j \in 0 .. e - 1 : b[0 + j] # Nul
  BY TextAssumption
<1>2. b[0 + e] = Nul /\ e \in 0 .. l
  OBVIOUS
<1>. QED BY <1>1, <1>2, StrnLenIs

(* A copied history line is cut to the buffer and terminated. *)
LEMMA SafeStrncpyFacts ==
  ASSUME NEW l \in Nat, l >= 2, NEW b \in [0 .. l - 1 -> Char], NEW s \in Seq(Text)
  PROVE  LET r == SafeStrncpy(b, s, l)
             n == Smaller(Len(s), l - 1)
         IN  /\ r \in [0 .. l - 1 -> Char] /\ n \in 0 .. l - 1
             /\ \A i \in 0 .. n - 1 : r[i] \in Text
             /\ r[n] = Nul
<1> DEFINE n == Smaller(Len(s), l - 1)
           r == SafeStrncpy(b, s, l)
<1>1. n \in 0 .. l - 1 /\ n <= Len(s) /\ Len(s) \in Nat
  BY DEF Smaller
<1>. HIDE DEF n
<1>2. \A i \in 0 .. n - 1 : s[i + 1] \in Text
  <2>1. \A i \in 0 .. n - 1 : i + 1 \in 1 .. Len(s)
    BY <1>1
  <2>2. \A j \in 1 .. Len(s) : s[j] \in Text
    OBVIOUS
  <2>. QED BY <2>1, <2>2
<1>3. DOMAIN b = 0 .. l - 1
  OBVIOUS
<1>4. r = [i \in 0 .. l - 1 |-> IF i < n THEN s[i + 1]
                               ELSE IF i = n \/ i = l - 1 THEN Nul ELSE b[i]]
  BY <1>3 DEF SafeStrncpy, n
<1>5. \A i \in 0 .. l - 1 : i < n => i \in 0 .. n - 1
  BY <1>1
<1>6. r \in [0 .. l - 1 -> Char]
  BY <1>2, <1>4, <1>5 DEF Char
<1>7. \A i \in 0 .. n - 1 : i \in 0 .. l - 1 /\ i < n
  BY <1>1
<1>8. \A i \in 0 .. n - 1 : r[i] \in Text
  BY <1>2, <1>4, <1>7
<1>9. r[n] = Nul
  BY <1>1, <1>4
<1>. HIDE DEF r
<1>. QED BY <1>1, <1>6, <1>8, <1>9 DEF n, r

(* A new row is blank, with the cursor at its start.                       *)
LEMMA BlankRowFacts == BlankRow \in Tty /\ BlankRow.col = 0
                       /\ \A k \in Columns : BlankRow.cell[k] = Space
BY TextAssumption DEF BlankRow, Tty

(* Redrawing keeps the invariant.                                          *)
LEMMA RedrawKey ==
  ASSUME IInv, Redraw
  PROVE  IInv'
<1>1. /\ Editing /\ pc' = pc /\ UNCHANGED <<len, hist, ret, insert, hcur, num, eol>>
  BY DEF Redraw, Key, Editing
<1>2. /\ len \in Nat /\ num \in Nat /\ eol \in Nat /\ num <= eol /\ eol <= len - 1
      /\ buf \in [0 .. len - 1 -> Char] /\ Width \in Nat /\ len <= Width
      /\ \A i \in 0 .. eol - 1 : buf[i] \in Text
  BY <1>1, EditContext
<1> DEFINE b == [buf EXCEPT ![eol] = Nul]
<1>3. /\ b \in [0 .. len - 1 -> Char] /\ b[eol] = Nul
      /\ \A i \in 0 .. eol - 1 : b[i] \in Text
  BY <1>2 DEF Char
<1>4. buf' = b /\ fresh' = TRUE /\ tty' = Back(PutStr(BlankRow, b, 0, len), eol - num)
  BY DEF Redraw
<1>. HIDE DEF b
<1>5. StrnLen(b, 0, len) = eol
  BY ONLY <1>2, <1>3, CutAtNul
<1>6. \A j \in 0 .. 0 + eol - 1 : b[j] \in Text
  BY <1>2, <1>3
<1>7. PutStr(BlankRow, b, 0, eol) = Echo(BlankRow, b, 0, eol)
  BY <1>2, <1>6, PutStrIsEcho
<1>8. PutStr(BlankRow, b, 0, len) = PutStr(BlankRow, b, 0, eol)
  BY <1>5, <1>7 DEF PutStr
<1>9. Painting(BlankRow, b, 0, eol)
  BY <1>2, <1>6, BlankRowFacts DEF Painting
<1>10. /\ eol - 0 = eol /\ Painting(BlankRow, b, 0, eol - 0)
       /\ tty' = Back(PutStr(BlankRow, b, 0, eol - 0), eol - num)
  BY <1>2, <1>4, <1>8, <1>9
<1>11. \A k \in eol .. Width - 1 : BlankRow.cell[k] = Space
  BY <1>2, BlankRowFacts DEF Columns
<1>12. hcur' \in 0 .. Len(hist) /\ fresh' \in BOOLEAN
  BY <1>1, <1>4 DEF IInv, CallContext, TypeOK
<1>13. eol' = eol /\ num' = num /\ buf' \in [0 .. len - 1 -> Char]
  BY <1>1, <1>3, <1>4
<1>. QED BY <1>1, <1>2, <1>4, <1>10, <1>11, <1>12, <1>13, PaintedLine, SMTT(40)

(* Recalling a line of the history keeps it.                               *)
LEMMA RecallKeys ==
  ASSUME IInv, Up \/ Down
  PROVE  IInv'
<1>1. PICK x \in {PrevEntry, NextEntry} : Recall(x)
  BY DEF Up, Down
<1>2. /\ Editing /\ pc' = pc /\ UNCHANGED <<len, hist, ret, insert, fresh>> /\ hcur' = x
  BY <1>1 DEF Recall, Key, Editing
<1>3. /\ len \in Nat /\ num \in Nat /\ eol \in Nat /\ num <= eol /\ eol <= len - 1
      /\ buf \in [0 .. len - 1 -> Char] /\ Width \in Nat /\ len <= Width /\ len >= 2
      /\ tty \in Tty /\ tty.col = num
  BY <1>2, EditContext, LenAssumption
<1>4. /\ fresh => \A k \in eol .. Width - 1 : tty.cell[k] = Space
      /\ fresh \in BOOLEAN /\ hcur \in 0 .. Len(hist) /\ hist \in Seq(Seq(Text))
  BY <1>2 DEF IInv, NothingLeftBehind, TypeOK, CallContext
<1>5. x \in 0 .. Len(hist)
  BY <1>4 DEF PrevEntry, NextEntry
<1> DEFINE s == HistLine(x)
           b == SafeStrncpy(buf, s, len)
           e == Smaller(Len(s), len - 1)
<1>6. s \in Seq(Text)
  <2>1. x # 0 => x \in 1 .. Len(hist)
    BY <1>4, <1>5
  <2>2. \A i \in 1 .. Len(hist) : hist[i] \in Seq(Text)
    BY <1>4
  <2>. QED BY <2>1, <2>2 DEF HistLine
<1>7. buf' = b
  BY <1>1 DEF Recall
<1>. HIDE DEF s
<1>8. /\ b \in [0 .. len - 1 -> Char] /\ e \in 0 .. len - 1
      /\ \A i \in 0 .. e - 1 : b[i] \in Text
      /\ b[e] = Nul
  BY ONLY <1>3, <1>6, SafeStrncpyFacts
<1>. HIDE DEF b, e
<1>9. StrnLen(b, 0, len) = e
  BY ONLY <1>3, <1>8, CutAtNul
<1> DEFINE t == EraseTail(Back(tty, num), eol)
<1>10. eol' = e /\ num' = e /\ tty' = PutStr(t, b, 0, e)
  BY <1>1, <1>7, <1>9 DEF Recall
<1>11. /\ t \in Tty /\ t.col = 0
       /\ \A k \in Columns : t.cell[k] = IF k \in 0 .. eol - 1 THEN Space ELSE tty.cell[k]
  <2>1. tty \in Tty /\ num \in Int /\ tty.col = num /\ eol \in Nat
    BY <1>3
  <2> DEFINE q == Back(tty, num)
  <2>2. q \in Tty /\ q.col = num - num /\ q.cell = tty.cell
    BY ONLY <2>1, BackFacts
  <2>. HIDE DEF q
  <2>3. q.col = 0 /\ \A k : k \in q.col .. q.col + eol - 1 <=> k \in 0 .. eol - 1
    BY ONLY <2>1, <2>2
  <2>4. /\ EraseTail(q, eol) \in Tty /\ EraseTail(q, eol).col = q.col
        /\ \A k \in Columns : EraseTail(q, eol).cell[k] =
             IF k \in q.col .. q.col + eol - 1 THEN Space ELSE q.cell[k]
    BY ONLY <2>1, <2>2, WipeFacts
  <2>. QED BY ONLY <2>2, <2>3, <2>4 DEF q
<1>. HIDE DEF t
<1>12. fresh => \A k \in 0 .. Width - 1 : t.cell[k] = Space
  <2>1. \A k \in Columns : k \in 0 .. eol - 1 \/ k \in eol .. Width - 1
    BY <1>3 DEF Columns
  <2>. QED BY <1>4, <1>11, <2>1 DEF Columns
<1>13. Painting(t, b, 0, e)
  <2>1. 0 + e <= Width /\ e \in Nat /\ 0 + e - 1 = e - 1
    BY ONLY <1>3, <1>8
  <2>. QED BY ONLY <1>8, <1>11, <2>1 DEF Painting
<1> DEFINE r == PutStr(t, b, 0, e)
<1>14. Painted(r, t, b, e, 0)
  <2>1. Painted(r, t, b, 0 + e, 0)
    BY ONLY <1>13, PutFacts
  <2>2. 0 + e = e
    BY ONLY <1>8
  <2>. QED BY ONLY <2>1, <2>2
<1>. HIDE DEF r
<1>15. /\ r \in Tty /\ r.col = e
       /\ \A i \in 0 .. e - 1 : r.cell[i] = b[i]
  BY ONLY <1>8, <1>14 DEF Painted
<1>16. fresh => \A k \in e .. Width - 1 : r.cell[k] = Space
  <2>1. /\ e .. Width - 1 \subseteq Columns
        /\ \A k \in e .. Width - 1 : e <= k /\ ~(k < e + 0) /\ k \in 0 .. Width - 1
    BY ONLY <1>3, <1>8 DEF Columns
  <2>. QED BY <1>12, <1>14, <2>1 DEF Painted
<1>17. tty' = r /\ e \in Nat /\ e <= e /\ e <= len - 1
  BY <1>8, <1>10 DEF r
<1>18. /\ pc' \in {"edit", "wspace", "wword"} /\ insert' \in BOOLEAN /\ fresh' \in BOOLEAN
       /\ hcur' \in 0 .. Len(hist)
       /\ fresh' => \A k \in e .. Width - 1 : r.cell[k] = Space
  BY <1>2, <1>4, <1>5, <1>16 DEF Editing, IInv, TypeOK
<1>19. Drawn(e, e, b, r)
  BY ONLY <1>8, <1>15, <1>17, <1>18 DEF Drawn
<1>. QED BY <1>2, <1>7, <1>10, <1>17, <1>18, <1>19, KeyKeepsInvariant

-----------------------------------------------------------------------------
(* Entry and return. *)

(* The string in a terminated buffer is the text before the NUL. *)
LEMMA CStringFacts ==
  ASSUME NEW l \in Nat, NEW b, NEW e \in 0 .. l - 1,
         \A i \in 0 .. e - 1 : b[i] \in Text, b[e] = Nul
  PROVE  CString(b, l) \in Seq(Text) /\ Len(CString(b, l)) = e
<1>1. CString(b, l) = [i \in 1 .. e |-> b[i - 1]]
  BY CutAtNul DEF CString
<1>2. \A i \in 1 .. e : b[i - 1] \in Text
  <2>1. \A i \in 1 .. e : i - 1 \in 0 .. e - 1
    OBVIOUS
  <2>. QED BY <2>1
<1>3. e \in Nat
  OBVIOUS
<1>4. [i \in 1 .. e |-> b[i - 1]] \in [1 .. e -> Text]
  BY <1>2
<1>. QED BY <1>1, <1>3, <1>4

(* A new call keeps it.                                                    *)
LEMMA CallKeepsInvariant ==
  ASSUME IInv, NEW l \in BufLens, Call(l)
  PROVE  IInv'
<1>1. /\ pc = "idle" /\ pc' = "edit" /\ len' = l /\ num' = 0 /\ eol' = 0
      /\ insert' = TRUE /\ hcur' = 0 /\ tty' = Prompted(tty)
      /\ buf' \in [0 .. l - 1 -> Char] /\ UNCHANGED <<hist, fresh, ret>>
  BY DEF Call
<1>2. l \in Nat /\ l >= 2 /\ Width \in Nat /\ PromptLen \in Nat
  BY LenAssumption, WidthAssumption, PromptAssumption
<1>3. /\ tty \in Tty /\ hist \in Seq(Seq(Text)) /\ fresh \in BOOLEAN
      /\ ret \in Nat \cup {-1}
      /\ fresh => \A k \in Columns : tty.cell[k] = Space
  BY <1>1 DEF IInv, TypeOK, CallContext, Tty
<1> DEFINE t == Prompted(tty)
<1>4. /\ t \in Tty /\ t.col = 0
      /\ fresh => \A k \in Columns : t.cell[k] = Space
  BY <1>3, TextAssumption DEF Prompted, Tty
<1>5. TypeOK'
  BY <1>1, <1>2, <1>3, <1>4 DEF TypeOK, Tty
<1>6. BufferBounds'
  BY <1>1, <1>2 DEF BufferBounds
<1>7. LineIsText' /\ ScreenShowsLine'
  BY <1>1, <1>4 DEF LineIsText, ScreenShowsLine
<1>8. NothingLeftBehind'
  BY <1>1, <1>4 DEF NothingLeftBehind, Columns
<1>9. CallContext'
  BY <1>1, <1>3 DEF CallContext
<1>. QED BY <1>5, <1>6, <1>7, <1>8, <1>9 DEF IInv

(* Entering the line keeps it.                                             *)
LEMMA EnterKeepsInvariant ==
  ASSUME IInv, Enter
  PROVE  IInv'
<1> DEFINE b == [buf EXCEPT ![eol] = Nul]
<1>1. /\ Editing /\ buf' = b /\ Remember(CString(b, len)) /\ tty' = BlankRow
      /\ fresh' = TRUE /\ UNCHANGED <<len, num, eol, insert, hcur>>
      /\ ret' \in {ret, eol}
  BY DEF Enter, Editing
<1>2. /\ len \in Nat /\ num \in Nat /\ eol \in Nat /\ num <= eol /\ eol <= len - 1
      /\ buf \in [0 .. len - 1 -> Char] /\ len \in BufLens
      /\ \A i \in 0 .. eol - 1 : buf[i] \in Text
  BY <1>1, EditContext
<1>3. /\ b \in [0 .. len - 1 -> Char] /\ b[eol] = Nul
      /\ \A i \in 0 .. eol - 1 : b[i] \in Text
  BY <1>2 DEF Char
<1>. HIDE DEF b
<1>4. CString(b, len) \in Seq(Text)
  <2>1. len \in Nat /\ eol \in 0 .. len - 1
    BY ONLY <1>2
  <2>. QED BY ONLY <1>3, <2>1, CStringFacts
<1>5. /\ hist \in Seq(Seq(Text)) /\ hcur \in Nat /\ insert \in BOOLEAN
      /\ ret \in Nat \cup {-1}
  BY DEF IInv, TypeOK
<1>6. pc' \in {"idle", "halt"} /\ hist' \in Seq(Seq(Text))
  <2> DEFINE s == CString(b, len)
  <2>1. s \in Seq(Text) /\ Remember(s)
    BY <1>1, <1>4
  <2>. HIDE DEF s
  <2>2. Append(hist, s) \in Seq(Seq(Text))
    BY <1>5, <2>1
  <2>3. CASE UNCHANGED hist
    BY <1>5, <2>1, <2>3 DEF Remember
  <2>4. CASE pc' = "idle" /\ hist' = Append(hist, s)
    BY <2>2, <2>4
  <2>5. CASE pc' = "idle" /\ Len(hist) >= HistMax /\ hist' = Append(Tail(hist), s)
    <3>1. hist # <<>>
      BY <2>5, HistAssumption
    <3>2. Tail(hist) \in Seq(Seq(Text))
      BY <1>5, <3>1
    <3>. QED BY <2>1, <2>5, <3>2
  <2>. QED BY <2>1, <2>3, <2>4, <2>5 DEF Remember
<1>7. ~Editing'
  BY <1>6 DEF Editing
<1>8. TypeOK'
  BY <1>1, <1>2, <1>3, <1>5, <1>6, BlankRowFacts DEF TypeOK, Tty
<1>9. CallContext'
  BY <1>1, <1>7, BlankRowFacts DEF CallContext
<1>. QED
  BY <1>7, <1>8, <1>9 DEF IInv, BufferBounds, LineIsText, ScreenShowsLine, NothingLeftBehind

(* An interrupted line keeps it.                                           *)
LEMMA InterruptKeepsInvariant ==
  ASSUME IInv, Interrupt
  PROVE  IInv'
<1>1. /\ Editing /\ pc' = "idle" /\ buf' = [buf EXCEPT ![0] = Nul] /\ ret' = -1
      /\ fresh' = FALSE /\ UNCHANGED <<len, num, eol, insert, hist, hcur, tty>>
  BY DEF Interrupt, Editing
<1>2. buf' \in [0 .. len - 1 -> Char]
  BY <1>1 DEF IInv, TypeOK, Char
<1>3. ~Editing'
  BY <1>1 DEF Editing
<1>4. TypeOK' /\ CallContext'
  BY <1>1, <1>2, <1>3 DEF IInv, TypeOK, CallContext
<1>. QED
  BY <1>3, <1>4 DEF IInv, BufferBounds, LineIsText, ScreenShowsLine, NothingLeftBehind

-----------------------------------------------------------------------------
(* The inductive invariant. *)

(* It holds before the first call.                                         *)
LEMMA InitEstablishesInvariant == Init => IInv
<1>1. HAVE Init
<1>2. [0 .. 0 - 1 -> Char] = {<<>>}
  <2>1. 0 .. 0 - 1 = {} /\ <<>> = [i \in {} |-> Nul]
    OBVIOUS
  <2>. QED BY <2>1
<1>3. ~Editing
  BY <1>1 DEF Init, Editing
<1>4. TypeOK
  BY <1>1, <1>2, BlankRowFacts DEF Init, TypeOK, Tty
<1>5. CallContext
  BY <1>1, <1>3, BlankRowFacts DEF Init, CallContext
<1>. QED
  BY <1>3, <1>4, <1>5
     DEF IInv, BufferBounds, LineIsText, ScreenShowsLine, NothingLeftBehind

(* Each step keeps it.                                                     *)
LEMMA NextKeepsInvariant == IInv /\ [Next]_vars => IInv'
<1>1. SUFFICES ASSUME IInv, [Next]_vars PROVE IInv'
  OBVIOUS
<1>2. CASE \E l \in BufLens : Call(l)
  BY <1>1, <1>2, CallKeepsInvariant
<1>3. CASE Enter
  BY <1>1, <1>3, EnterKeepsInvariant
<1>4. CASE Interrupt
  BY <1>1, <1>4, InterruptKeepsInvariant
<1>5. CASE Home \/ Right \/ Left \/ End \/ ToggleInsert \/ StartEraseWord
           \/ BlanksDone \/ WordDone
  BY <1>1, <1>5, MoveKeys
<1>6. CASE Redraw
  BY <1>1, <1>6, RedrawKey
<1>7. CASE EraseToEol \/ EraseLine
  BY <1>1, <1>7, EraseKeys
<1>8. CASE DeleteUnder \/ Del \/ Backspace \/ EraseBlank \/ EraseLetter
  BY <1>1, <1>8, DeletionKeys
<1>9. CASE \E c \in Text : InsertChar(c) \/ Overwrite(c)
  BY <1>1, <1>9, CharacterKeys
<1>10. CASE Up \/ Down
  BY <1>1, <1>10, RecallKeys
<1>11. CASE Hang \/ UNCHANGED vars
  <2>1. UNCHANGED vars
    BY <1>11 DEF Hang
  <2>. QED
    BY <1>1, <2>1 DEF vars, edits, IInv, TypeOK, BufferBounds, LineIsText, ScreenShowsLine,
                      NothingLeftBehind, CallContext, Editing
<1>. QED
  BY <1>1, <1>2, <1>3, <1>4, <1>5, <1>6, <1>7, <1>8, <1>9, <1>10, <1>11
     DEF Next, Keystroke, EraseWordStep

(* It holds always.                                                        *)
LEMMA InvariantHolds == Spec => []IInv
<1>. QED BY InitEstablishesInvariant, NextKeepsInvariant, PTL DEF Spec

(* The variables stay in their types: the lengths, the cursor and the      *)
(* history are what the code takes them for, in every call.                *)
THEOREM LineEditTyped == Spec => []TypeOK
<1>1. IInv => TypeOK
  BY DEF IInv
<1>. QED BY <1>1, InvariantHolds, PTL

(* No key of readline() stores outside the caller's buffer, whatever its   *)
(* length (at least 2), the line and the history.                          *)
THEOREM NoStoreOutsideBuffer == Spec => []BufferBounds
<1>1. IInv => BufferBounds
  BY DEF IInv
<1>. QED BY <1>1, InvariantHolds, PTL

(* The line never holds a byte that was not typed: no uninitialized byte   *)
(* of the buffer and no terminator gets below eol_num.                     *)
THEOREM LineHoldsOnlyText == Spec => []LineIsText
<1>1. IInv => LineIsText
  BY DEF IInv
<1>. QED BY <1>1, InvariantHolds, PTL

(* What the user sees right of the prompt is the line, and the terminal's  *)
(* cursor stands where the next key acts.                                  *)
THEOREM ScreenIsFaithful == Spec => []ScreenShowsLine
<1>1. IInv => ScreenShowsLine
  BY DEF IInv
<1>. QED BY <1>1, InvariantHolds, PTL

(* On a row that was blank when the prompt was written, nothing is left    *)
(* behind the line, whichever of the three ways of erasing was taken.      *)
THEOREM NothingStaysBehind == Spec => []NothingLeftBehind
<1>1. IInv => NothingLeftBehind
  BY DEF IInv
<1>. QED BY <1>1, InvariantHolds, PTL

-----------------------------------------------------------------------------
(* What a call returns, and the history; both relative to IInv. *)

(* Only Enter and Interrupt return to the caller.                          *)
LEMMA IdleOnlyAfterReturn ==
  ASSUME Next, ~Enter, ~Interrupt
  PROVE  pc' # "idle" \/ UNCHANGED <<pc, len, buf, ret>>
BY DEF Next, Keystroke, EraseWordStep, Call, Home, Right, Left, End, ToggleInsert, Redraw,
       EraseToEol, EraseLine, DeleteUnder, Del, Backspace, StartEraseWord, EraseBlank,
       BlanksDone, EraseLetter, WordDone, InsertChar, Overwrite, Up, Down, Recall, Hang,
       Key, Moves, Deletes, InWord, vars, edits

(* What was returned stays a string.                                       *)
LEMMA ReturnKept == IInv /\ ReturnedString /\ [Next]_vars => ReturnedString'
<1>1. SUFFICES ASSUME IInv, ReturnedString, [Next]_vars, pc' = "idle", len' > 0
               PROVE  StrnLen(buf', 0, len') = IF ret' = -1 THEN 0 ELSE ret'
  BY DEF ReturnedString
<1>2. CASE Enter
  <2>1. Editing /\ len' = len /\ ret' = eol /\ buf' = [buf EXCEPT ![eol] = Nul]
    BY <1>1, <1>2 DEF Enter, Editing
  <2>2. /\ len \in Nat /\ eol \in 0 .. len - 1 /\ buf \in [0 .. len - 1 -> Char]
        /\ \A i \in 0 .. eol - 1 : buf[i] \in Text
    BY <1>1, <2>1, EditContext
  <2> DEFINE b == [buf EXCEPT ![eol] = Nul]
  <2>3. b[eol] = Nul /\ \A i \in 0 .. eol - 1 : b[i] \in Text
    BY <2>2
  <2>4. buf' = b
    BY <2>1
  <2>. HIDE DEF b
  <2>5. StrnLen(b, 0, len) = eol
    BY ONLY <2>2, <2>3, CutAtNul
  <2>6. eol # -1
    BY ONLY <2>2
  <2>. QED BY <2>1, <2>4, <2>5, <2>6
<1>3. CASE Interrupt
  <2>1. Editing /\ len' = len /\ ret' = -1 /\ buf' = [buf EXCEPT ![0] = Nul]
    BY <1>3 DEF Interrupt, Editing
  <2>2. len \in Nat /\ 0 \in 0 .. len - 1 /\ buf \in [0 .. len - 1 -> Char]
    BY <1>1, <2>1, EditContext, LenAssumption
  <2> DEFINE b == [buf EXCEPT ![0] = Nul]
  <2>3. b[0] = Nul /\ \A i \in 0 .. 0 - 1 : b[i] \in Text
    BY <2>2
  <2>4. buf' = b
    BY <2>1
  <2>. HIDE DEF b
  <2>5. StrnLen(b, 0, len) = 0
    BY ONLY <2>2, <2>3, CutAtNul
  <2>. QED BY <2>1, <2>4, <2>5
<1>4. CASE UNCHANGED <<pc, len, buf, ret>>
  BY <1>1, <1>4 DEF ReturnedString
<1>. QED BY <1>1, <1>2, <1>3, <1>4, IdleOnlyAfterReturn DEF vars, edits

(* A history extended by a line that is not skipped. *)
LEMMA RememberKeeps ==
  ASSUME NEW h \in Seq(Seq(Text)), NEW s \in Seq(Text),
         Len(h) <= HistMax,
         \A i \in 1 .. Len(h) : h[i] # <<>>,
         \A i \in 2 .. Len(h) : h[i] # h[i - 1],
         s # <<>>, h # <<>> => h[Len(h)] # s,
         NEW g, \/ Len(h) < HistMax /\ g = Append(h, s)
                \/ Len(h) >= HistMax /\ g = Append(Tail(h), s)
  PROVE  /\ Len(g) <= HistMax
         /\ \A i \in 1 .. Len(g) : g[i] # <<>>
         /\ \A i \in 2 .. Len(g) : g[i] # g[i - 1]
<1>0. Len(h) \in Nat /\ HistMax \in Nat \ {0}
  BY HistAssumption
<1>1. CASE Len(h) < HistMax /\ g = Append(h, s)
  <2>1. /\ Len(g) = Len(h) + 1
        /\ \A i \in 1 .. Len(g) : g[i] = IF i = Len(h) + 1 THEN s ELSE h[i]
    BY <1>1
  <2>2. \A i \in 1 .. Len(g) : i = Len(h) + 1 \/ i \in 1 .. Len(h)
    BY <1>0, <2>1
  <2>3. \A i \in 2 .. Len(g) : /\ i \in 1 .. Len(g) /\ i - 1 \in 1 .. Len(h)
                               /\ i - 1 \in 1 .. Len(g) /\ i - 1 # Len(h) + 1
                               /\ i = Len(h) + 1 => i - 1 = Len(h) /\ h # <<>>
                               /\ i # Len(h) + 1 => i \in 2 .. Len(h)
    BY <1>0, <2>1
  <2>. QED BY <1>0, <1>1, <2>1, <2>2, <2>3
<1>2. CASE Len(h) >= HistMax /\ g = Append(Tail(h), s)
  <2>1. h # <<>> /\ Len(h) >= 1
    BY <1>0, <1>2
  <2>2. /\ Tail(h) \in Seq(Seq(Text)) /\ Len(Tail(h)) = Len(h) - 1
        /\ \A i \in 1 .. Len(h) - 1 : Tail(h)[i] = h[i + 1]
    BY <2>1
  <2> DEFINE u == Tail(h)
             N == Len(h)
  <2>. HIDE DEF u, N
  <2>3. /\ u \in Seq(Seq(Text)) /\ Len(u) = N - 1 /\ N \in Nat /\ N >= 1 /\ g = Append(u, s)
        /\ \A i \in 1 .. N - 1 : u[i] = h[i + 1]
    BY <1>0, <1>2, <2>1, <2>2 DEF u, N
  <2>4. /\ Len(g) = Len(u) + 1
        /\ \A i \in 1 .. Len(u) + 1 : g[i] = IF i = Len(u) + 1 THEN s ELSE u[i]
    <3>1. s \in Seq(Text)
      OBVIOUS
    <3>. QED BY ONLY <3>1, <2>3
  <2>5. Len(u) + 1 = N
    BY ONLY <2>3
  <2>6. Len(g) = N /\ \A i \in 1 .. N : g[i] = IF i = N THEN s ELSE u[i]
    BY ONLY <2>4, <2>5
  <2>7. \A i \in 1 .. N - 1 : i \in 1 .. N /\ i # N /\ i + 1 \in 1 .. N
    BY ONLY <2>3
  <2>8. \A i \in 1 .. N - 1 : g[i] = h[i + 1] /\ i + 1 \in 1 .. N
    BY ONLY <2>3, <2>6, <2>7
  <2>9. Len(g) = Len(h)
    BY <2>6 DEF N
  <2>10. \A i \in 1 .. Len(h) : i = Len(h) \/ i \in 1 .. Len(h) - 1
    BY <1>0
  <2>11. \A i \in 1 .. Len(h) - 1 : g[i] = h[i + 1] /\ i + 1 \in 1 .. Len(h)
    BY <2>8 DEF N
  <2>12. g[Len(h)] = s
    BY <2>3, <2>6 DEF N
  <2>13. \A i \in 1 .. Len(g) : g[i] # <<>>
    BY <2>9, <2>10, <2>11, <2>12
  <2>14. ASSUME NEW i \in 2 .. Len(g) PROVE g[i] # g[i - 1]
    <3>1. /\ i \in 1 .. Len(h) /\ i - 1 \in 1 .. Len(h) - 1 /\ i \in 2 .. Len(h)
          /\ i - 1 + 1 = i
      <4>1. i \in 2 .. Len(h) /\ Len(h) \in Nat
        BY <1>0, <2>9
      <4>. QED BY ONLY <4>1
    <3>2. g[i - 1] = h[i]
      BY <2>11, <3>1
    <3>3. CASE i = Len(h)
      BY <2>1, <2>12, <3>2, <3>3
    <3>4. CASE i \in 1 .. Len(h) - 1
      <4>1. g[i] = h[i + 1] /\ i + 1 \in 2 .. Len(h) /\ i + 1 - 1 = i
        BY <1>0, <2>11, <3>1, <3>4
      <4>. QED BY <3>2, <4>1
    <3>. QED BY <2>10, <3>1, <3>3, <3>4
  <2>. QED BY <1>2, <2>9, <2>13, <2>14
<1>. QED BY <1>1, <1>2

(* The history stays one of strings that were entered.                     *)
LEMMA HistoryKept == IInv /\ HistoryOK /\ [Next]_vars => HistoryOK'
<1>1. SUFFICES ASSUME IInv, HistoryOK, [Next]_vars PROVE HistoryOK'
  OBVIOUS
<1>2. IInv'
  BY <1>1, NextKeepsInvariant
<1>3. Editing' => hcur' <= Len(hist')
  BY <1>2 DEF IInv, CallContext
<1>4. CASE Enter /\ hist' # hist
  <2> DEFINE s == CString([buf EXCEPT ![eol] = Nul], len)
             b == [buf EXCEPT ![eol] = Nul]
  <2>1. Editing /\ Remember(s)
    BY <1>4 DEF Enter, Editing
  <2>2. /\ len \in Nat /\ eol \in 0 .. len - 1 /\ buf \in [0 .. len - 1 -> Char]
        /\ \A i \in 0 .. eol - 1 : buf[i] \in Text
    BY <1>1, <2>1, EditContext
  <2>3. b[eol] = Nul /\ \A i \in 0 .. eol - 1 : b[i] \in Text
    BY <2>2
  <2>. HIDE DEF b
  <2>4. CString(b, len) \in Seq(Text)
    BY ONLY <2>2, <2>3, CStringFacts
  <2>5. s \in Seq(Text)
    BY <2>4 DEF b
  <2>. HIDE DEF s
  <2>6. /\ ~Skipped(s)
        /\ \/ Len(hist) < HistMax /\ hist' = Append(hist, s)
           \/ Len(hist) >= HistMax /\ hist' = Append(Tail(hist), s)
    BY <1>4, <2>1 DEF Remember
  <2>7. hist \in Seq(Seq(Text))
    BY <1>1 DEF IInv, TypeOK
  <2>. QED BY <1>1, <1>3, <2>5, <2>6, <2>7, RememberKeeps DEF HistoryOK, Skipped
<1>5. CASE hist' = hist
  BY <1>1, <1>3, <1>5 DEF HistoryOK
<1>6. CASE ~Enter
  <2>1. hist' = hist
    BY <1>1, <1>6
       DEF Next, Keystroke, EraseWordStep, Call, Interrupt, Home, Right, Left, End,
           ToggleInsert, Redraw, EraseToEol, EraseLine, DeleteUnder, Del, Backspace,
           StartEraseWord, EraseBlank, BlanksDone, EraseLetter, WordDone, InsertChar,
           Overwrite, Up, Down, Recall, Hang, Key, Moves, Deletes, InWord, vars, edits
  <2>. QED BY <1>5, <2>1
<1>. QED BY <1>4, <1>5, <1>6

(* A call of readline() that returns n leaves the C string of length n in  *)
(* the buffer, one that is interrupted leaves the empty string.            *)
THEOREM CallerFindsItsString == Spec => []ReturnedString
<1>1. Init => ReturnedString
  BY DEF Init, ReturnedString
<1>. QED BY <1>1, InvariantHolds, ReturnKept, PTL DEF Spec

(* The history list keeps its bound, holds no empty line and no repetition *)
(* next to its original, and history_current always points into it.        *)
THEOREM HistoryStaysSound == Spec => []HistoryOK
<1>1. Init => HistoryOK
  BY HistAssumption DEF Init, HistoryOK, Editing
<1>. QED BY <1>1, InvariantHolds, HistoryKept, PTL DEF Spec

-----------------------------------------------------------------------------
(* The abstract editor. *)

(* The first n bytes of b as a sequence; Line is that of buf and eol.      *)
TextOf(b, n) == [i \in 1 .. n |-> b[i - 1]]
IsText(b, n) == n \in Nat /\ \A i \in 0 .. n - 1 : b[i] \in Text

(* s is the text of the n bytes from b[k] on.                              *)
Spells(s, b, k, n) ==
  /\ n \in Nat /\ s \in Seq(Text) /\ Len(s) = n
  /\ \A i \in 1 .. n : s[i] = b[k + i - 1]

-----------------------------------------------------------------------------
(* Lines as sequences.                                                     *)

(* Bytes that are text make a sequence of text, byte i its element i + 1.  *)
LEMMA TextSpells ==
  ASSUME NEW b, NEW n, IsText(b, n)
  PROVE  Spells(TextOf(b, n), b, 0, n)
<1>1. n \in Nat /\ \A i \in 1 .. n : b[i - 1] \in Text
  <2>1. n \in Nat /\ \A i \in 0 .. n - 1 : b[i] \in Text
    BY DEF IsText
  <2>2. \A i \in 1 .. n : i - 1 \in 0 .. n - 1
    BY <2>1
  <2>. QED BY <2>1, <2>2
<1>2. TextOf(b, n) \in [1 .. n -> Text]
  BY <1>1 DEF TextOf
<1>3. \A i \in 1 .. n : TextOf(b, n)[i] = b[0 + i - 1]
  BY <1>1 DEF TextOf
<1>. QED BY <1>1, <1>2, <1>3 DEF Spells

(* A sequence that spells the line is the line.                            *)
LEMMA SpellsText ==
  ASSUME NEW d, NEW n, IsText(d, n), NEW s, Spells(s, d, 0, n)
  PROVE  TextOf(d, n) = s
<1>1. /\ TextOf(d, n) \in Seq(Text) /\ Len(TextOf(d, n)) = n
      /\ \A i \in 1 .. n : TextOf(d, n)[i] = d[0 + i - 1]
  BY TextSpells DEF Spells
<1>2. s \in Seq(Text) /\ Len(s) = n /\ \A i \in 1 .. n : s[i] = d[0 + i - 1]
  BY DEF Spells
<1>. QED BY <1>1, <1>2, SeqEqual

(* The bytes may be moved.                                                 *)
LEMMA MovedText ==
  ASSUME NEW s, NEW b, NEW k \in Int, NEW n, Spells(s, b, k, n), NEW d, NEW l \in Int,
         \A i \in 0 .. n - 1 : d[l + i] = b[k + i]
  PROVE  Spells(s, d, l, n)
<1>1. n \in Nat /\ \A i \in 1 .. n : s[i] = b[k + i - 1]
  BY DEF Spells
<1>2. \A i \in 1 .. n : s[i] = d[l + i - 1]
  <2>1. TAKE i \in 1 .. n
  <2>2. i - 1 \in 0 .. n - 1 /\ k + i - 1 = k + (i - 1) /\ l + i - 1 = l + (i - 1)
    BY <1>1
  <2>. QED BY <1>1, <2>2
<1>. QED BY <1>2 DEF Spells

(* A part of the line.                                                     *)
LEMMA PartSpells ==
  ASSUME NEW b, NEW n, IsText(b, n), NEW k \in 0 .. n, NEW m \in k .. n
  PROVE  Spells(SubSeq(TextOf(b, n), k + 1, m), b, k, m - k)
<1>. DEFINE t == TextOf(b, n)
            s == SubSeq(t, k + 1, m)
<1>0. n \in Nat /\ k \in Nat /\ m \in Nat /\ k <= m /\ m <= n
  BY DEF IsText
<1>1. /\ t \in Seq(Text) /\ Len(t) = n
      /\ \A i \in 1 .. n : t[i] = b[0 + i - 1]
  BY TextSpells DEF Spells
<1>. HIDE DEF t
<1>2. \A i \in k + 1 .. m : t[i] \in Text
  <2>1. \A i \in k + 1 .. m : i \in 1 .. Len(t)
    BY <1>0, <1>1
  <2>. QED BY <1>1, <2>1, ElementOfSeq
<1>3. /\ s \in Seq(Text)
      /\ Len(s) = IF k + 1 <= m THEN m - (k + 1) + 1 ELSE 0
      /\ \A i \in 1 .. m - (k + 1) + 1 : s[i] = t[(k + 1) + i - 1]
  <2>1. k + 1 \in Int /\ m \in Int
    BY <1>0
  <2>. QED BY <1>2, <2>1, SubSeqProperties
<1>. HIDE DEF s
<1>4. Len(s) = m - k /\ m - (k + 1) + 1 = m - k /\ m - k \in Nat
  BY <1>0, <1>3
<1>5. \A i \in 1 .. m - k : s[i] = b[k + i - 1]
  <2>1. TAKE i \in 1 .. m - k
  <2>2. k + i \in 1 .. n /\ (k + 1) + i - 1 = k + i /\ 0 + (k + i) - 1 = k + i - 1
    BY <1>0
  <2>3. s[i] = t[k + i]
    BY <1>3, <1>4, <2>2
  <2>4. t[k + i] = b[k + i - 1]
    BY <1>1, <2>2
  <2>. QED BY <2>3, <2>4
<1>. QED BY <1>3, <1>4, <1>5 DEF Spells, s, t

(* Two neighbouring parts.                                                 *)
LEMMA JoinSpells ==
  ASSUME NEW s, NEW t, NEW d, NEW k, NEW n, Spells(s, d, 0, k), Spells(t, d, k, n)
  PROVE  Spells(s \o t, d, 0, k + n)
<1>1. k \in Nat /\ s \in Seq(Text) /\ Len(s) = k /\ \A i \in 1 .. k : s[i] = d[0 + i - 1]
  BY DEF Spells
<1>2. n \in Nat /\ t \in Seq(Text) /\ Len(t) = n /\ \A i \in 1 .. n : t[i] = d[k + i - 1]
  BY DEF Spells
<1>3. /\ s \o t \in Seq(Text) /\ Len(s \o t) = k + n
      /\ \A i \in 1 .. k + n : (s \o t)[i] = IF i <= k THEN s[i] ELSE t[i - k]
  BY <1>1, <1>2, ConcatProperties
<1>4. \A i \in 1 .. k + n : (s \o t)[i] = d[0 + i - 1]
  <2>1. TAKE i \in 1 .. k + n
  <2>2. CASE i <= k
    <3>1. i \in 1 .. k
      BY <2>2, <1>1
    <3>. QED BY <1>1, <1>3, <2>2, <3>1
  <2>3. CASE ~(i <= k)
    <3>1. i - k \in 1 .. n /\ k + (i - k) - 1 = 0 + i - 1
      BY <2>3, <1>1, <1>2
    <3>. QED BY <1>2, <1>3, <2>3, <3>1
  <2>. QED BY <2>2, <2>3
<1>5. k + n \in Nat
  BY <1>1, <1>2
<1>. QED BY <1>3, <1>4, <1>5 DEF Spells

(* The line cut at its cursor; the line without a character and with one   *)
(* more: what the deleting and inserting keys make of buf.                 *)
LEMMA TextCut ==
  ASSUME NEW b, NEW n, IsText(b, n), NEW k \in 0 .. n
  PROVE  TextOf(b, k) = SubSeq(TextOf(b, n), 1, k)
<1>1. 0 \in 0 .. n /\ k \in 0 .. n /\ k - 0 = k /\ 0 + 1 = 1 /\ IsText(b, k)
  BY DEF IsText
<1>2. Spells(SubSeq(TextOf(b, n), 0 + 1, k), b, 0, k - 0)
  BY <1>1, PartSpells
<1>3. Spells(SubSeq(TextOf(b, n), 1, k), b, 0, k)
  BY <1>1, <1>2
<1>. QED BY <1>1, <1>3, SpellsText

(* The text of a buffer from which a character was taken.                  *)
LEMMA TextWithout ==
  ASSUME NEW b, NEW n, IsText(b, n), NEW p \in 1 .. n, NEW d,
         \A i \in 0 .. n - 2 : d[i] = IF i < p - 1 THEN b[i] ELSE b[i + 1]
  PROVE  TextOf(d, n - 1) = SubSeq(TextOf(b, n), 1, p - 1) \o SubSeq(TextOf(b, n), p + 1, n)
<1>. DEFINE s == SubSeq(TextOf(b, n), 1, p - 1)
            t == SubSeq(TextOf(b, n), p + 1, n)
<1>0. n \in Nat /\ p \in Nat /\ p >= 1 /\ p <= n /\ \A i \in 0 .. n - 1 : b[i] \in Text
  BY DEF IsText
<1>1. Spells(s, b, 0, p - 1)
  <2>1. 0 \in 0 .. n /\ p - 1 \in 0 .. n /\ (p - 1) - 0 = p - 1 /\ 0 + 1 = 1
    BY <1>0
  <2>2. Spells(SubSeq(TextOf(b, n), 0 + 1, p - 1), b, 0, (p - 1) - 0)
    BY <2>1, PartSpells
  <2>. QED BY <2>1, <2>2
<1>2. Spells(t, b, p, n - p)
  <2>1. p \in 0 .. n /\ n \in p .. n
    BY <1>0
  <2>. QED BY <2>1, PartSpells
<1>. HIDE DEF s, t
<1>3. Spells(s, d, 0, p - 1)
  <2>1. \A i \in 0 .. (p - 1) - 1 : d[0 + i] = b[0 + i]
    <3>1. TAKE i \in 0 .. (p - 1) - 1
    <3>2. i \in 0 .. n - 2 /\ i < p - 1 /\ 0 + i = i
      BY <1>0
    <3>. QED BY <3>2
  <2>. QED BY <1>1, <2>1, MovedText
<1>4. Spells(t, d, p - 1, n - p)
  <2>1. \A i \in 0 .. (n - p) - 1 : d[(p - 1) + i] = b[p + i]
    <3>1. TAKE i \in 0 .. (n - p) - 1
    <3>2. (p - 1) + i \in 0 .. n - 2 /\ ~((p - 1) + i < p - 1) /\ ((p - 1) + i) + 1 = p + i
      BY <1>0
    <3>. QED BY <3>2
  <2>2. p - 1 \in Int /\ p \in Int
    BY <1>0
  <2>. QED BY <1>2, <2>1, <2>2, MovedText
<1>5. Spells(s \o t, d, 0, n - 1)
  <2>1. (p - 1) + (n - p) = n - 1
    BY <1>0
  <2>. QED BY <1>3, <1>4, <2>1, JoinSpells
<1>6. IsText(d, n - 1)
  <2>1. SUFFICES ASSUME NEW i \in 0 .. (n - 1) - 1 PROVE d[i] \in Text
    BY <1>0 DEF IsText
  <2>2. i \in 0 .. n - 2 /\ i \in 0 .. n - 1 /\ i + 1 \in 0 .. n - 1
    BY <1>0
  <2>. QED BY <1>0, <2>2
<1>. QED BY <1>5, <1>6, SpellsText DEF s, t

(* The text of a buffer into which a character was put.                    *)
LEMMA TextWith ==
  ASSUME NEW b, NEW n, IsText(b, n), NEW p \in 0 .. n, NEW c \in Text, NEW d,
         \A i \in 0 .. n : d[i] = IF i < p THEN b[i] ELSE IF i = p THEN c ELSE b[i - 1]
  PROVE  TextOf(d, n + 1) = SubSeq(TextOf(b, n), 1, p) \o <<c>>
                            \o SubSeq(TextOf(b, n), p + 1, n)
<1>. DEFINE s == SubSeq(TextOf(b, n), 1, p)
            t == SubSeq(TextOf(b, n), p + 1, n)
<1>0. n \in Nat /\ p \in Nat /\ p <= n /\ \A i \in 0 .. n - 1 : b[i] \in Text
  BY DEF IsText
<1>1. Spells(s, b, 0, p)
  <2>1. 0 \in 0 .. n /\ p \in 0 .. n /\ p - 0 = p /\ 0 + 1 = 1
    BY <1>0
  <2>2. Spells(SubSeq(TextOf(b, n), 0 + 1, p), b, 0, p - 0)
    BY <2>1, PartSpells
  <2>. QED BY <2>1, <2>2
<1>2. Spells(t, b, p, n - p)
  <2>1. p \in 0 .. n /\ n \in p .. n
    BY <1>0
  <2>. QED BY <2>1, PartSpells
<1>. HIDE DEF s, t
<1>3. Spells(s, d, 0, p)
  <2>1. \A i \in 0 .. p - 1 : d[0 + i] = b[0 + i]
    <3>1. TAKE i \in 0 .. p - 1
    <3>2. i \in 0 .. n /\ i < p /\ 0 + i = i
      BY <1>0
    <3>. QED BY <3>2
  <2>. QED BY <1>1, <2>1, MovedText
<1>4. Spells(<<c>>, d, p, 1)
  <2>1. <<c>> \in Seq(Text) /\ Len(<<c>>) = 1 /\ <<c>>[1] = c
    OBVIOUS
  <2>2. d[p] = c
    BY <1>0
  <2>3. \A i \in 1 .. 1 : i = 1 /\ p + i - 1 = p
    BY <1>0
  <2>. QED BY <2>1, <2>2, <2>3 DEF Spells
<1>5. Spells(t, d, p + 1, n - p)
  <2>1. \A i \in 0 .. (n - p) - 1 : d[(p + 1) + i] = b[p + i]
    <3>1. TAKE i \in 0 .. (n - p) - 1
    <3>2. /\ (p + 1) + i \in 0 .. n /\ ~((p + 1) + i < p) /\ (p + 1) + i # p
          /\ ((p + 1) + i) - 1 = p + i
      BY <1>0
    <3>. QED BY <3>2
  <2>2. p + 1 \in Int /\ p \in Int
    BY <1>0
  <2>. QED BY <1>2, <2>1, <2>2, MovedText
<1>6. Spells((s \o <<c>>) \o t, d, 0, n + 1)
  <2>1. (p + 1) + (n - p) = n + 1
    BY <1>0
  <2>2. Spells(s \o <<c>>, d, 0, p + 1)
    BY <1>3, <1>4, JoinSpells
  <2>. QED BY <1>5, <2>1, <2>2, JoinSpells
<1>7. IsText(d, n + 1)
  <2>1. SUFFICES ASSUME NEW i \in 0 .. (n + 1) - 1 PROVE d[i] \in Text
    BY <1>0 DEF IsText
  <2>2. /\ i \in 0 .. n
        /\ (i < p => i \in 0 .. n - 1)
        /\ ~(i < p) /\ i # p => i - 1 \in 0 .. n - 1
    BY <1>0
  <2>. QED BY <1>0, <2>2
<1>. QED BY <1>6, <1>7, SpellsText DEF s, t
-----------------------------------------------------------------------------
(* Steps.  A step refines if it is an operation of the abstract editor or  *)
(* leaves all it knows of unchanged.                                       *)
Refines == Promise!Next \/ UNCHANGED Promise!vars

(* What is known while a line is edited.                                   *)
LEMMA EditingFacts ==
  ASSUME IInv, Editing
  PROVE  /\ IsText(buf, eol) /\ Line = TextOf(buf, eol)
         /\ Line \in Seq(Text) /\ Len(Line) = eol
         /\ num \in Nat /\ eol \in Nat /\ num <= eol /\ eol <= len - 1
         /\ num \in 0 .. eol /\ len \in Nat /\ len >= 2
         /\ buf \in [0 .. len - 1 -> Char] /\ DOMAIN buf = 0 .. len - 1
         /\ hist \in Seq(Seq(Text)) /\ hcur \in 0 .. Len(hist)
<1>1. /\ len \in Nat /\ len >= 2 /\ num \in Nat /\ eol \in Nat /\ num <= eol /\ eol <= len - 1
      /\ buf \in [0 .. len - 1 -> Char] /\ \A i \in 0 .. eol - 1 : buf[i] \in Text
      /\ hist \in Seq(Seq(Text)) /\ hcur \in Nat /\ hcur <= Len(hist)
  BY LenAssumption DEF IInv, TypeOK, BufferBounds, LineIsText, CallContext
<1>2. IsText(buf, eol) /\ Line = TextOf(buf, eol)
  BY <1>1 DEF IsText, Line, TextOf
<1>3. Spells(TextOf(buf, eol), buf, 0, eol)
  BY <1>2, TextSpells
<1>4. hcur \in 0 .. Len(hist) /\ num \in 0 .. eol
  BY <1>1
<1>. QED BY <1>1, <1>2, <1>3, <1>4 DEF Spells

(* An edit keeps the stage, the room and the log.                          *)
LEMMA EditIs ==
  ASSUME Editing, Editing', len' = len, hist' = hist
  PROVE  Promise!Edit
BY DEF Promise!Edit, Editing

(* Keys that move the cursor, and those that change nothing of the line.   *)
LEMMA MovesRefine ==
  ASSUME IInv,
         \/ Home \/ Right \/ Left \/ End
         \/ ToggleInsert \/ Redraw \/ StartEraseWord \/ BlanksDone \/ WordDone
  PROVE  Refines
<1>1. Editing /\ Editing' /\ len' = len /\ hist' = hist /\ eol' = eol
  BY DEF Home, Right, Left, End, ToggleInsert, Redraw, StartEraseWord, BlanksDone, WordDone,
         Moves, Key, InWord, edits, Editing
<1>2. Line' = Line
  <2>1. CASE Redraw
    <3>1. /\ buf' = [buf EXCEPT ![eol] = Nul] /\ eol \in Nat
          /\ buf \in [0 .. len - 1 -> Char] /\ eol <= len - 1 /\ len \in Nat
      BY <1>1, <2>1, EditingFacts DEF Redraw
    <3>2. \A i \in 1 .. eol : buf'[i - 1] = buf[i - 1]
      BY <3>1
    <3>. QED BY <1>1, <3>2 DEF Line
  <2>2. CASE ~Redraw
    <3>1. buf' = buf
      BY <2>2 DEF Home, Right, Left, End, ToggleInsert, StartEraseWord, BlanksDone, WordDone,
                  Moves, Key, InWord, edits
    <3>. QED BY <1>1, <3>1 DEF Line
  <2>. QED BY <2>1, <2>2
<1>3. Promise!Edit
  BY <1>1, EditIs
<1>4. CASE num' = num
  BY <1>1, <1>2, <1>4 DEF Refines, Promise!vars, Editing
<1>5. CASE num' # num
  <2>1. Home \/ Right \/ Left \/ End
    BY <1>5 DEF ToggleInsert, Redraw, StartEraseWord, BlanksDone, WordDone, edits
  <2>2. num' \in 0 .. Len(Line)
    BY <1>1, <2>1, EditingFacts DEF Home, Right, Left, End
  <2>3. Promise!Move
    BY <1>1, <1>2, <1>3, <2>2 DEF Promise!Move, Editing
  <2>. QED BY <2>3 DEF Refines, Promise!Next
<1>. QED BY <1>4, <1>5

(* Keys that erase the end of the line, or all of it.                      *)
LEMMA ErasesRefine ==
  ASSUME IInv, EraseToEol \/ EraseLine
  PROVE  Refines
<1>1. /\ Editing /\ Editing' /\ len' = len /\ hist' = hist /\ buf' = buf
      /\ \/ eol' = num /\ num' = num
         \/ num' = 0 /\ eol' = 0
  BY DEF EraseToEol, EraseLine, Deletes, Key, Editing
<1>2. Promise!Edit
  BY <1>1, EditIs
<1>3. Line' = TextOf(buf, eol')
  BY <1>1 DEF Line, TextOf
<1>4. CASE eol' = num /\ num' = num
  <2>1. Line' = SubSeq(Line, 1, num)
    BY <1>1, <1>3, <1>4, EditingFacts, TextCut
  <2>2. Promise!EraseTail
    BY <1>1, <1>2, <1>4, <2>1 DEF Promise!EraseTail, Editing
  <2>. QED BY <2>2 DEF Refines, Promise!Next
<1>5. CASE num' = 0 /\ eol' = 0
  <2>1. Line' = << >>
    BY <1>5 DEF Line
  <2>2. Promise!EraseAll
    BY <1>1, <1>2, <1>5, <2>1 DEF Promise!EraseAll, Editing
  <2>. QED BY <2>2 DEF Refines, Promise!Next
<1>. QED BY <1>1, <1>4, <1>5

(* Keys that delete one character: memmove() closes the gap.               *)
LEMMA DeletionRefines ==
  ASSUME IInv, Editing, Editing', len' = len, hist' = hist,
         NEW p \in {num, num + 1}, p >= 1, p <= eol, NEW n \in Nat, n >= eol - p,
         buf' = MoveDown(buf, p - 1, n), eol' = eol - 1, num' = p - 1
  PROVE  Refines
<1>1. /\ IsText(buf, eol) /\ Line = TextOf(buf, eol) /\ Len(Line) = eol
      /\ num \in Nat /\ eol \in Nat /\ len \in Nat /\ eol <= len - 1
      /\ DOMAIN buf = 0 .. len - 1
  BY EditingFacts
<1>2. p \in 1 .. eol /\ p \in Nat
  BY <1>1
<1>3. \A i \in 0 .. eol - 2 : buf'[i] = IF i < p - 1 THEN buf[i] ELSE buf[i + 1]
  <2>1. TAKE i \in 0 .. eol - 2
  <2>2. i \in DOMAIN buf /\ (i < p - 1 <=> i \notin p - 1 .. p - 1 + n - 1)
    BY <1>1, <1>2
  <2>. QED BY <2>2 DEF MoveDown
<1>4. Line' = SubSeq(Line, 1, p - 1) \o SubSeq(Line, p + 1, Len(Line))
  <2>1. Line' = TextOf(buf', eol - 1)
    BY DEF Line, TextOf
  <2>2. TextOf(buf', eol - 1) = SubSeq(TextOf(buf, eol), 1, p - 1)
                                \o SubSeq(TextOf(buf, eol), p + 1, eol)
    BY <1>1, <1>2, <1>3, TextWithout
  <2>. QED BY <1>1, <2>1, <2>2
<1>5. Promise!Erase
  BY <1>1, <1>2, <1>4, EditIs DEF Promise!Erase, Promise!Without, Editing
<1>. QED BY <1>5 DEF Refines, Promise!Next

(* The keys that delete do what they do to the abstract line.              *)
LEMMA DeletionsRefine ==
  ASSUME IInv, DeleteUnder \/ Del \/ Backspace \/ EraseBlank \/ EraseLetter
  PROVE  Refines
<1>1. Editing /\ Editing' /\ len' = len /\ hist' = hist
  BY DEF DeleteUnder, Del, Backspace, EraseBlank, EraseLetter, Deletes, Key, InWord, Editing
<1>2. num \in Nat /\ eol \in Nat /\ num <= eol
  BY <1>1, EditingFacts
<1>3. CASE DeleteUnder \/ Del
  <2>1. PICK n \in {eol - num - 1, eol - num} :
          num < eol /\ buf' = MoveDown(buf, num, n) /\ eol' = eol - 1 /\ num' = num
    BY <1>3 DEF DeleteUnder, Del, Deletes
  <2>2. /\ num + 1 \in {num, num + 1} /\ num + 1 >= 1 /\ num + 1 <= eol /\ n \in Nat
        /\ n >= eol - (num + 1) /\ (num + 1) - 1 = num
    BY <1>2, <2>1
  <2>. QED BY <1>1, <2>1, <2>2, DeletionRefines
<1>4. CASE Backspace \/ EraseBlank \/ EraseLetter
  <2>1. num >= 1 /\ DoBackspace
    BY <1>2, <1>4 DEF Backspace, EraseBlank, EraseLetter
  <2>2. /\ num \in {num, num + 1} /\ num <= eol /\ eol - num \in Nat /\ eol - num >= eol - num
        /\ buf' = MoveDown(buf, num - 1, eol - num) /\ eol' = eol - 1 /\ num' = num - 1
    BY <1>2, <2>1 DEF DoBackspace
  <2>. QED BY <1>1, <2>1, <2>2, DeletionRefines
<1>. QED BY <1>3, <1>4

(* Characters typed, inserted or over the one under the cursor.            *)
LEMMA CharactersRefine ==
  ASSUME IInv, NEW ch \in Text, InsertChar(ch) \/ Overwrite(ch)
  PROVE  Refines
<1>1. Editing /\ Editing' /\ len' = len /\ hist' = hist /\ num' = num + 1
  BY DEF InsertChar, Overwrite, Key, Editing
<1>2. /\ IsText(buf, eol) /\ Line = TextOf(buf, eol) /\ Len(Line) = eol
      /\ num \in Nat /\ eol \in Nat /\ len \in Nat /\ len >= 2 /\ eol <= len - 1
      /\ num <= eol /\ num \in 0 .. eol /\ DOMAIN buf = 0 .. len - 1
  BY <1>1, EditingFacts
<1>3. Promise!Edit
  BY <1>1, EditIs
<1>4. ASSUME eol <= len - 2, eol' = eol + 1,
             \A i \in 0 .. eol : buf'[i] = IF i < num THEN buf[i]
                                           ELSE IF i = num THEN ch ELSE buf[i - 1]
      PROVE  Refines
  <2>1. Line' = TextOf(buf', eol + 1)
    BY <1>4 DEF Line, TextOf
  <2>2. Line' = SubSeq(Line, 1, num) \o <<ch>> \o SubSeq(Line, num + 1, Len(Line))
    <3>1. TextOf(buf', eol + 1) = SubSeq(TextOf(buf, eol), 1, num) \o <<ch>>
                                  \o SubSeq(TextOf(buf, eol), num + 1, eol)
      BY <1>2, <1>4, TextWith
    <3>. QED BY <1>2, <2>1, <3>1
  <2>3. Len(Line) < len - 1 /\ len # 0
    BY <1>2, <1>4
  <2>4. Promise!Insert
    BY <1>1, <1>3, <2>2, <2>3 DEF Promise!Insert, Editing
  <2>. QED BY <2>4 DEF Refines, Promise!Next
<1>5. CASE InsertChar(ch)
  <2>1. /\ eol <= len - 2 /\ eol' = eol + 1
        /\ buf' = [MoveUp(buf, num, (eol + 1 - num) - 1) EXCEPT ![num] = ch]
    <3>1. eol <= len - 2 /\ eol' = eol + 1
      BY <1>5 DEF InsertChar, Room
    <3>2. buf' = [MoveUp(buf, num, (eol + 1 - num) - 1) EXCEPT ![num] = ch]
      BY <1>5 DEF InsertChar
    <3>. QED BY <3>1, <3>2
  <2>2. \A i \in 0 .. eol : buf'[i] = IF i < num THEN buf[i]
                                      ELSE IF i = num THEN ch ELSE buf[i - 1]
    <3>1. TAKE i \in 0 .. eol
    <3>2. /\ i \in DOMAIN buf /\ num + ((eol + 1 - num) - 1) = eol
          /\ i \in num + 1 .. eol <=> ~(i < num) /\ i # num
      BY <1>2
    <3>. QED BY <2>1, <3>2 DEF MoveUp
  <2>. QED BY <1>4, <2>1, <2>2
<1>6. CASE Overwrite(ch) /\ num = eol
  <2>1. eol <= len - 2 /\ eol' = eol + 1 /\ buf' = [buf EXCEPT ![num] = ch]
    BY <1>6 DEF Overwrite, Room
  <2>2. \A i \in 0 .. eol : buf'[i] = IF i < num THEN buf[i]
                                      ELSE IF i = num THEN ch ELSE buf[i - 1]
    <3>1. TAKE i \in 0 .. eol
    <3>2. i \in DOMAIN buf /\ (i < num \/ i = num)
      BY <1>2, <1>6
    <3>. QED BY <2>1, <3>2, <1>2
  <2>. QED BY <1>4, <2>1, <2>2
<1>7. CASE Overwrite(ch) /\ num # eol
  <2>1. eol' = eol /\ buf' = [buf EXCEPT ![num] = ch] /\ num < eol
    BY <1>2, <1>7 DEF Overwrite
  <2>2. Line' = [Line EXCEPT ![num + 1] = ch]
    <3>1. \A i \in 1 .. eol : buf'[i - 1] = IF i = num + 1 THEN ch ELSE buf[i - 1]
      <4>1. TAKE i \in 1 .. eol
      <4>2. i - 1 \in DOMAIN buf /\ (i = num + 1 <=> i - 1 = num)
        BY <1>2
      <4>. QED BY <2>1, <4>2
    <3>. QED BY <1>2, <2>1, <3>1 DEF Line
  <2>3. Promise!Replace
    BY <1>1, <1>2, <1>3, <2>1, <2>2 DEF Promise!Replace, Editing
  <2>. QED BY <2>3 DEF Refines, Promise!Next
<1>. QED BY <1>5, <1>6, <1>7

(* What safe_strncpy() makes of a line of the history is that line, cut to *)
(* the room of the buffer.                                                 *)
LEMMA CopyIsCut ==
  ASSUME NEW l \in Nat, l >= 2, NEW b \in [0 .. l - 1 -> Char], NEW s \in Seq(Text),
         NEW r, r = SafeStrncpy(b, s, l)
  PROVE  /\ TextOf(r, StrnLen(r, 0, l)) = Promise!Cut(s, l - 1)
         /\ IsText(r, StrnLen(r, 0, l))
<1>. DEFINE n == Smaller(Len(s), l - 1)
<1>1. Len(s) \in Nat
  BY LenProperties
<1>2. n \in 0 .. l - 1 /\ n \in Nat /\ n <= Len(s)
  BY <1>1 DEF Smaller
<1>3. (\A i \in 0 .. n - 1 : r[i] \in Text) /\ r[n] = Nul
  BY SafeStrncpyFacts
<1>. HIDE DEF n
<1>4. StrnLen(r, 0, l) = n /\ IsText(r, n)
  BY <1>2, <1>3, CutAtNul DEF IsText
<1>5. \A i \in 1 .. n : r[i - 1] = s[i]
  <2>1. TAKE i \in 1 .. n
  <2>2. i - 1 \in DOMAIN b /\ i - 1 < n /\ (i - 1) + 1 = i
    BY <1>2
  <2>. QED BY <2>2 DEF SafeStrncpy, n
<1>6. CASE Len(s) <= l - 1
  <2>1. n = Len(s)
    BY <1>1, <1>6 DEF Smaller, n
  <2>2. \A i \in 1 .. n : s[i] = r[0 + i - 1]
    BY <1>5
  <2>3. Spells(s, r, 0, n)
    BY <1>2, <2>1, <2>2 DEF Spells
  <2>. QED BY <1>4, <1>6, <2>3, SpellsText DEF Promise!Cut
<1>7. CASE ~(Len(s) <= l - 1)
  <2>1. n = l - 1
    BY <1>1, <1>7 DEF Smaller, n
  <2>2. \A i \in 1 .. n : s[i] \in Text
    <3>1. \A i \in 1 .. n : i \in 1 .. Len(s)
      BY <1>1, <1>2
    <3>. QED BY <3>1, ElementOfSeq
  <2>3. /\ SubSeq(s, 1, n) \in Seq(Text)
        /\ Len(SubSeq(s, 1, n)) = IF 1 <= n THEN n - 1 + 1 ELSE 0
        /\ \A i \in 1 .. n - 1 + 1 : SubSeq(s, 1, n)[i] = s[1 + i - 1]
    <3>1. 1 \in Int /\ n \in Int
      BY <1>2
    <3>. QED BY <2>2, <3>1, SubSeqProperties
  <2>4. Len(SubSeq(s, 1, n)) = n /\ n - 1 + 1 = n
    BY <1>2, <2>3
  <2>5. \A i \in 1 .. n : SubSeq(s, 1, n)[i] = r[0 + i - 1]
    <3>1. TAKE i \in 1 .. n
    <3>2. 1 + i - 1 = i /\ 0 + i - 1 = i - 1
      BY <1>2
    <3>. QED BY <1>5, <2>3, <2>4, <3>2
  <2>6. Spells(SubSeq(s, 1, n), r, 0, n)
    BY <1>2, <2>3, <2>4, <2>5 DEF Spells
  <2>. QED BY <1>4, <1>7, <2>1, <2>6, SpellsText DEF Promise!Cut
<1>. QED BY <1>6, <1>7

(* The history keys.                                                       *)
LEMMA RecallsRefine ==
  ASSUME IInv, Up \/ Down
  PROVE  Refines
<1>1. Editing /\ Editing' /\ len' = len /\ hist' = hist
  BY DEF Up, Down, Recall, Key, Editing
<1>2. /\ len \in Nat /\ len >= 2 /\ buf \in [0 .. len - 1 -> Char]
      /\ hist \in Seq(Seq(Text)) /\ hcur \in 0 .. Len(hist) /\ Len(hist) \in Nat
  BY <1>1, EditingFacts, LenProperties
<1>3. PICK e \in 0 .. Len(hist) :
        buf' = SafeStrncpy(buf, HistLine(e), len) /\ eol' = StrnLen(buf', 0, len) /\ num' = eol'
  <2>1. PrevEntry \in 0 .. Len(hist) /\ NextEntry \in 0 .. Len(hist)
    BY <1>2 DEF PrevEntry, NextEntry
  <2>. QED BY <2>1 DEF Up, Down, Recall
<1>4. HistLine(e) \in {<< >>} \cup {hist[i] : i \in 1 .. Len(hist)} /\ HistLine(e) \in Seq(Text)
  <2>1. CASE e = 0
    BY <2>1 DEF HistLine
  <2>2. CASE e # 0
    <3>1. e \in 1 .. Len(hist) /\ HistLine(e) = hist[e]
      BY <1>2, <2>2 DEF HistLine
    <3>2. hist[e] \in Seq(Text)
      BY <1>2, <3>1, ElementOfSeq
    <3>. QED BY <3>1, <3>2
  <2>. QED BY <2>1, <2>2
<1>5. Line' = Promise!Cut(HistLine(e), len - 1)
  <2>1. Line' = TextOf(buf', StrnLen(buf', 0, len))
    BY <1>3 DEF Line, TextOf
  <2>. QED BY <1>2, <1>3, <1>4, <2>1, CopyIsCut
<1>6. num' = Len(Line')
  <2>1. IsText(buf', eol')
    BY <1>2, <1>3, <1>4, CopyIsCut
  <2>2. Line' = TextOf(buf', eol')
    BY DEF Line, TextOf
  <2>. QED BY <1>3, <2>1, <2>2, TextSpells DEF Spells
<1>7. Promise!Recall
  <2>1. Promise!Edit /\ len # 0
    BY <1>1, <1>2, EditIs
  <2>2. \E s \in {<< >>} \cup {hist[i] : i \in 1 .. Len(hist)} :
          Line' = Promise!Cut(s, len - 1)
    BY <1>4, <1>5
  <2>3. pc # "idle" /\ pc' # "idle"
    BY <1>1 DEF Editing
  <2>. QED BY <1>6, <2>1, <2>2, <2>3 DEF Promise!Recall
<1>. QED BY <1>7 DEF Refines, Promise!Next

(* readline() called.                                                      *)
LEMMA CallRefines ==
  ASSUME IInv, NEW l \in BufLens, Call(l)
  PROVE  Refines
<1>1. /\ pc = "idle" /\ pc' = "edit" /\ len' = l /\ num' = 0 /\ eol' = 0 /\ hist' = hist
      /\ l \in Nat /\ l >= 2
  BY LenAssumption DEF Call
<1>2. Line' = << >> /\ l - 1 \in Nat \ {0} /\ l # 0
  BY <1>1 DEF Line
<1>3. Promise!Begin
  BY <1>1, <1>2 DEF Promise!Begin, Editing
<1>. QED BY <1>3 DEF Refines, Promise!Next

(* Enter: what the caller finds is the line.                               *)
LEMMA EnterRefines ==
  ASSUME IInv, Enter
  PROVE  Refines
<1>1. /\ Editing /\ pc = "edit" /\ len' = len /\ num' = num /\ eol' = eol
      /\ buf' = [buf EXCEPT ![eol] = Nul] /\ Remember(CString(buf', len))
  BY DEF Enter, Editing
<1>2. /\ IsText(buf, eol) /\ Line = TextOf(buf, eol) /\ eol \in 0 .. len - 1 /\ len \in Nat
      /\ buf \in [0 .. len - 1 -> Char] /\ eol \in Nat
  BY <1>1, EditingFacts
<1>3. /\ buf'[eol] = Nul /\ \A i \in 0 .. eol - 1 : buf'[i] = buf[i] /\ buf'[i] \in Text
  <2>1. \A i \in 0 .. eol - 1 : i \in 0 .. len - 1 /\ i # eol
    BY <1>2
  <2>. QED BY <1>1, <1>2, <2>1 DEF IsText
<1>4. CString(buf', len) = Line /\ Line' = Line
  <2>1. StrnLen(buf', 0, len) = eol
    BY <1>2, <1>3, CutAtNul
  <2>2. \A i \in 1 .. eol : buf'[i - 1] = buf[i - 1]
    <3>1. \A i \in 1 .. eol : i - 1 \in 0 .. eol - 1
      BY <1>2
    <3>. QED BY <1>3, <3>1
  <2>. QED BY <1>1, <2>1, <2>2 DEF CString, Line
<1>5. \/ pc' = "idle" /\ hist' \in Promise!LogsAfter(Line)
      \/ pc' = "halt" /\ hist' = hist
  <2>1. ~Skipped(Line) <=> ~(Line = << >> \/ (hist # << >> /\ hist[Len(hist)] = Line))
    BY DEF Skipped
  <2>2. Len(hist) \in Nat /\ HistMax \in Nat
    BY <1>1, EditingFacts, LenProperties, HistAssumption
  <2>. QED BY <1>1, <1>4, <2>1, <2>2 DEF Remember, Promise!LogsAfter
<1>6. Promise!Submit
  BY <1>1, <1>4, <1>5 DEF Promise!Submit, Editing
<1>. QED BY <1>6 DEF Refines, Promise!Next

(* ^C: the caller finds an empty line.                                     *)
LEMMA InterruptRefines ==
  ASSUME IInv, Interrupt
  PROVE  Refines
<1>1. /\ Editing /\ pc = "edit" /\ pc' = "idle" /\ len' = len /\ hist' = hist
      /\ buf' = [buf EXCEPT ![0] = Nul]
  BY DEF Interrupt, Editing
<1>2. len \in Nat /\ len >= 2 /\ buf \in [0 .. len - 1 -> Char]
  BY <1>1, EditingFacts
<1>3. StrnLen(buf', 0, len) = 0
  <2>1. buf'[0] = Nul /\ 0 \in 0 .. len - 1 /\ \A i \in 0 .. 0 - 1 : buf'[i] \in Text
    BY <1>1, <1>2
  <2>. QED BY <1>2, <2>1, CutAtNul
<1>4. CString(buf', len') = << >>
  <2>1. StrnLen(buf', 0, len') = 0
    BY <1>1, <1>3
  <2>. QED BY <2>1 DEF CString
<1>5. Promise!Cancel
  BY <1>1, <1>4 DEF Promise!Cancel, Editing
<1>. QED BY <1>5 DEF Refines, Promise!Next

(* The initial states are those of the abstract line.                      *)
LEMMA InitRefines ==
  ASSUME Init
  PROVE  Promise!Init
<1>1. pc = "idle" /\ len = 0 /\ buf = << >> /\ hist = << >>
  BY DEF Init
<1>2. StrnLen(buf, 0, 0) = 0
  <2>1. 0 \in 0 .. 0 /\ \A j \in 0 .. 0 - 1 : buf[0 + j] # Nul
    OBVIOUS
  <2>. QED BY <2>1, StrnLenIs
<1>3. CString(buf, len) = << >>
  BY <1>1, <1>2 DEF CString
<1>. QED BY <1>1, <1>3 DEF Promise!Init, Editing

(* Each step is a step of the abstract line or none.                       *)
LEMMA NextRefines ==
  ASSUME IInv, [Next]_vars
  PROVE  [Promise!Next]_(Promise!vars)
<1>1. CASE UNCHANGED vars \/ Hang
  <2>1. UNCHANGED vars
    BY <1>1 DEF Hang
  <2>2. UNCHANGED Promise!vars
    BY <2>1 DEF vars, edits, Promise!vars, Editing, Line, CString, StrnLen
  <2>. QED BY <2>2
<1>2. CASE Next /\ ~Hang
  <2>1. ASSUME NEW l \in BufLens, Call(l) PROVE Refines
    BY <2>1, CallRefines
  <2>2. ASSUME NEW ch \in Text, InsertChar(ch) \/ Overwrite(ch) PROVE Refines
    BY <2>2, CharactersRefine
  <2>3. Refines
    BY <1>2, <2>1, <2>2, MovesRefine, ErasesRefine, DeletionsRefine, RecallsRefine,
       EnterRefines, InterruptRefines DEF Next, Keystroke, EraseWordStep
  <2>. QED BY <2>3 DEF Refines
<1>. QED BY <1>1, <1>2

(* readline() keeps the promise of EditableLine: every key is one of the   *)
(* operations on an editable line, and the caller finds the line it ended  *)
(* with, for every alphabet, buffer length, terminal and history bound.    *)
THEOREM EditorKeepsItsPromise == Spec => EditsALine
BY InitRefines, NextRefines, InvariantHolds, PTL DEF Spec, EditsALine, Promise!Spec
=============================================================================
