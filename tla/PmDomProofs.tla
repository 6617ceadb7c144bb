---------------------------- MODULE PmDomProofs ----------------------------
(***************************************************************************)
(* Proofs for PmFormat and PmDom: the hexadecimal text for a page of any   *)
(* size, and the columns for every A2 page.                                *)
(***************************************************************************)
EXTENDS PmDom, TLAPS

---------------------------------------------------------------------------
(* hex_to_ascii.                                                           *)

(* The cell of the first digit of byte b, and the cell that follows the    *)
(* digits of the first k bytes.                                            *)
CellOf(b)  == 2 * b + b \div 4
CellsOf(k) == IF k = 0 THEN 0 ELSE 2 * k + (k - 1) \div 4

(* The first k bytes of the page are in the buffer, with their spaces. *)
Written(k) ==
  /\ \A b \in 0 .. k - 1 : /\ ascii[CellOf(b)] = High(b)
                           /\ ascii[CellOf(b) + 1] = Low(b)
  /\ \A w \in 1 .. (k - 1) \div 4 : ascii[9 * w - 1] = Blank("space")

HexInv ==
  /\ buf_size \in Nat \ {0}
  /\ i \in 0 .. buf_size
  /\ j = CellsOf(i)
  /\ in_hex \in BOOLEAN
  /\ ascii = [k \in 0 .. AsciiSize(buf_size) - 1 |-> ascii[k]]
  /\ i > 0 => Written(i)
  /\ (~in_hex /\ i > 0) => i = buf_size /\ ascii[j] = Blank("nul")

(* Where the digits of the next byte go: j and the space before it. *)
LEMMA NextCell ==
  ASSUME i \in Nat, j = CellsOf(i)
  PROVE  /\ j + Spaces = CellOf(i)
         /\ CellsOf(i + 1) = CellOf(i) + 2
         /\ j \in Nat /\ Spaces \in {0, 1}
BY DEF CellsOf, CellOf, Spaces, word_size

(* The digits of an earlier byte, and the spaces before it, lie before j. *)
LEMMA EarlierCells ==
  ASSUME NEW k \in Nat, k > 0
  PROVE  /\ \A b \in 0 .. k - 1 : CellOf(b) \in Nat /\ CellOf(b) + 1 < CellsOf(k)
         /\ \A w \in 1 .. (k - 1) \div 4 : 9 * w - 1 \in Nat /\ 9 * w - 1 < CellsOf(k)
<1>1. ASSUME NEW b \in 0 .. k - 1
      PROVE  CellOf(b) \in Nat /\ CellOf(b) + 1 < CellsOf(k)
  BY <1>1 DEF CellOf, CellsOf
<1>2. ASSUME NEW w \in 1 .. (k - 1) \div 4
      PROVE  9 * w - 1 \in Nat /\ 9 * w - 1 < CellsOf(k)
  BY <1>2 DEF CellsOf
<1>. QED  BY <1>1, <1>2

(* The buffer has room for the digits of every byte and the terminator. *)
LEMMA RoomForAll ==
  ASSUME NEW n \in Nat \ {0}, NEW k \in 0 .. n
  PROVE  /\ CellsOf(k) < AsciiSize(n)
         /\ k < n => CellOf(k) + 1 < AsciiSize(n)
BY DEF CellsOf, CellOf, AsciiSize, word_size

(* The loop keeps HexInv. *)
LEMMA HexByteStep == ASSUME HexInv, HexByte PROVE HexInv'
<1>1. /\ buf_size \in Nat \ {0} /\ i \in Nat /\ i < buf_size
      /\ in_hex /\ in_hex' /\ i' = i + 1 /\ buf_size' = buf_size
  BY DEF HexInv, HexByte
<1>2. j + Spaces = CellOf(i) /\ CellsOf(i + 1) = CellOf(i) + 2 /\ j \in Nat
      /\ Spaces \in {0, 1} /\ j = CellsOf(i)
  BY <1>1, NextCell DEF HexInv
<1>3. j' = CellsOf(i')
  BY <1>1, <1>2 DEF HexByte
<1>4. CellOf(i) + 1 < AsciiSize(buf_size) /\ AsciiSize(buf_size) \in Nat
  BY <1>1, RoomForAll DEF AsciiSize, word_size
<1>5. /\ DOMAIN ascii = 0 .. AsciiSize(buf_size) - 1
      /\ ascii' = [k \in 0 .. AsciiSize(buf_size) - 1 |->
                     IF k = CellOf(i) THEN High(i)
                     ELSE IF k = CellOf(i) + 1 THEN Low(i)
                     ELSE IF k = j THEN Blank("space")
                     ELSE ascii[k]]
  BY <1>2 DEF HexInv, HexByte
<1>6. ascii' = [k \in 0 .. AsciiSize(buf_size') - 1 |-> ascii'[k]]
  BY <1>1, <1>5
<1>7. ASSUME NEW k \in Nat, k < j PROVE ascii'[k] = ascii[k]
  BY <1>7, <1>2, <1>4, <1>5
<1>8. ASSUME NEW b \in 0 .. i
      PROVE  ascii'[CellOf(b)] = High(b) /\ ascii'[CellOf(b) + 1] = Low(b)
  <2>1. CASE b = i
    BY <2>1, <1>1, <1>2, <1>4, <1>5
  <2>2. CASE b < i
    <3>1. CellOf(b) \in Nat /\ CellOf(b) + 1 < j
      BY <2>2, <1>1, <1>2, EarlierCells
    <3>2. ascii[CellOf(b)] = High(b) /\ ascii[CellOf(b) + 1] = Low(b)
      <4>1. b \in 0 .. i - 1 /\ i > 0
        BY <2>2, <1>1
      <4>2. Written(i)
        BY <4>1 DEF HexInv
      <4>. QED  BY <4>1, <4>2 DEF Written
    <3>. QED  BY <3>1, <3>2, <1>7, <1>2
  <2>. QED  BY <2>1, <2>2, <1>1
<1>9. ASSUME NEW w \in 1 .. i \div 4
      PROVE  ascii'[9 * w - 1] = Blank("space")
  <2>1. CASE 4 * w = i
    <3>1. j = 9 * w - 1 /\ CellOf(i) = j + 1
      BY <2>1, <1>1, <1>2 DEF CellsOf, CellOf
    <3>. QED  BY <3>1, <1>2, <1>4, <1>5
  <2>2. CASE 4 * w # i
    <3>1. i > 0 /\ w \in 1 .. (i - 1) \div 4
      BY <2>2, <1>1
    <3>2. 9 * w - 1 \in Nat /\ 9 * w - 1 < j
      BY <3>1, <1>1, <1>2, EarlierCells
    <3>3. ascii[9 * w - 1] = Blank("space")
      BY <3>1 DEF HexInv, Written
    <3>. QED  BY <3>2, <3>3, <1>7
  <2>. QED  BY <2>1, <2>2
<1>10. Written(i)'
  BY <1>1, <1>8, <1>9 DEF Written
<1>. QED  BY <1>1, <1>3, <1>6, <1>10 DEF HexInv

(* So does the terminator. *)
LEMMA HexEndStep == ASSUME HexInv, HexEnd PROVE HexInv'
<1>1. /\ buf_size \in Nat \ {0} /\ i = buf_size /\ j = CellsOf(i) /\ Written(i)
      /\ i' = i /\ j' = j /\ buf_size' = buf_size /\ in_hex' = FALSE
  BY DEF HexInv, HexEnd
<1>2. j < AsciiSize(buf_size) /\ j \in Nat /\ AsciiSize(buf_size) \in Nat
  BY <1>1, RoomForAll DEF CellsOf, AsciiSize, word_size
<1>3. /\ ascii' = [k \in 0 .. AsciiSize(buf_size) - 1 |-> ascii'[k]]
      /\ ascii'[j] = Blank("nul")
      /\ \A k \in Nat : k < j => ascii'[k] = ascii[k]
  <2>1. ascii = [k \in 0 .. AsciiSize(buf_size) - 1 |-> ascii[k]]
    BY DEF HexInv
  <2>2. ascii' = [ascii EXCEPT ![j] = Blank("nul")]
    BY DEF HexEnd
  <2>. QED  BY <2>1, <2>2, <1>2
<1>4. /\ \A b \in 0 .. i - 1 : CellOf(b) \in Nat /\ CellOf(b) + 1 \in Nat
                                 /\ CellOf(b) < j /\ CellOf(b) + 1 < j
      /\ \A w \in 1 .. (i - 1) \div 4 : 9 * w - 1 \in Nat /\ 9 * w - 1 < j
  <2>1. /\ \A b \in 0 .. i - 1 : CellOf(b) \in Nat /\ CellOf(b) + 1 < j
        /\ \A w \in 1 .. (i - 1) \div 4 : 9 * w - 1 \in Nat /\ 9 * w - 1 < j
    BY <1>1, EarlierCells
  <2>. QED  BY <2>1, <1>2
<1>5. Written(i)'
  BY <1>1, <1>3, <1>4 DEF Written
<1>. QED  BY <1>1, <1>3, <1>5 DEF HexInv

(* And a new buffer. *)
LEMMA HexStartStep == ASSUME HexInv, HexStart PROVE HexInv'
BY DEF HexInv, HexStart, CellsOf, Allocated

LEMMA HexSafe == HexInv => HexFits /\ HexLayout
<1>. SUFFICES ASSUME HexInv PROVE HexFits /\ HexLayout
  OBVIOUS
<1>1. HexFits
  <2>1. /\ buf_size \in Nat \ {0} /\ i \in 0 .. buf_size /\ j = CellsOf(i)
    BY DEF HexInv
  <2>2. j + Spaces = CellOf(i) /\ j \in Nat /\ Spaces \in {0, 1}
    BY <2>1, NextCell
  <2>3. j < AsciiSize(buf_size) /\ (i < buf_size => CellOf(i) + 1 < AsciiSize(buf_size))
    BY <2>1, RoomForAll
  <2>. QED  BY <2>2, <2>3 DEF HexFits
<1>2. HexLayout
  <2>. SUFFICES ASSUME ~in_hex, i > 0
                PROVE  /\ \A b \in 0 .. buf_size - 1 :
                            /\ ascii[2 * b + b \div 4] = High(b)
                            /\ ascii[2 * b + b \div 4 + 1] = Low(b)
                       /\ \A w \in 1 .. (buf_size - 1) \div 4 :
                            ascii[9 * w - 1] = Blank("space")
                       /\ ascii[2 * buf_size + (buf_size - 1) \div 4] = Blank("nul")
    BY DEF HexLayout, word_size
  <2>1. Written(buf_size) /\ ascii[CellsOf(buf_size)] = Blank("nul") /\ buf_size # 0
    BY DEF HexInv
  <2>. QED  BY <2>1 DEF Written, CellOf, CellsOf
<1>. QED  BY <1>1, <1>2

---------------------------------------------------------------------------
(* pm_set_a2.                                                              *)

(* What keeps an old text close to a new value: the texts of temperatures  *)
(* are whole, and the others are not negative.                             *)
Shape(f, t) == \A h \in t : IF IsTemperature(f) THEN h % 100 = 0 ELSE h >= 0

(* t is one text, within a unit of what p says of f. *)
Close(f, p, t) ==
  \E h \in t :
    Magnitude(h * TrueScale(f) - 100 * TrueNum(f, p)) < 100 * TrueScale(f)

ShapeInv == \A f \in Floats(connector) : Shape(f, text[f])

DomInv == DomTypeOK /\ ShapeInv /\ HexInv

LEMMA ScaleValue ==
  ASSUME NEW f
  PROVE  /\ IsTemperature(f) => Scale(f) = 1 /\ TrueScale(f) = 256
         /\ ~IsTemperature(f) => Scale(f) \in {500, 10000} /\ TrueScale(f) = Scale(f)
BY DEF Scale, TrueScale, IsTemperature, LaneBiases

LEMMA WordType ==
  ASSUME NEW p \in Page, NEW c, NEW f \in Floats(c)
  PROVE  p.word[f] \in Word
<1>1. p.word \in [SfpFloats \cup QsfpFloats -> Word]
  BY DEF Page
<1>2. f \in SfpFloats \cup QsfpFloats
  BY DEF Floats
<1>. QED  BY <1>1, <1>2

(* Division by the two scales. *)
LEMMA Quotients ==
  ASSUME NEW n \in Nat
  PROVE  /\ n \div 500 \in Nat /\ n - (n \div 500) * 500 >= 0
         /\ n - (n \div 500) * 500 < 500
         /\ n \div 10000 \in Nat /\ n - (n \div 10000) * 10000 >= 0
         /\ n - (n \div 10000) * 10000 < 10000
OBVIOUS

(* A temperature is printed as a whole number, that of its upper byte. *)
LEMMA TemperatureText ==
  ASSUME NEW p \in Page, NEW c, NEW f \in Floats(c), IsTemperature(f),
         NEW up \in SUBSET Ties(c, p), NEW old \in SUBSET Int,
         \A g, h \in old : g = h, Shape(f, old)
  PROVE  /\ SetFloatString(old, f, p, up) = {100 * Num(f, p)}
         /\ Num(f, p) \in Int
         /\ Close(f, p, {100 * Num(f, p)})
<1>1. p.word[f] \in Nat /\ p.word[f] < 65536 /\ Scale(f) = 1 /\ TrueScale(f) = 256
  BY WordType, ScaleValue DEF Word
<1>2. Num(f, p) \in Int
  BY <1>1 DEF Num, Signed
<1>3. Rest(f, p) = 0 /\ Hundredths(f, p) = 100 * Num(f, p)
  BY <1>1, <1>2 DEF Rest, Hundredths
<1>4. f \notin up
  BY <1>1, <1>3 DEF Ties
<1>5. Printed(f, p, up) = 100 * Num(f, p)
  BY <1>1, <1>3, <1>4 DEF Printed
<1>6. SetFloatString(old, f, p, up) = {100 * Num(f, p)}
  <2>1. CASE old = {}
    BY <2>1, <1>5 DEF SetFloatString
  <2>2. CASE old # {}
    <3>1. PICK h \in old : old = {h}
      BY <2>2
    <3>2. h \in Int /\ h % 100 = 0
      BY <3>1 DEF Shape
    <3>3. Strtol(h) = Num(f, p) => h = 100 * Num(f, p)
      BY <3>2, <1>2 DEF Strtol
    <3>4. Strtol(h) \in Int
      BY <3>2 DEF Strtol
    <3>5. SetFloatString(old, f, p, up) =
            IF Strtol(h) # Num(f, p) THEN {100 * Num(f, p)} ELSE {h}
      BY <2>2, <3>1, <3>4, <1>1, <1>5 DEF SetFloatString
    <3>. QED  BY <3>3, <3>5
  <2>. QED  BY <2>1, <2>2
<1>7. Close(f, p, {100 * Num(f, p)})
  <2>1. Num(f, p) = Signed(p.word[f] \div 256, 256)
        /\ TrueNum(f, p) = Signed(p.word[f], 65536)
    BY DEF Num, TrueNum
  <2>2. TrueNum(f, p) - 256 * Num(f, p) \in 0 .. 255 /\ TrueNum(f, p) \in Int
    BY <1>1, <2>1 DEF Signed
  <2>3. Magnitude((100 * Num(f, p)) * 256 - 100 * TrueNum(f, p)) < 100 * 256
    BY <1>2, <2>2 DEF Magnitude
  <2>. QED  BY <1>1, <2>3 DEF Close
<1>. QED  BY <1>2, <1>6, <1>7

(* The other monitors: a new text is the nearest one, and an old one that  *)
(* is kept begins with the whole number that the value now is.             *)
LEMMA OtherText ==
  ASSUME NEW p \in Page, NEW c, NEW f \in Floats(c), ~IsTemperature(f),
         NEW up \in SUBSET Ties(c, p), NEW old \in SUBSET Int,
         \A g, h \in old : g = h, Shape(f, old)
  PROVE  \E h \in Nat : /\ SetFloatString(old, f, p, up) = {h}
                        /\ Close(f, p, {h})
<1>1. /\ p.word[f] \in Nat /\ Num(f, p) = p.word[f] /\ TrueNum(f, p) = p.word[f]
      /\ Scale(f) \in {500, 10000} /\ TrueScale(f) = Scale(f)
  BY WordType, ScaleValue DEF Word, Num, TrueNum
<1>2. ASSUME NEW h \in Nat,
             h * Scale(f) - 100 * p.word[f] < 100 * Scale(f),
             100 * p.word[f] - h * Scale(f) < 100 * Scale(f)
      PROVE  Close(f, p, {h})
  <2>1. Magnitude(h * Scale(f) - 100 * p.word[f]) < 100 * Scale(f)
    BY <1>1, <1>2 DEF Magnitude
  <2>. QED  BY <1>1, <2>1 DEF Close
<1>3. Printed(f, p, up) \in Nat /\ Close(f, p, {Printed(f, p, up)})
  <2>1. /\ Hundredths(f, p) \in Nat /\ Rest(f, p) \in Nat /\ Rest(f, p) < Scale(f)
        /\ Hundredths(f, p) * Scale(f) + Rest(f, p) = 100 * p.word[f]
    <3>1. CASE Scale(f) = 500
      <4>. DEFINE n == 100 * p.word[f]
      <4>1. n \in Nat
        BY <1>1
      <4>2. Hundredths(f, p) = n \div 500 /\ Rest(f, p) = n - (n \div 500) * 500
        BY <3>1, <1>1 DEF Hundredths, Rest
      <4>. HIDE DEF n
      <4>3. /\ Hundredths(f, p) \in Nat /\ Rest(f, p) \in Nat /\ Rest(f, p) < 500
            /\ Hundredths(f, p) * 500 + Rest(f, p) = n
        BY <4>1, <4>2, Quotients
      <4>. QED  BY <3>1, <4>3 DEF n
    <3>2. CASE Scale(f) = 10000
      <4>. DEFINE n == 100 * p.word[f]
      <4>1. n \in Nat
        BY <1>1
      <4>2. Hundredths(f, p) = n \div 10000 /\ Rest(f, p) = n - (n \div 10000) * 10000
        BY <3>2, <1>1 DEF Hundredths, Rest
      <4>. HIDE DEF n
      <4>3. /\ Hundredths(f, p) \in Nat /\ Rest(f, p) \in Nat /\ Rest(f, p) < 10000
            /\ Hundredths(f, p) * 10000 + Rest(f, p) = n
        BY <4>1, <4>2, Quotients
      <4>. QED  BY <3>2, <4>3 DEF n
    <3>. QED  BY <3>1, <3>2, <1>1
  <2>2. Printed(f, p, up) \in {Hundredths(f, p), Hundredths(f, p) + 1}
    BY DEF Printed
  <2>3. /\ Printed(f, p, up) \in Nat
        /\ Printed(f, p, up) * Scale(f) - 100 * p.word[f] < 100 * Scale(f)
        /\ 100 * p.word[f] - Printed(f, p, up) * Scale(f) < 100 * Scale(f)
    <3>1. CASE Scale(f) = 500
      BY <3>1, <1>1, <2>1, <2>2
    <3>2. CASE Scale(f) = 10000
      BY <3>2, <1>1, <2>1, <2>2
    <3>. QED  BY <3>1, <3>2, <1>1
  <2>. QED  BY <1>2, <2>3
<1>4. CASE SetFloatString(old, f, p, up) = {Printed(f, p, up)}
  BY <1>3, <1>4
<1>5. CASE /\ old # {} /\ SetFloatString(old, f, p, up) = old
           /\ \A h \in old : Strtol(h) * Scale(f) = Num(f, p)
  <2>1. PICK h \in old : old = {h}
    BY <1>5
  <2>2. h \in Nat /\ Strtol(h) * Scale(f) = p.word[f]
    BY <1>1, <1>5, <2>1 DEF Shape
  <2>3. Strtol(h) \in Nat /\ h - 100 * Strtol(h) \in 0 .. 99
    BY <2>2 DEF Strtol
  <2>4. /\ h * Scale(f) - 100 * p.word[f] < 100 * Scale(f)
        /\ 100 * p.word[f] - h * Scale(f) < 100 * Scale(f)
    <3>1. CASE Scale(f) = 500
      BY <3>1, <1>1, <2>2, <2>3
    <3>2. CASE Scale(f) = 10000
      BY <3>2, <1>1, <2>2, <2>3
    <3>. QED  BY <3>1, <3>2, <1>1
  <2>. QED  BY <1>2, <1>5, <2>1, <2>2, <2>4
<1>. QED  BY <1>4, <1>5 DEF SetFloatString

(* Every column that pm_set_a2 prints keeps its shape and is close. *)
LEMMA AnyText ==
  ASSUME NEW p \in Page, NEW c, NEW f \in Floats(c),
         NEW up \in SUBSET Ties(c, p), NEW old \in SUBSET Int,
         \A g, h \in old : g = h, Shape(f, old)
  PROVE  \E h \in Int : /\ SetFloatString(old, f, p, up) = {h}
                        /\ Shape(f, {h}) /\ Close(f, p, {h})
<1>1. CASE IsTemperature(f)
  <2>1. /\ SetFloatString(old, f, p, up) = {100 * Num(f, p)}
        /\ Num(f, p) \in Int /\ Close(f, p, {100 * Num(f, p)})
    BY <1>1, TemperatureText
  <2>2. 100 * Num(f, p) \in Int /\ (100 * Num(f, p)) % 100 = 0
    BY <2>1
  <2>. QED  BY <1>1, <2>1, <2>2 DEF Shape
<1>2. CASE ~IsTemperature(f)
  <2>1. PICK h \in Nat : SetFloatString(old, f, p, up) = {h} /\ Close(f, p, {h})
    BY <1>2, OtherText
  <2>2. Shape(f, {h})
    BY <1>2 DEF Shape
  <2>. QED  BY <2>1, <2>2
<1>. QED  BY <1>1, <1>2

(* The step of pm_set_a2: both arms of the switch set every column of the  *)
(* connector.                                                              *)
LEMMA SetA2Step ==
  ASSUME DomTypeOK, ShapeInv, PmSetA2
  PROVE  /\ DOMAIN text' = Floats(connector)
         /\ \A f \in Floats(connector) :
              /\ text'[f] \subseteq Int
              /\ \A g, h \in text'[f] : g = h
              /\ Shape(f, text'[f]) /\ Close(f, page, text'[f])
         /\ flag' \in [Flags(connector) -> {"On", "Off", "NULL"}]
         /\ \A f \in Flags(connector) : flag'[f] = SetBoolString(page.bit[f])
<1>1. /\ \E up \in SUBSET Ties(connector, page) :
           text' = [f \in Floats(connector) |->
                      SetFloatString(text[f], f, page, up)]
      /\ flag' = [f \in Flags(connector) |-> SetBoolString(page.bit[f])]
  <2>1. CASE SetSfpColumns
    BY <2>1 DEF SetSfpColumns, SetColumns, Floats, Flags
  <2>2. CASE SetQsfpColumns
    BY <2>2 DEF SetQsfpColumns, SetColumns, Floats, Flags
  <2>. QED  BY <2>1, <2>2 DEF PmSetA2
<1>2. PICK up \in SUBSET Ties(connector, page) :
        text' = [f \in Floats(connector) |-> SetFloatString(text[f], f, page, up)]
  BY <1>1
<1>3. page \in Page
  BY DEF DomTypeOK
<1>4. ASSUME NEW f \in Floats(connector)
      PROVE  /\ text'[f] \subseteq Int
             /\ \A g, h \in text'[f] : g = h
             /\ Shape(f, text'[f]) /\ Close(f, page, text'[f])
  <2>1. text[f] \in SUBSET Int /\ (\A g, h \in text[f] : g = h) /\ Shape(f, text[f])
    BY DEF DomTypeOK, ShapeInv
  <2>2. PICK h \in Int : /\ SetFloatString(text[f], f, page, up) = {h}
                         /\ Shape(f, {h}) /\ Close(f, page, {h})
    BY <1>3, <2>1, AnyText
  <2>3. text'[f] = {h}
    BY <1>2, <2>2
  <2>. QED  BY <2>2, <2>3
<1>5. flag' \in [Flags(connector) -> {"On", "Off", "NULL"}]
  BY <1>1 DEF SetBoolString
<1>. QED  BY <1>1, <1>2, <1>4, <1>5

---------------------------------------------------------------------------
(* The specification.                                                      *)

LEMMA PagesInPage == ZeroPage \in Page /\ FfPage \in Page /\ Pages \subseteq Page
<1>1. 0 \in Word /\ 65535 \in Word
  BY DEF Word
<1>2. ZeroPage \in Page
  BY <1>1 DEF ZeroPage, Page
<1>3. FfPage \in Page
  BY <1>1 DEF FfPage, Page
<1>. QED  BY <1>2, <1>3, DomAssumption

LEMMA DomInitially == DomInit => DomInv /\ ColumnsDescribePage
<1>. SUFFICES ASSUME DomInit PROVE DomInv /\ ColumnsDescribePage
  OBVIOUS
<1>1. HexInv
  <2>1. buf_size \in Nat \ {0} /\ i = 0 /\ j = 0 /\ in_hex = FALSE
    BY DomAssumption DEF DomInit, HexInit
  <2>2. ascii = [k \in 0 .. AsciiSize(buf_size) - 1 |-> ascii[k]]
    BY DEF DomInit, HexInit, Allocated
  <2>3. j = CellsOf(i) /\ i \in 0 .. buf_size /\ ~(i > 0)
    BY <2>1 DEF CellsOf
  <2>4. in_hex \in BOOLEAN
    BY <2>1, Zenon
  <2>. QED  BY <2>1, <2>2, <2>3, <2>4 DEF HexInv
<1>2. DomTypeOK
  <2>1. text = [f \in Floats(connector) |-> {}] /\ flag = [f \in Flags(connector) |-> "NULL"]
    BY DEF DomInit
  <2>2. /\ DOMAIN text = Floats(connector)
        /\ \A f \in Floats(connector) : text[f] \subseteq Int /\ \A g, h \in text[f] : g = h
        /\ flag \in [Flags(connector) -> {"On", "Off", "NULL"}]
    BY <2>1
  <2>3. /\ buf_size \in Sizes /\ connector \in {SfpPlus, "QSFP_PLUS", "QSFP28"}
        /\ a2_read_requested = FALSE /\ in_hex = FALSE /\ retry_count = 2
        /\ a2 = "NULL" /\ step = "idle"
    BY DEF DomInit, HexInit
  <2>4. page \in Page
    BY PagesInPage DEF DomInit
  <2>5. a2_read_requested \in BOOLEAN /\ in_hex \in BOOLEAN /\ (in_hex => step = "binary")
    BY <2>3, Zenon
  <2>. QED  BY <2>2, <2>3, <2>4, <2>5 DEF DomTypeOK
<1>3. ShapeInv
  BY DEF DomInit, ShapeInv, Shape
<1>4. ColumnsDescribePage
  BY DEF DomInit, ColumnsDescribePage
<1>. QED  BY <1>1, <1>2, <1>3, <1>4 DEF DomInv

(* hexVars unchanged. *)
LEMMA HexStutter == ASSUME HexInv, UNCHANGED hexVars PROVE HexInv'
BY DEF HexInv, hexVars, Written

LEMMA DomStep ==
  ASSUME DomInv, ColumnsDescribePage, DomNext
  PROVE  DomInv' /\ ColumnsDescribePage'
<1>. USE DEF DomInv
<1>1. CASE Visit
  <2>1. HexInv'
    BY <1>1, HexStutter DEF Visit
  <2>2. DomTypeOK'
    BY <1>1, PagesInPage DEF Visit, DomTypeOK, hexVars
  <2>3. ShapeInv' /\ ColumnsDescribePage'
    BY <1>1 DEF Visit, ShapeInv, ColumnsDescribePage
  <2>. QED  BY <2>1, <2>2, <2>3
<1>2. CASE PmReadA2
  <2>1. HexInv'
    BY <1>2, HexStutter DEF PmReadA2
  <2>2. DomTypeOK'
    BY <1>2, PagesInPage DEF PmReadA2, DomTypeOK, hexVars
  <2>3. ShapeInv' /\ ColumnsDescribePage'
    BY <1>2 DEF PmReadA2, ShapeInv, ColumnsDescribePage
  <2>. QED  BY <2>1, <2>2, <2>3
<1>3. CASE RetryA2
  <2>1. HexInv'
    BY <1>3, HexStutter DEF RetryA2
  <2>2. DomTypeOK'
    BY <1>3 DEF RetryA2, DomTypeOK, hexVars
  <2>3. ShapeInv' /\ ColumnsDescribePage'
    BY <1>3 DEF RetryA2, ShapeInv, ColumnsDescribePage
  <2>. QED  BY <2>1, <2>2, <2>3
<1>4. CASE GiveUpA2
  <2>1. HexInv'
    BY <1>4, HexStutter DEF GiveUpA2
  <2>2. DomTypeOK'
    BY <1>4, PagesInPage DEF GiveUpA2, DomTypeOK, hexVars
  <2>3. ShapeInv' /\ ColumnsDescribePage'
    BY <1>4 DEF GiveUpA2, ShapeInv, ColumnsDescribePage
  <2>. QED  BY <2>1, <2>2, <2>3
<1>5. CASE PmSetA2
  <2>1. HexInv'
    BY <1>5, HexStutter DEF PmSetA2
  <2>2. connector' = connector /\ page' = page
    BY <1>5 DEF PmSetA2
  <2>3. DomTypeOK'
    BY <1>5, <2>2, SetA2Step DEF PmSetA2, DomTypeOK, hexVars
  <2>4. ShapeInv'
    BY <1>5, <2>2, SetA2Step DEF ShapeInv
  <2>5. ColumnsDescribePage'
    BY <1>5, <2>2, SetA2Step DEF ColumnsDescribePage, Close
  <2>. QED  BY <2>1, <2>3, <2>4, <2>5
<1>6. CASE NoBinary
  <2>1. HexInv'
    BY <1>6, HexStutter DEF NoBinary
  <2>2. DomTypeOK'
    BY <1>6 DEF NoBinary, DomTypeOK, hexVars
  <2>3. ShapeInv' /\ ColumnsDescribePage'
    BY <1>6 DEF NoBinary, ShapeInv, ColumnsDescribePage
  <2>. QED  BY <2>1, <2>2, <2>3
<1>7. CASE SetBinary
  <2>1. HexInv'
    BY <1>7, HexStartStep, HexByteStep, HexEndStep DEF SetBinary
  <2>2. DomTypeOK'
    BY <1>7 DEF SetBinary, DomTypeOK, HexStart, HexByte, HexEnd
  <2>3. ShapeInv' /\ ColumnsDescribePage'
    BY <1>7 DEF SetBinary, ShapeInv, ColumnsDescribePage
  <2>. QED  BY <2>1, <2>2, <2>3
<1>. QED  BY <1>1, <1>2, <1>3, <1>4, <1>5, <1>6, <1>7 DEF DomNext

LEMMA DomStutter ==
  ASSUME DomInv, ColumnsDescribePage, UNCHANGED <<domVars, hexVars>>
  PROVE  DomInv' /\ ColumnsDescribePage'
<1>1. HexInv'
  BY HexStutter DEF DomInv
<1>2. DomTypeOK'
  BY DEF DomInv, DomTypeOK, domVars, hexVars
<1>3. ShapeInv' /\ ColumnsDescribePage'
  BY DEF DomInv, ShapeInv, ColumnsDescribePage, domVars
<1>. QED  BY <1>1, <1>2, <1>3 DEF DomInv

(* The inductive invariant of the read of the A2 page, for every content   *)
(* and every size of the page.                                             *)
THEOREM DomInductive == DomSpec => [](DomInv /\ ColumnsDescribePage)
<1>1. DomInit => DomInv /\ ColumnsDescribePage
  BY DomInitially
<1>2. DomInv /\ ColumnsDescribePage /\ [DomNext]_<<domVars, hexVars>>
        => (DomInv /\ ColumnsDescribePage)'
  BY DomStep, DomStutter
<1>. QED  BY <1>1, <1>2, PTL DEF DomSpec

(* pm_read_module_state: the retries of the A2 page and all types. *)
THEOREM DomTypes == DomSpec => []DomTypeOK
<1>1. DomInv => DomTypeOK
  BY DEF DomInv
<1>. QED  BY <1>1, DomInductive, PTL

(* pm_set_a2: the columns describe the page, whatever it contains and      *)
(* whatever was read before it.                                            *)
THEOREM ColumnsFaithful == DomSpec => []ColumnsDescribePage
BY DomInductive, PTL

(* hex_to_ascii never writes outside of its buffer. *)
THEOREM HexNeverOverflows == DomSpec => []HexFits
<1>1. DomInv => HexFits
  BY HexSafe DEF DomInv
<1>. QED  BY <1>1, DomInductive, PTL

(* hex_to_ascii returns a complete text. *)
THEOREM HexComplete == DomSpec => []HexLayout
<1>1. DomInv => HexLayout
  BY HexSafe DEF DomInv
<1>. QED  BY <1>1, DomInductive, PTL
=============================================================================
