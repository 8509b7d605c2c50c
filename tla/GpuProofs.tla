------------------------------ MODULE GpuProofs ------------------------------
(* The safety of the GPU model for every size of video memory, word and          *)
(* counter: GpuInv is inductive, and the invariants of Gpu are its conjuncts.    *)
EXTENDS Gpu, TLAPS

\* While pixels are left the cursor is inside the rectangle, and the pixels before
\* it are the ones that are not left.  Without it the cursor's type is not
\* inductive: nothing else keeps it from running past the last row.
Cursor(t) ==
    t.pixels_left > 0 =>
        /\ t.cur_x < t.w /\ t.cur_y < t.h
        /\ t.pixels_left = t.w * t.h - (t.cur_y * t.w + t.cur_x)

\* A write counts its words down with every pixel: what it will not reach is the
\* lower half of the rectangle.  Without it nothing says where a write ends.
WriteCounts(t) ==
    t.active =>
        /\ t.pixels_left = t.words_left + ((t.w * t.h) \div 2)
        /\ t.words_left > 0 \/ t.w * t.h = 0

GpuInv ==
    /\ GpuTypeOK
    /\ BufferBounded
    /\ StatusSound
    /\ ReadCountsAgree
    /\ Cursor(vram_read) /\ Cursor(vram_write)
    /\ WriteCounts(vram_write)

-----------------------------------------------------------------------------
\* A product is bounded by the product of the bounds: the pixels of a rectangle
\* fit the counters.
LEMMA ProductBound ==
    ASSUME NEW A \in Nat, NEW B \in Nat, NEW a \in 0 .. A, NEW b \in 0 .. B
    PROVE  a * b \in 0 .. A * B
<1>1. a * b \in Nat /\ a * B \in Nat /\ A * B \in Nat BY SMT
<1>2. a * b <= a * B
    <2>1. PICK c \in Nat : B = b + c BY SMT
    <2>2. a * B = a * b + a * c /\ a * c \in Nat BY <2>1, SMT
    <2> QED BY <1>1, <2>2, SMT
<1>3. a * B <= A * B
    <2>1. PICK c \in Nat : A = a + c BY SMT
    <2>2. A * B = a * B + c * B /\ c * B \in Nat BY <2>1, SMT
    <2> QED BY <1>1, <2>2, SMT
<1> QED BY <1>1, <1>2, <1>3, SMT

LEMMA NextRow == \A a, b \in Nat : (a + 1) * b = a * b + b /\ a * b \in Nat
BY SMT

LEMMA Remainder == \A a \in Nat, m \in Nat \ {0} : a % m \in 0 .. m - 1
BY SMT

\* A transfer starts at the first pixel of its rectangle with all of them left,
\* and a word for every two.
LEMMA StartSound ==
    ASSUME NEW c \in Word, NEW s \in Word
    PROVE  /\ StartOf(c, s) \in Transfer
           /\ Cursor(StartOf(c, s)) /\ WriteCounts(StartOf(c, s))
           /\ StartOf(c, s).pixels_left = StartOf(c, s).w * StartOf(c, s).h
           /\ StartOf(c, s).active
           /\ \/ StartOf(c, s).words_left > 0
                 /\ StartOf(c, s).words_left = (StartOf(c, s).pixels_left + 1) \div 2
              \/ StartOf(c, s).w * StartOf(c, s).h = 0
<1> DEFINE w == s.hi % VramW
           h == s.lo % VramH
           x == c.hi % VramW
           y == c.lo % VramH
<1>1. /\ w \in 0 .. VramW - 1 /\ x \in 0 .. VramW - 1
      /\ h \in 0 .. VramH - 1 /\ y \in 0 .. VramH - 1
    BY VramAssumption, Remainder DEF Word
<1>2. w * h \in 0 .. (VramW - 1) * (VramH - 1)
    BY <1>1, VramAssumption, ProductBound
<1>3. w * h \in 0 .. CountMod - 1
    BY <1>1, <1>2, VramAssumption, SMT
<1>4. (w * h + 1) \div 2 \in 0 .. CountMod - 1
    <2> DEFINE n == w * h
    <2>1. n \in 0 .. CountMod - 1 BY <1>3
    <2> HIDE DEF n
    <2>2. (n + 1) \div 2 \in 0 .. CountMod - 1 BY <2>1, VramAssumption, SMT
    <2> QED BY <2>2 DEF n
<1>5. w * h > 0 => w > 0 /\ h > 0 BY <1>1, SMT
<1> HIDE DEF w, h, x, y
<1>6. StartOf(c, s) = [active |-> TRUE, x |-> x, y |-> y, w |-> w, h |-> h,
                       cur_x |-> 0, cur_y |-> 0,
                       pixels_left |-> w * h, words_left |-> (w * h + 1) \div 2]
    BY DEF StartOf, w, h, x, y
<1>7. StartOf(c, s) \in Transfer
    BY <1>1, <1>3, <1>4, <1>6, VramAssumption, SMT DEF Transfer
<1>8. Cursor(StartOf(c, s))
    BY <1>1, <1>3, <1>5, <1>6, SMT DEF Cursor
<1>9. w * h = 0 \/ (w * h + 1) \div 2 > 0
    <2> DEFINE n == w * h
    <2>1. n \in 0 .. CountMod - 1 BY <1>3
    <2> HIDE DEF n
    <2>2. n = 0 \/ (n + 1) \div 2 > 0 BY <2>1, SMT
    <2> QED BY <2>2 DEF n
<1>10. w * h = ((w * h + 1) \div 2) + ((w * h) \div 2)
    <2> DEFINE n == w * h
    <2>1. n \in 0 .. CountMod - 1 BY <1>3
    <2> HIDE DEF n
    <2>2. n = ((n + 1) \div 2) + (n \div 2) BY <2>1, VramAssumption, SMT
    <2> QED BY <2>2 DEF n
<1>11. WriteCounts(StartOf(c, s))
    BY <1>6, <1>9, <1>10 DEF WriteCounts
<1> QED BY <1>6, <1>7, <1>8, <1>9, <1>11

\* One pixel on, the cursor is still in the rectangle or the transfer is done.
LEMMA AdvanceSound ==
    ASSUME NEW t \in Transfer, Cursor(t), t.pixels_left > 0
    PROVE  /\ Advance(t) \in Transfer
           /\ Cursor(Advance(t))
           /\ Advance(t).pixels_left = t.pixels_left - 1
           /\ Advance(t).words_left = t.words_left
           /\ Advance(t).active = t.active
           /\ Advance(t).w = t.w /\ Advance(t).h = t.h
<1> DEFINE m == [t EXCEPT !.cur_x = @ + 1, !.pixels_left = @ - 1]
           u == Advance(t)
<1>1. /\ t.w \in 0 .. VramW - 1 /\ t.h \in 0 .. VramH - 1
      /\ t.cur_x \in 0 .. VramW - 1 /\ t.cur_y \in 0 .. VramH
      /\ t.pixels_left \in 0 .. CountMod - 1
      /\ VramW \in Nat \ {0} /\ VramH \in Nat \ {0} /\ CountMod \in Nat
    BY VramAssumption DEF Transfer
<1>2. /\ t.cur_x < t.w /\ t.cur_y < t.h
      /\ t.pixels_left = t.w * t.h - (t.cur_y * t.w + t.cur_x)
    BY DEF Cursor
<1>3. CASE t.cur_x + 1 >= t.w
    <2> DEFINE cy == t.cur_y + 1
               pl == t.pixels_left - 1
    <2>1. u = [t EXCEPT !.cur_x = 0, !.cur_y = cy, !.pixels_left = pl]
        BY <1>3 DEF Advance, Transfer
    <2>2. /\ u.cur_x = 0 /\ u.cur_y = cy /\ u.pixels_left = pl
          /\ u.words_left = t.words_left /\ u.active = t.active
          /\ u.w = t.w /\ u.h = t.h
        BY <2>1 DEF Transfer
    <2>3. /\ 0 \in 0 .. VramW - 1 /\ cy \in 0 .. VramH /\ pl \in 0 .. CountMod - 1
        BY <1>1, <1>2, SMT
    <2> HIDE DEF cy, pl
    <2>4. u \in Transfer
        BY <2>1, <2>3 DEF Transfer
    <2>5. cy * t.w = t.cur_y * t.w + t.w /\ t.w = t.cur_x + 1 /\ t.cur_y * t.w \in Nat
        BY <1>1, <1>2, <1>3, NextRow, SMT DEF cy
    <2>6. pl = t.w * t.h - cy * t.w
        BY <1>1, <1>2, <2>5, SMT DEF pl
    <2>7. pl > 0 => cy < t.h
        <3>1. SUFFICES ASSUME pl > 0, cy >= t.h PROVE FALSE
            BY <1>1, <2>3, SMT
        <3>2. t.cur_y < t.h
            BY <1>2
        <3>3. cy = t.h
            BY <1>1, <3>1, <3>2, SMT DEF cy
        <3> QED BY <1>1, <2>6, <3>1, <3>3, SMT
    <2>8. Cursor(u)
        BY <1>1, <1>2, <2>2, <2>3, <2>6, <2>7, <2>5, SMT DEF Cursor
    <2> QED BY <2>2, <2>4, <2>8 DEF pl
<1>4. CASE ~(t.cur_x + 1 >= t.w)
    <2> DEFINE cx == t.cur_x + 1
               pl == t.pixels_left - 1
    <2>1. u = [t EXCEPT !.cur_x = cx, !.pixels_left = pl]
        BY <1>4 DEF Advance, Transfer
    <2>2. /\ u.cur_x = cx /\ u.cur_y = t.cur_y /\ u.pixels_left = pl
          /\ u.words_left = t.words_left /\ u.active = t.active
          /\ u.w = t.w /\ u.h = t.h
        BY <2>1 DEF Transfer
    <2>3. cx \in 0 .. VramW - 1 /\ cx < t.w /\ pl \in 0 .. CountMod - 1
        BY <1>1, <1>2, <1>4, SMT
    <2> HIDE DEF cx, pl
    <2>4. u \in Transfer
        BY <2>1, <2>3 DEF Transfer
    <2>5. t.cur_y * t.w \in Nat /\ t.w * t.h \in Nat
        BY <1>1, NextRow, SMT
    <2>6. pl = t.w * t.h - (t.cur_y * t.w + cx)
        BY <1>1, <1>2, <2>5, SMT DEF pl, cx
    <2>7. Cursor(u)
        BY <1>2, <2>2, <2>3, <2>6 DEF Cursor
    <2> QED BY <2>2, <2>4, <2>7 DEF pl
<1> QED BY <1>3, <1>4

\* It stays a transfer of the same rectangle.
LEMMA AdvanceStays ==
    ASSUME NEW t \in Transfer
    PROVE  Advance(t).x = t.x /\ Advance(t).y = t.y
BY DEF Advance, Transfer

-----------------------------------------------------------------------------
\* A word read moves the transfer on by what is left of two pixels, counts one word,
\* and ends it when both counts come to their end together.
LEMMA ReadOnSound ==
    ASSUME NEW t \in Transfer, Cursor(t), t.active,
           \/ t.words_left = (t.pixels_left + 1) \div 2 /\ t.words_left > 0
           \/ t.w * t.h = 0
    PROVE  /\ ReadOn(t) \in Transfer
           /\ Cursor(ReadOn(t))
           /\ ReadOn(t).active =>
                 \/ /\ ReadOn(t).words_left = (ReadOn(t).pixels_left + 1) \div 2
                    /\ ReadOn(t).words_left > 0
                 \/ ReadOn(t).w * ReadOn(t).h = 0
<1> DEFINE one == IF t.pixels_left > 0 THEN Advance(t) ELSE t
           two == IF one.pixels_left > 0 THEN Advance(one) ELSE one
           left == (t.words_left - 1) % CountMod
           u == ReadOn(t)
<1>1. /\ t.pixels_left \in 0 .. CountMod - 1 /\ t.words_left \in 0 .. CountMod - 1
      /\ CountMod \in Nat /\ CountMod > 0
    BY VramAssumption DEF Transfer
<1>2. /\ one \in Transfer /\ Cursor(one)
      /\ one.w = t.w /\ one.h = t.h
      /\ one.pixels_left = IF t.pixels_left > 0 THEN t.pixels_left - 1 ELSE t.pixels_left
    BY AdvanceSound
<1>3. /\ two \in Transfer /\ Cursor(two)
      /\ two.w = t.w /\ two.h = t.h
      /\ two.pixels_left = IF one.pixels_left > 0 THEN one.pixels_left - 1 ELSE one.pixels_left
    <2> HIDE DEF one
    <2> QED BY <1>2, AdvanceSound
<1>4. left \in 0 .. CountMod - 1
    BY <1>1, SMT
<1>5. t.words_left > 0 => left = t.words_left - 1
    BY <1>1, SMT
<1>6. u = [two EXCEPT !.words_left = left, !.active = left # 0]
    BY DEF ReadOn
<1>7. two.pixels_left = IF t.pixels_left > 1 THEN t.pixels_left - 2 ELSE 0
    <2> HIDE DEF one, two
    <2> QED BY <1>1, <1>2, <1>3, SMT
<1> HIDE DEF one, two, left
<1>8. u \in Transfer
    BY <1>3, <1>4, <1>6 DEF Transfer
<1>9. /\ u.w = t.w /\ u.h = t.h /\ u.words_left = left /\ (u.active <=> left # 0)
      /\ u.pixels_left = two.pixels_left
      /\ u.cur_x = two.cur_x /\ u.cur_y = two.cur_y
    BY <1>3, <1>6 DEF Transfer
<1>10. Cursor(u)
    BY <1>3, <1>9 DEF Cursor
<1>11. u.active => \/ u.words_left = (u.pixels_left + 1) \div 2 /\ u.words_left > 0
                   \/ u.w * u.h = 0
    <2>1. CASE t.words_left = (t.pixels_left + 1) \div 2 /\ t.words_left > 0
        BY <1>1, <1>4, <1>5, <1>7, <1>9, <2>1, SMT
    <2>2. CASE t.w * t.h = 0
        BY <1>9, <2>2
    <2> QED BY <2>1, <2>2
<1> QED BY <1>8, <1>10, <1>11

\* What a word read does to the rectangle, and when the transfer ends.
LEMMA ReadOnMoves ==
    ASSUME NEW t \in Transfer, Cursor(t)
    PROVE  /\ ReadOn(t).x = t.x /\ ReadOn(t).y = t.y
           /\ ReadOn(t).w = t.w /\ ReadOn(t).h = t.h
           /\ ReadOn(t).pixels_left = IF t.pixels_left > 1 THEN t.pixels_left - 2 ELSE 0
           /\ ReadOn(t).active <=> (t.words_left - 1) % CountMod # 0
<1> DEFINE one == IF t.pixels_left > 0 THEN Advance(t) ELSE t
           two == IF one.pixels_left > 0 THEN Advance(one) ELSE one
           left == (t.words_left - 1) % CountMod
<1>1. /\ one \in Transfer /\ Cursor(one)
      /\ one.x = t.x /\ one.y = t.y /\ one.w = t.w /\ one.h = t.h
      /\ one.pixels_left = IF t.pixels_left > 0 THEN t.pixels_left - 1 ELSE t.pixels_left
    BY AdvanceSound, AdvanceStays
<1> HIDE DEF one
<1>2. /\ two \in Transfer
      /\ two.x = t.x /\ two.y = t.y /\ two.w = t.w /\ two.h = t.h
      /\ two.pixels_left = IF one.pixels_left > 0 THEN one.pixels_left - 1 ELSE one.pixels_left
    BY <1>1, AdvanceSound, AdvanceStays
<1>3. ReadOn(t) = [two EXCEPT !.words_left = left, !.active = left # 0]
    BY DEF ReadOn, one
<1> HIDE DEF two, left
<1>4. /\ ReadOn(t).x = t.x /\ ReadOn(t).y = t.y
      /\ ReadOn(t).w = t.w /\ ReadOn(t).h = t.h
      /\ ReadOn(t).pixels_left = two.pixels_left
      /\ ReadOn(t).active <=> left # 0
    BY <1>2, <1>3 DEF Transfer
<1>5. t.pixels_left \in Nat
    BY VramAssumption, SMT DEF Transfer
<1>6. two.pixels_left = IF t.pixels_left > 1 THEN t.pixels_left - 2 ELSE 0
    BY <1>1, <1>2, <1>5, SMT
<1> QED BY <1>4, <1>6 DEF left

\* Writing a pixel keeps the memory and the transfer in their types.
LEMMA WritePixelSound ==
    ASSUME NEW mem \in [Place -> Half], NEW t \in Transfer, Cursor(t), NEW p \in Half
    PROVE  LET s == WritePixel([mem |-> mem, t |-> t], p)
           IN  /\ s = [mem |-> s.mem, t |-> s.t]
               /\ s.mem \in [Place -> Half]
               /\ s.t \in Transfer /\ Cursor(s.t)
<1> DEFINE s == WritePixel([mem |-> mem, t |-> t], p)
<1>1. CASE t.pixels_left = 0
    BY <1>1 DEF WritePixel
<1>2. CASE t.pixels_left # 0
    <2> DEFINE a == Advance(t)
               left == IF a.words_left > 0 THEN a.words_left - 1 ELSE 0
    <2>1. t.pixels_left > 0
        BY <1>2, VramAssumption, SMT DEF Transfer
    <2>2. a \in Transfer /\ Cursor(a)
        BY <2>1, AdvanceSound
    <2>3. s = [mem |-> [mem EXCEPT ![At(t)] = p], t |-> [a EXCEPT !.words_left = left]]
        BY <1>2 DEF WritePixel
    <2>4. left \in 0 .. CountMod - 1
        <3>1. a.words_left \in 0 .. CountMod - 1 /\ CountMod \in Nat /\ CountMod > 0
            BY <2>2, VramAssumption DEF Transfer
        <3> HIDE DEF a
        <3> QED BY <3>1, SMT
    <2> HIDE DEF a, left
    <2>5. [a EXCEPT !.words_left = left] \in Transfer
        BY <2>2, <2>4 DEF Transfer
    <2>6. Cursor([a EXCEPT !.words_left = left])
        BY <2>2 DEF Cursor, Transfer
    <2> QED BY <2>3, <2>5, <2>6
<1> QED BY <1>1, <1>2

\* One pixel written: where, and what both counters make of it.
LEMMA PixelWritten ==
    ASSUME NEW mem \in [Place -> Half], NEW t \in Transfer, NEW p \in Half
    PROVE  LET s == WritePixel([mem |-> mem, t |-> t], p)
           IN  /\ s.t.active = t.active /\ s.t.x = t.x /\ s.t.y = t.y
               /\ s.t.w = t.w /\ s.t.h = t.h
               /\ t.pixels_left = 0 => s.mem = mem /\ s.t = t
               /\ t.pixels_left # 0 =>
                     /\ \A q \in Place : s.mem[q] # mem[q] => q = At(t)
                     /\ s.t.pixels_left = t.pixels_left - 1
                     /\ s.t.words_left = IF t.words_left > 0 THEN t.words_left - 1 ELSE 0
                     /\ At(s.t) = At(Advance(t))
<1> DEFINE s == WritePixel([mem |-> mem, t |-> t], p)
<1>1. CASE t.pixels_left = 0
    BY <1>1 DEF WritePixel
<1>2. CASE t.pixels_left # 0
    <2> DEFINE a == Advance(t)
               left == IF t.words_left > 0 THEN t.words_left - 1 ELSE 0
    <2>1. /\ a.active = t.active /\ a.x = t.x /\ a.y = t.y /\ a.w = t.w /\ a.h = t.h
          /\ a.pixels_left = t.pixels_left - 1 /\ a.words_left = t.words_left
          /\ a = [active |-> a.active, x |-> a.x, y |-> a.y, w |-> a.w, h |-> a.h,
                  cur_x |-> a.cur_x, cur_y |-> a.cur_y,
                  pixels_left |-> a.pixels_left, words_left |-> a.words_left]
        BY DEF Advance, Transfer
    <2>2. s = [mem |-> [mem EXCEPT ![At(t)] = p],
               t |-> [a EXCEPT !.words_left = IF @ > 0 THEN @ - 1 ELSE 0]]
        BY <1>2 DEF WritePixel
    <2> HIDE DEF a
    <2>3. s.t = [active |-> a.active, x |-> a.x, y |-> a.y, w |-> a.w, h |-> a.h,
                 cur_x |-> a.cur_x, cur_y |-> a.cur_y,
                 pixels_left |-> a.pixels_left, words_left |-> left]
        BY <2>1, <2>2
    <2>4. At(s.t) = At(a)
        BY <2>3 DEF At
    <2>5. \A q \in Place : s.mem[q] # mem[q] => q = At(t)
        BY <2>2
    <2> HIDE DEF left
    <2>6. /\ s.t.active = t.active /\ s.t.x = t.x /\ s.t.y = t.y
          /\ s.t.w = t.w /\ s.t.h = t.h
          /\ s.t.pixels_left = t.pixels_left - 1 /\ s.t.words_left = left
        BY <2>1, <2>3
    <2> HIDE DEF s
    <2> QED BY <1>2, <2>4, <2>5, <2>6 DEF s, a, left
<1> QED BY <1>1, <1>2

\* A word written: two pixels, or what is left of them.
LEMMA WordWritten ==
    ASSUME GpuInv, NEW v \in Pixels, gp0_write_vram_data(v)
    PROVE  LET t == vram_write
               u == vram_write'
           IN  /\ vram' \in [Place -> Half] /\ u \in Transfer /\ Cursor(u)
               /\ u.active <=> u.words_left # 0
               /\ u.x = t.x /\ u.y = t.y /\ u.w = t.w /\ u.h = t.h
               /\ u.pixels_left = IF t.pixels_left > 1 THEN t.pixels_left - 2 ELSE 0
               /\ t.pixels_left > 1 =>
                     u.words_left = IF t.words_left > 1 THEN t.words_left - 2 ELSE 0
               /\ t.pixels_left = 1 =>
                     u.words_left = IF t.words_left > 0 THEN t.words_left - 1 ELSE 0
               /\ t.pixels_left = 0 => u.words_left = t.words_left /\ vram' = vram
               /\ \A q \in Place : vram'[q] # vram[q] =>
                     \/ t.pixels_left > 0 /\ q = At(t)
                     \/ t.pixels_left > 1 /\ q = At(Advance(t))
<1> DEFINE t == vram_write
           u == vram_write'
           s1 == WritePixel([mem |-> vram, t |-> t], v.lo)
           s2 == WritePixel(s1, v.hi)
<1>1. /\ vram \in [Place -> Half] /\ t \in Transfer /\ Cursor(t) /\ t.active
      /\ v.lo \in Half /\ v.hi \in Half
    BY CommandAssumption DEF GpuInv, GpuTypeOK, Word, gp0_write_vram_data
<1>2. /\ s1 = [mem |-> s1.mem, t |-> s1.t] /\ s1.mem \in [Place -> Half]
      /\ s1.t \in Transfer /\ Cursor(s1.t)
    BY <1>1, WritePixelSound
<1>3. /\ s1.t.active = t.active /\ s1.t.x = t.x /\ s1.t.y = t.y
      /\ s1.t.w = t.w /\ s1.t.h = t.h
      /\ t.pixels_left = 0 => s1.mem = vram /\ s1.t = t
      /\ t.pixels_left # 0 =>
            /\ \A q \in Place : s1.mem[q] # vram[q] => q = At(t)
            /\ s1.t.pixels_left = t.pixels_left - 1
            /\ s1.t.words_left = IF t.words_left > 0 THEN t.words_left - 1 ELSE 0
            /\ At(s1.t) = At(Advance(t))
    BY <1>1, PixelWritten
<1>4. vram' = s2.mem /\ u = [s2.t EXCEPT !.active = @ /\ s2.t.words_left # 0]
    BY DEF gp0_write_vram_data
<1> HIDE DEF s1, t
<1>5. s2.mem \in [Place -> Half] /\ s2.t \in Transfer /\ Cursor(s2.t)
    BY <1>1, <1>2, WritePixelSound
<1>6. /\ s2.t.active = s1.t.active /\ s2.t.x = s1.t.x /\ s2.t.y = s1.t.y
      /\ s2.t.w = s1.t.w /\ s2.t.h = s1.t.h
      /\ s1.t.pixels_left = 0 => s2.mem = s1.mem /\ s2.t = s1.t
      /\ s1.t.pixels_left # 0 =>
            /\ \A q \in Place : s2.mem[q] # s1.mem[q] => q = At(s1.t)
            /\ s2.t.pixels_left = s1.t.pixels_left - 1
            /\ s2.t.words_left = IF s1.t.words_left > 0 THEN s1.t.words_left - 1 ELSE 0
    BY <1>1, <1>2, PixelWritten
<1> HIDE DEF s2, u
<1>7. /\ u \in Transfer /\ Cursor(u)
      /\ u.x = s2.t.x /\ u.y = s2.t.y /\ u.w = s2.t.w /\ u.h = s2.t.h
      /\ u.pixels_left = s2.t.pixels_left /\ u.words_left = s2.t.words_left
      /\ u.active <=> s2.t.active /\ s2.t.words_left # 0
    BY <1>4, <1>5 DEF Transfer, Cursor
<1>8. /\ t.pixels_left \in Nat /\ t.words_left \in Nat
      /\ s1.t.pixels_left \in Nat /\ s1.t.words_left \in Nat
    BY <1>1, <1>2, VramAssumption, SMT DEF Transfer
<1>9. u.pixels_left = IF t.pixels_left > 1 THEN t.pixels_left - 2 ELSE 0
    BY <1>3, <1>6, <1>7, <1>8, SMT
<1>10. /\ t.pixels_left > 1 => u.words_left = IF t.words_left > 1 THEN t.words_left - 2 ELSE 0
       /\ t.pixels_left = 1 => u.words_left = IF t.words_left > 0 THEN t.words_left - 1 ELSE 0
       /\ t.pixels_left = 0 => u.words_left = t.words_left /\ vram' = vram
    BY <1>3, <1>4, <1>6, <1>7, <1>8, SMT
<1>11. ASSUME NEW q \in Place, vram'[q] # vram[q]
       PROVE  \/ t.pixels_left > 0 /\ q = At(t)
              \/ t.pixels_left > 1 /\ q = At(Advance(t))
    <2>1. t.pixels_left # 0 /\ t.pixels_left > 0
        BY <1>3, <1>4, <1>6, <1>8, <1>11
    <2>2. CASE s1.mem[q] # vram[q]
        BY <1>3, <2>1, <2>2
    <2>3. CASE s2.mem[q] # s1.mem[q]
        <3>1. s1.t.pixels_left # 0 /\ q = At(s1.t)
            BY <1>6, <2>3
        <3>2. t.pixels_left > 1
            BY <1>3, <1>8, <2>1, <3>1, SMT
        <3> QED BY <1>3, <2>1, <3>1, <3>2
    <2> QED BY <1>4, <1>11, <2>2, <2>3
<1>12. u.active <=> u.words_left # 0
    BY <1>1, <1>3, <1>6, <1>7
<1> QED BY <1>3, <1>4, <1>5, <1>6, <1>7, <1>9, <1>10, <1>11, <1>12 DEF t, u

\* Both counters of a write go down together, until the words are none.
LEMMA WriteCountsKept ==
    ASSUME GpuInv, NEW v \in Pixels, gp0_write_vram_data(v)
    PROVE  /\ WriteCounts(vram_write)'
           /\ vram_write.active
           /\ ~vram_write'.active =>
                 LET half == (vram_write.w * vram_write.h) \div 2
                 IN  vram_write'.pixels_left \in {half - 1, half}
<1> DEFINE t == vram_write
           u == vram_write'
           n == t.w * t.h
           half == n \div 2
<1>1. /\ t.pixels_left = t.words_left + half
      /\ t.words_left > 0 \/ n = 0
      /\ t.active /\ t \in Transfer
    BY DEF GpuInv, GpuTypeOK, WriteCounts, gp0_write_vram_data
<1>2. /\ u.w = t.w /\ u.h = t.h
      /\ u.active <=> u.words_left # 0
      /\ u.pixels_left = IF t.pixels_left > 1 THEN t.pixels_left - 2 ELSE 0
      /\ t.pixels_left > 1 => u.words_left = IF t.words_left > 1 THEN t.words_left - 2 ELSE 0
      /\ t.pixels_left = 1 => u.words_left = IF t.words_left > 0 THEN t.words_left - 1 ELSE 0
      /\ t.pixels_left = 0 => u.words_left = t.words_left
    BY WordWritten
<1>3. n \in Nat /\ t.pixels_left \in Nat /\ t.words_left \in Nat
    <2>1. t.w \in Nat /\ t.h \in Nat /\ t.pixels_left \in Nat /\ t.words_left \in Nat
        BY <1>1, VramAssumption, SMT DEF Transfer
    <2> QED BY <2>1, NextRow
<1> HIDE DEF t, u
<1>4. u.w * u.h = n
    BY <1>2
<1> HIDE DEF n
<1>5. half \in Nat /\ (n = 0 => half = 0) /\ (n = 1 => half = 0)
    BY <1>3, SMT
<1>6. t.pixels_left = t.words_left + half
    BY <1>1
<1> HIDE DEF half
<1>7. u.active => u.pixels_left = u.words_left + half /\ u.words_left > 0
    BY <1>1, <1>2, <1>3, <1>5, <1>6, SMT
<1>8. ~u.active => u.pixels_left \in {half - 1, half}
    BY <1>1, <1>2, <1>3, <1>5, <1>6, SMT
<1>9. WriteCounts(vram_write)'
    BY <1>4, <1>7 DEF WriteCounts, u, half, n
<1> QED BY <1>1, <1>8, <1>9 DEF u, t, half, n

-----------------------------------------------------------------------------
LEMMA InitInv == GpuInit => GpuInv
<1> SUFFICES ASSUME GpuInit PROVE GpuInv OBVIOUS
<1>1. Idle \in Transfer /\ Cursor(Idle) /\ ~Idle.active
    BY VramAssumption, SMT DEF Idle, Transfer, Cursor
<1>2. Zero \in Word /\ ResetStat \in GpuStat
    BY VramAssumption DEF Zero, Word, ResetStat, GpuStat
<1>3. GpuTypeOK
    BY <1>1, <1>2, VramAssumption DEF GpuInit, GpuTypeOK
<1>4. BufferBounded /\ StatusSound /\ ReadCountsAgree
    BY <1>1 DEF GpuInit, BufferBounded, StatusSound, ReadCountsAgree, ResetStat
<1>5. WriteCounts(vram_write)
    BY <1>1 DEF GpuInit, WriteCounts
<1> QED BY <1>1, <1>3, <1>4, <1>5 DEF GpuInv, GpuInit

\* A transfer stands at a pixel of video memory.
LEMMA AtIsPlace == \A t \in Transfer : At(t) \in Place
<1> TAKE t \in Transfer
<1>1. t.x + t.cur_x \in Nat /\ t.y + t.cur_y \in Nat
    BY VramAssumption, SMT DEF Transfer
<1> DEFINE col == (t.x + t.cur_x) % VramW
           row == (t.y + t.cur_y) % VramH
<1>2. col \in 0 .. VramW - 1 /\ row \in 0 .. VramH - 1
    BY <1>1, VramAssumption, Remainder
<1> HIDE DEF col, row
<1>3. <<col, row>> \in Place
    BY <1>2 DEF Place
<1> QED BY <1>3 DEF At, col, row

\* The word that a read packs is a word.
LEMMA PackType ==
    ASSUME GpuInv
    PROVE  Pack(vram_read) \in Word
<1>1. \A t \in Transfer : At(t) \in Place
    BY AtIsPlace
<1>2. vram_read \in Transfer /\ vram \in [Place -> Half] /\ Cursor(vram_read)
    BY DEF GpuInv, GpuTypeOK
<1>3. vram_read.pixels_left > 1 => Advance(vram_read) \in Transfer
    <2>1. vram_read.pixels_left > 1 => vram_read.pixels_left > 0
        BY <1>2, VramAssumption, SMT DEF Transfer
    <2> QED BY <1>2, <2>1, AdvanceSound
<1>4. vram_read.pixels_left > 1 => vram[At(Advance(vram_read))] \in Half
    BY <1>1, <1>2, <1>3
<1>5. vram[At(vram_read)] \in Half /\ 0 \in Half
    BY <1>1, <1>2, VramAssumption
<1> QED BY <1>4, <1>5 DEF Pack, Word

\* Every operation preserves the invariant.
LEMMA StepInv == GpuInv /\ [GpuNext]_gvars => GpuInv'
<1> SUFFICES ASSUME GpuInv, [GpuNext]_gvars PROVE GpuInv'
    OBVIOUS
<1> USE DEF GpuInv
<1>1. CASE gp0_read
    <2>1. vram_read' = ReadOn(vram_read) /\ vram_read \in Transfer /\ vram_read.active
        BY <1>1 DEF gp0_read, GpuTypeOK
    <2>2. vram_read' \in Transfer /\ Cursor(vram_read)'
        BY <2>1, ReadOnSound DEF ReadCountsAgree, Cursor
    <2>3. ReadCountsAgree'
        BY <2>1, ReadOnSound DEF ReadCountsAgree
    <2>4. gpu_stat' = [gpu_stat EXCEPT
                        !.read_ready = @ /\ vram_read'.active,
                        !.drq = Drq(dma_direction, Len(gp0_buffer), vram_read')]
        BY <1>1 DEF gp0_read
    <2>5. Drq(dma_direction, Len(gp0_buffer), vram_read') \in BOOLEAN
        BY DEF Drq
    <2>6. gpu_stat' \in GpuStat
        BY <2>2, <2>4, <2>5 DEF GpuTypeOK, GpuStat, Transfer
    <2>7. StatusSound'
        BY <1>1, <2>2, <2>4 DEF StatusSound, GpuTypeOK, GpuStat, gp0_read
    <2>8. gpu_read' \in Word
        BY <1>1, PackType DEF gp0_read
    <2>9. /\ UNCHANGED <<vram, gp0_buffer, gp0_expected, vram_write, render_attr, dma_direction>>
        BY <1>1 DEF gp0_read
    <2> QED BY <2>2, <2>3, <2>6, <2>7, <2>8, <2>9 DEF GpuTypeOK, BufferBounded, Cursor, WriteCounts
<1>2. ASSUME NEW v \in Pixels, gp0_write_vram_data(v) PROVE GpuInv'
    <2>1. vram' \in [Place -> Half] /\ vram_write' \in Transfer /\ Cursor(vram_write)'
        BY <1>2, WordWritten DEF Cursor
    <2>2. WriteCounts(vram_write)'
        BY <1>2, WriteCountsKept
    <2>3. UNCHANGED <<gp0_buffer, gp0_expected, vram_read, gpu_read, render_attr, dma_direction,
                      gpu_stat>>
        BY <1>2 DEF gp0_write_vram_data
    <2> QED BY <2>1, <2>2, <2>3
            DEF GpuTypeOK, BufferBounded, StatusSound, ReadCountsAgree, Cursor
<1>3. ASSUME NEW v \in Words, gp0_write_command(v) PROVE GpuInv'
    <2> DEFINE buf == Append(gp0_buffer, v)
               expected == IF gp0_buffer = <<>> THEN gp0_word_count(CmdOf(v)) ELSE gp0_expected
    <2>1. gp0_buffer \in Seq(Words) /\ gp0_expected \in {0, 1, 3}
        BY DEF GpuTypeOK
    <2>2. /\ buf \in Seq(Words) /\ Len(buf) = Len(gp0_buffer) + 1 /\ Len(buf) \in Nat
          /\ \A k \in 1 .. Len(buf) : buf[k] \in Words
        BY <2>1
    <2>3. expected = gp0_word_count(CmdOf(buf[1])) /\ expected \in {1, 3}
        <3>1. expected = gp0_word_count(CmdOf(buf[1]))
            BY <2>1 DEF BufferBounded
        <3> QED BY <3>1 DEF gp0_word_count
    <2>4. gp0_expected' = expected /\ UNCHANGED <<vram, gpu_read, dma_direction>>
        BY <1>3 DEF gp0_write_command
    <2> HIDE DEF buf, expected
    <2>5. CASE /\ Len(buf) < expected /\ gp0_buffer' = buf
               /\ UNCHANGED <<vram_read, vram_write, gpu_stat, render_attr>>
        BY <2>2, <2>3, <2>4, <2>5
            DEF GpuTypeOK, BufferBounded, StatusSound, ReadCountsAgree, Cursor, WriteCounts
    <2>6. CASE Len(buf) >= expected /\ gp0_buffer' = <<>> /\ gp0_execute(buf)
        <3> DEFINE cmd == CmdOf(buf[1])
                   start == StartOf(buf[2], buf[3])
        <3>1. buf[1] \in Word
            BY <2>2, <2>3, <2>6, CommandAssumption, SMT
        <3>2. ASSUME cmd \in {"vram_write", "vram_read"}
              PROVE  buf[2] \in Word /\ buf[3] \in Word
            <4>1. expected = 3 BY <2>3, <3>2 DEF gp0_word_count
            <4> QED BY <2>2, <2>6, <4>1, CommandAssumption, SMT
        <3>3. cmd \in {"vram_write", "vram_read"} =>
                 /\ start \in Transfer /\ Cursor(start) /\ WriteCounts(start) /\ start.active
                 /\ \/ start.words_left = (start.pixels_left + 1) \div 2 /\ start.words_left > 0
                    \/ start.w * start.h = 0
            BY <3>2, StartSound
        <3>4. ParamOf(buf[1]) \in Word
            BY <3>1, VramAssumption DEF ParamOf, Word
        <3> HIDE DEF cmd, start
        <3>5. /\ vram_write' = IF cmd = "vram_write" THEN start ELSE vram_write
              /\ vram_read' = IF cmd = "vram_read" THEN start ELSE vram_read
              /\ gpu_stat' = [gpu_stat EXCEPT !.read_ready = @ \/ cmd = "vram_read"]
              /\ render_attr' = IF cmd \in Attr
                                THEN [render_attr EXCEPT ![cmd] = ParamOf(buf[1])]
                                ELSE render_attr
            BY <2>6 DEF gp0_execute, cmd, start
        <3>6. /\ vram_write' \in Transfer /\ Cursor(vram_write)'
              /\ vram_read' \in Transfer /\ Cursor(vram_read)'
              /\ WriteCounts(vram_write)'
            BY <3>3, <3>5 DEF GpuTypeOK, Cursor, WriteCounts
        <3>7. ReadCountsAgree'
            BY <3>3, <3>5 DEF ReadCountsAgree
        <3>8. StatusSound' /\ gpu_stat' \in GpuStat
            BY <2>4, <3>3, <3>5 DEF StatusSound, GpuTypeOK, GpuStat
        <3>9. render_attr' \in [Attr -> Word]
            BY <3>4, <3>5 DEF GpuTypeOK
        <3>10. BufferBounded' /\ gp0_buffer' \in Seq(Words)
            BY <2>6 DEF BufferBounded
        <3> QED BY <2>3, <2>4, <3>6, <3>7, <3>8, <3>9, <3>10 DEF GpuTypeOK
    <2> QED BY <1>3, <2>5, <2>6 DEF gp0_write_command, buf, expected
<1>4. CASE gp1_reset
    BY <1>4 DEF gp1_reset, GpuTypeOK, BufferBounded, StatusSound, ReadCountsAgree, Cursor, WriteCounts,
                ResetStat, GpuStat
<1>5. CASE gp0_clear_fifo
    BY <1>5 DEF gp0_clear_fifo, GpuTypeOK, BufferBounded, StatusSound, ReadCountsAgree, Cursor, WriteCounts
<1>6. ASSUME NEW d \in Directions, gp1_dma_direction(d) PROVE GpuInv'
    BY <1>6, CommandAssumption
       DEF gp1_dma_direction, GpuTypeOK, BufferBounded, StatusSound, ReadCountsAgree, Cursor, WriteCounts, GpuStat
<1>7. CASE gp1_set_gpu_read
    BY <1>7, VramAssumption
       DEF gp1_set_gpu_read, GpuTypeOK, BufferBounded, StatusSound, ReadCountsAgree, Cursor, WriteCounts, Word, Zero
<1>8. CASE gpu_reset
    BY <1>8, VramAssumption
       DEF gpu_reset, GpuTypeOK, BufferBounded, StatusSound, ReadCountsAgree, Cursor, WriteCounts, ResetStat, GpuStat
<1>9. CASE UNCHANGED gvars
    BY <1>9 DEF gvars, GpuTypeOK, BufferBounded, StatusSound, ReadCountsAgree, Cursor, WriteCounts
<1> QED BY <1>1, <1>2, <1>3, <1>4, <1>5, <1>6, <1>7, <1>8, <1>9 DEF GpuNext

-----------------------------------------------------------------------------
\* The inductive invariant holds in every reachable state: the types of gp0.c's
\* structures, the buffer, the status register and both cursors.
THEOREM GpuInvariance == GpuSpec => []GpuInv
BY InitInv, StepInv, PTL DEF GpuSpec

\* The cursors and counters of gp0.c stay in the ranges their fields are used for.
THEOREM GpuTypeCorrect == GpuSpec => []GpuTypeOK
BY GpuInvariance, PTL DEF GpuInv

\* gp0_write never overruns gp0_buffer, and gp0_execute finds all the words.
THEOREM BufferSafe == GpuSpec => []BufferBounded
BY GpuInvariance, PTL DEF GpuInv

\* The status register of gp1.c shows no transfer and no direction that is not there.
THEOREM StatusSafe == GpuSpec => []StatusSound
BY GpuInvariance, PTL DEF GpuInv

\* The two counters of a read in gp0.c come to their end together.
THEOREM ReadCounts == GpuSpec => []ReadCountsAgree
BY GpuInvariance, PTL DEF GpuInv

\* Where the write of a rectangle ends, for every rectangle and whatever comes in
\* between.
EndsHalfWay ==
    vram_write.active /\ ~vram_write'.active =>
        LET half == (vram_write.w * vram_write.h) \div 2
        IN  vram_write'.pixels_left \in {half - 1, half}

LEMMA StepEndsHalfWay == GpuInv /\ [GpuNext]_gvars => [EndsHalfWay]_gvars
<1> SUFFICES ASSUME GpuInv, GpuNext PROVE EndsHalfWay
    OBVIOUS
<1>1. ASSUME NEW v \in Pixels, gp0_write_vram_data(v) PROVE EndsHalfWay
    BY <1>1, WriteCountsKept DEF EndsHalfWay
<1>2. ASSUME NEW v \in Words, gp0_write_command(v) PROVE EndsHalfWay
    BY <1>2 DEF gp0_write_command, EndsHalfWay
<1>3. ASSUME vram_write' = vram_write PROVE EndsHalfWay
    BY <1>3 DEF EndsHalfWay
<1>4. CASE gp0_read
    BY <1>3, <1>4 DEF gp0_read
<1>5. CASE gp1_reset
    BY <1>3, <1>5 DEF gp1_reset
<1>6. CASE gp0_clear_fifo
    BY <1>3, <1>6 DEF gp0_clear_fifo
<1>7. ASSUME NEW d \in Directions, gp1_dma_direction(d) PROVE EndsHalfWay
    BY <1>3, <1>7 DEF gp1_dma_direction
<1>8. CASE gp1_set_gpu_read
    BY <1>3, <1>8 DEF gp1_set_gpu_read
<1>9. CASE gpu_reset
    BY <1>3, <1>9 DEF gpu_reset
<1> QED BY <1>1, <1>2, <1>4, <1>5, <1>6, <1>7, <1>8, <1>9 DEF GpuNext

\* gp0.c ends a write with half of its rectangle not written, or one pixel less: the
\* exact size of what the two counters lose.
THEOREM WriteEnds == GpuSpec => WriteEndsHalfWay
<1>1. GpuSpec => [][EndsHalfWay]_gvars
    BY StepEndsHalfWay, GpuInvariance, PTL DEF GpuSpec
<1> QED BY <1>1 DEF WriteEndsHalfWay, EndsHalfWay

-----------------------------------------------------------------------------
(* The transfers implement Transfers: what each operation is to a program that   *)
(* sees rectangles and not cursors.                                            *)

\* A number below w and a multiple of w come apart by division.
LEMMA RowAndColumn ==
    ASSUME NEW w \in Nat, NEW q \in Nat, NEW c \in Nat, c < w
    PROVE  (q * w + c) % w = c /\ (q * w + c) \div w = q
<1> DEFINE n == q * w + c
           d == n \div w
           m == n % w
<1>1. w > 0 /\ q * w \in Nat /\ n \in Nat
    BY NextRow, SMT
<1>2. d \in Nat /\ m \in 0 .. w - 1 /\ n = d * w + m
    <2> HIDE DEF n
    <2>1. \A k \in Nat, v \in Nat : v > 0 =>
              k \div v \in Nat /\ k % v \in 0 .. v - 1 /\ k = v * (k \div v) + (k % v)
        BY SMT
    <2>2. \A a, b \in Nat : a * b = b * a
        BY SMT
    <2> QED BY <1>1, <2>1, <2>2
<1> HIDE DEF d, m
<1>3. d = q
    <2>1. CASE d < q
        <3>1. PICK k \in Nat : q = d + 1 + k
            BY <1>2, <2>1, SMT
        <3>2. q * w = d * w + w + k * w /\ k * w \in Nat /\ d * w \in Nat
            BY <1>2, <3>1, SMT
        <3> QED BY <1>1, <1>2, <3>2, SMT DEF n
    <2>2. CASE d > q
        <3>1. PICK k \in Nat : d = q + 1 + k
            BY <1>2, <2>2, SMT
        <3>2. d * w = q * w + w + k * w /\ k * w \in Nat
            BY <3>1, SMT
        <3> QED BY <1>1, <1>2, <3>2, SMT DEF n
    <2> QED BY <1>2, <2>1, <2>2, SMT
<1>4. m = c
    BY <1>1, <1>2, <1>3, SMT DEF n
<1> QED BY <1>3, <1>4 DEF d, m, n

\* The rectangle of a transfer with n of its pixels left.
Rest(t, n) == [x |-> t.x, y |-> t.y, w |-> t.w, h |-> t.h, left |-> n]

\* The cursor stands at the first of the pixels that are left.
LEMMA CursorPicks ==
    ASSUME NEW t \in Transfer, Cursor(t), t.pixels_left > 0
    PROVE  TR!Pick(Rest(t, t.pixels_left), 0) = At(t)
<1>1. /\ t.w \in Nat /\ t.h \in Nat /\ t.cur_x \in Nat /\ t.cur_y \in Nat
      /\ t.pixels_left \in Nat /\ t.cur_x < t.w
      /\ t.pixels_left = t.w * t.h - (t.cur_y * t.w + t.cur_x)
    BY VramAssumption, SMT DEF Transfer, Cursor
<1> DEFINE n == t.w * t.h - t.pixels_left + 0
<1>2. n = t.cur_y * t.w + t.cur_x
    <2>1. t.w * t.h \in Nat /\ t.cur_y * t.w \in Nat
        BY <1>1, NextRow
    <2> QED BY <1>1, <2>1, SMT
<1>3. n % t.w = t.cur_x /\ n \div t.w = t.cur_y
    BY <1>1, <1>2, RowAndColumn
<1>4. TR!Pick(Rest(t, t.pixels_left), 0)
        = <<(t.x + (n % t.w)) % VramW, (t.y + (n \div t.w)) % VramH>>
    BY DEF TR!Pick, Rest
<1> HIDE DEF n
<1> QED BY <1>3, <1>4 DEF At

\* One pixel on, it stands at the second.
LEMMA NextPicks ==
    ASSUME NEW t \in Transfer, Cursor(t), t.pixels_left > 1
    PROVE  TR!Pick(Rest(t, t.pixels_left), 1) = At(Advance(t))
<1> DEFINE u == Advance(t)
<1>1. t.pixels_left \in Nat /\ t.pixels_left > 0 /\ t.w * t.h \in Nat
    BY VramAssumption, NextRow, SMT DEF Transfer
<1>2. /\ u \in Transfer /\ Cursor(u) /\ u.pixels_left = t.pixels_left - 1
      /\ u.x = t.x /\ u.y = t.y /\ u.w = t.w /\ u.h = t.h
    BY <1>1, AdvanceSound, AdvanceStays
<1> HIDE DEF u
<1>3. u.pixels_left > 0
    BY <1>1, <1>2, SMT
<1>4. TR!Pick(Rest(u, u.pixels_left), 0) = At(u)
    BY <1>2, <1>3, CursorPicks
<1>5. t.w * t.h - (t.pixels_left - 1) + 0 = t.w * t.h - t.pixels_left + 1
    BY <1>1, SMT
<1>6. TR!Pick(Rest(u, u.pixels_left), 0) = TR!Pick(Rest(t, t.pixels_left), 1)
    BY <1>2, <1>5 DEF TR!Pick, Rest
<1> QED BY <1>4, <1>6 DEF u

LEMMA LeftActive ==
    \A t : t.active /\ t.pixels_left > 0 => Left(t) = Rest(t, t.pixels_left)
BY DEF Left, Rest

LEMMA LeftNothing == \A t : ~(t.active /\ t.pixels_left > 0) => Left(t) = TR!Nothing
BY DEF Left, TR!Nothing

\* A transfer that a command starts is a whole rectangle, or nothing.
LEMMA StartIsWhole ==
    ASSUME NEW c \in Word, NEW s \in Word
    PROVE  Left(StartOf(c, s)) \in TR!Whole
<1> DEFINE t == StartOf(c, s)
<1>1. t \in Transfer /\ t.active /\ t.pixels_left = t.w * t.h
    BY StartSound
<1> HIDE DEF t
<1>2. CASE t.pixels_left > 0
    <2>1. Left(t) = Rest(t, t.pixels_left)
        BY <1>1, <1>2, LeftActive
    <2>2. t.pixels_left \in Nat
        BY <1>1, VramAssumption, SMT DEF Transfer
    <2>3. Rest(t, t.pixels_left) \in TR!Block
        BY <1>1, <2>2 DEF Rest, TR!Block, TR!Column, TR!Row, Transfer
    <2> QED BY <1>1, <2>1, <2>3 DEF TR!Whole, Rest, t
<1>3. CASE ~(t.pixels_left > 0)
    BY <1>3, LeftNothing DEF TR!Whole, t
<1> QED BY <1>2, <1>3

\* What is left of a rectangle after a word.
LEMMA LeftAfter ==
    ASSUME NEW t \in Transfer, t.active, t.pixels_left > 0, NEW u \in Transfer,
           u.x = t.x, u.y = t.y, u.w = t.w, u.h = t.h,
           u.pixels_left = IF t.pixels_left > 1 THEN t.pixels_left - 2 ELSE 0
    PROVE  /\ Left(u) \in {TR!After(Left(t)), TR!Nothing}
           /\ u.active \/ t.pixels_left <= 2 => Left(u) = TR!After(Left(t))
<1>1. Left(t) = Rest(t, t.pixels_left) /\ t.pixels_left \in Nat
    BY LeftActive, VramAssumption, SMT DEF Transfer
<1>2. TR!After(Left(t)) = IF t.pixels_left > 2 THEN Rest(t, t.pixels_left - 2) ELSE TR!Nothing
    BY <1>1 DEF TR!After, Rest
<1>3. CASE u.active /\ t.pixels_left > 2
    <2>1. u.pixels_left = t.pixels_left - 2 /\ u.pixels_left > 0
        BY <1>1, <1>3, SMT
    <2>2. Left(u) = Rest(u, u.pixels_left)
        BY <1>3, <2>1, LeftActive
    <2> QED BY <1>2, <1>3, <2>1, <2>2 DEF Rest
<1>4. CASE ~(u.active /\ t.pixels_left > 2)
    <2>1. ~(u.active /\ u.pixels_left > 0)
        BY <1>1, <1>4, SMT
    <2>2. Left(u) = TR!Nothing
        BY <2>1, LeftNothing
    <2>3. t.pixels_left <= 2 => ~(t.pixels_left > 2)
        BY <1>1, SMT
    <2> QED BY <1>2, <1>4, <2>2, <2>3
<1> QED BY <1>3, <1>4

\* The word that is read holds the next pixels, and the transfer goes on or ends with
\* the last of them.
LEMMA ReadRefines == GpuInv /\ gp0_read => TR!ReadWord \/ TR!Answer
<1> SUFFICES ASSUME GpuInv, gp0_read PROVE TR!ReadWord \/ TR!Answer
    OBVIOUS
<1> DEFINE t == vram_read
           u == vram_read'
<1>1. /\ t \in Transfer /\ Cursor(t) /\ t.active /\ u = ReadOn(t) /\ gpu_read' = Pack(t)
      /\ UNCHANGED <<vram, vram_write>>
      /\ t.words_left = (t.pixels_left + 1) \div 2 \/ t.w * t.h = 0
    BY DEF GpuInv, GpuTypeOK, gp0_read, ReadCountsAgree
<1>2. u \in Transfer
    BY <1>1, ReadOnSound DEF GpuInv, ReadCountsAgree
<1>3. /\ u.x = t.x /\ u.y = t.y /\ u.w = t.w /\ u.h = t.h
      /\ u.pixels_left = IF t.pixels_left > 1 THEN t.pixels_left - 2 ELSE 0
      /\ u.active <=> (t.words_left - 1) % CountMod # 0
    BY <1>1, ReadOnMoves
<1>4. t.pixels_left \in Nat /\ t.words_left \in 0 .. CountMod - 1 /\ CountMod \in Nat
    BY <1>1, VramAssumption, SMT DEF Transfer
<1>5. CASE t.pixels_left > 0
    <2>1. t.w * t.h # 0
        <3>1. t.w \in Nat /\ t.h \in Nat /\ t.w > 0 /\ t.h > 0
            BY <1>1, <1>5, VramAssumption, SMT DEF Transfer, Cursor
        <3> QED BY <3>1, SMT
    <2>2. t.words_left = (t.pixels_left + 1) \div 2
        BY <1>1, <2>1
    <2>3. t.pixels_left > 2 => u.active
        <3> HIDE DEF t, u
        <3>1. t.pixels_left > 2 => t.words_left > 1
            BY <1>4, <2>2, SMT
        <3>2. t.words_left > 1 => (t.words_left - 1) % CountMod = t.words_left - 1
            BY <1>4, SMT
        <3> QED BY <1>3, <1>4, <3>1, <3>2, SMT
    <2>4. Left(u) = TR!After(Left(t))
        <3>1. u.active \/ t.pixels_left <= 2
            BY <1>4, <2>3, SMT
        <3> HIDE DEF t, u
        <3> QED BY <1>1, <1>2, <1>3, <1>5, <3>1, LeftAfter
    <2>5. Left(t) = Rest(t, t.pixels_left)
        BY <1>1, <1>5, LeftActive
    <2>6. TR!Pick(Left(t), 0) = At(t)
        BY <1>1, <1>5, <2>5, CursorPicks
    <2>7. t.pixels_left > 1 => TR!Pick(Left(t), 1) = At(Advance(t))
        BY <1>1, <2>5, NextPicks
    <2>8. Left(t).left = t.pixels_left
        BY <2>5 DEF Rest
    <2>9. gpu_read' = [lo |-> vram[TR!Pick(Left(t), 0)],
                       hi |-> IF Left(t).left > 1 THEN vram[TR!Pick(Left(t), 1)] ELSE 0]
        BY <1>1, <1>5, <2>6, <2>7, <2>8 DEF Pack
    <2> QED BY <1>1, <1>5, <2>4, <2>8, <2>9 DEF TR!ReadWord
<1>6. CASE ~(t.pixels_left > 0)
    <2>1. ~(t.pixels_left > 1)
        BY <1>4, <1>6, SMT
    <2>2. Left(t) = TR!Nothing /\ Left(u) = TR!Nothing
        BY <1>3, <1>6, <2>1, LeftNothing
    <2>3. gpu_read' = [lo |-> 0, hi |-> 0]
        BY <1>1, <1>6, <2>1 DEF Pack
    <2> QED BY <1>1, <2>2, <2>3, VramAssumption DEF TR!Answer
<1> QED BY <1>5, <1>6

\* The word that is written goes to the next pixels, and to no other.
LEMMA WriteRefines ==
    ASSUME GpuInv, NEW v \in Pixels, gp0_write_vram_data(v)
    PROVE  TR!WriteWord \/ UNCHANGED TR!tvars
<1> DEFINE t == vram_write
           u == vram_write'
<1>1. /\ t \in Transfer /\ Cursor(t) /\ t.active
      /\ UNCHANGED <<vram_read, gpu_read>>
    BY DEF GpuInv, GpuTypeOK, gp0_write_vram_data
<1>2. /\ vram' \in [Place -> Half] /\ u \in Transfer
      /\ u.x = t.x /\ u.y = t.y /\ u.w = t.w /\ u.h = t.h
      /\ u.pixels_left = IF t.pixels_left > 1 THEN t.pixels_left - 2 ELSE 0
      /\ t.pixels_left = 0 => vram' = vram
      /\ \A q \in Place : vram'[q] # vram[q] =>
            \/ t.pixels_left > 0 /\ q = At(t)
            \/ t.pixels_left > 1 /\ q = At(Advance(t))
    BY WordWritten
<1>3. t.pixels_left \in Nat
    BY <1>1, VramAssumption, SMT DEF Transfer
<1>4. CASE t.pixels_left > 0
    <2>1. Left(u) \in {TR!After(Left(t)), TR!Nothing}
        <3> HIDE DEF t, u
        <3> QED BY <1>1, <1>2, <1>4, LeftAfter
    <2>2. Left(t) = Rest(t, t.pixels_left)
        BY <1>1, <1>4, LeftActive
    <2>3. TR!Pick(Left(t), 0) = At(t)
        BY <1>1, <1>4, <2>2, CursorPicks
    <2>4. t.pixels_left > 1 => TR!Pick(Left(t), 1) = At(Advance(t))
        BY <1>1, <2>2, NextPicks
    <2>5. Left(t).left = t.pixels_left
        BY <2>2 DEF Rest
    <2>6. Place = TR!Column \X TR!Row
        BY DEF Place, TR!Column, TR!Row
    <2>7. \A q \in Place : vram'[q] # vram[q] =>
              q = TR!Pick(Left(t), 0) \/ (Left(t).left > 1 /\ q = TR!Pick(Left(t), 1))
        BY <1>2, <2>3, <2>4, <2>5
    <2> QED BY <1>1, <1>2, <1>4, <2>1, <2>5, <2>6, <2>7 DEF TR!WriteWord
<1>5. CASE ~(t.pixels_left > 0)
    <2>1. t.pixels_left = 0 /\ u.pixels_left = 0
        BY <1>2, <1>3, <1>5, SMT
    <2>2. Left(t) = TR!Nothing /\ Left(u) = TR!Nothing
        BY <1>5, <2>1, LeftNothing
    <2> QED BY <1>1, <1>2, <2>1, <2>2 DEF TR!tvars
<1> QED BY <1>4, <1>5

\* A command starts at most one transfer, and a write only when none is running.
LEMMA CommandRefines ==
    ASSUME GpuInv, NEW v \in Words, gp0_write_command(v)
    PROVE  TR!StartRead \/ TR!StartWrite \/ UNCHANGED TR!tvars
<1> DEFINE buf == Append(gp0_buffer, v)
           expected == IF gp0_buffer = <<>> THEN gp0_word_count(CmdOf(v)) ELSE gp0_expected
<1>1. ~vram_write.active /\ UNCHANGED <<vram, gpu_read>>
    BY DEF gp0_write_command
<1>2. gp0_buffer \in Seq(Words)
    BY DEF GpuInv, GpuTypeOK
<1>3. /\ Len(buf) = Len(gp0_buffer) + 1 /\ Len(buf) \in Nat
      /\ \A k \in 1 .. Len(buf) : buf[k] \in Words
    BY <1>2
<1>4. expected = gp0_word_count(CmdOf(buf[1]))
    BY <1>2 DEF GpuInv, BufferBounded
<1> HIDE DEF buf, expected
<1>5. CASE UNCHANGED <<vram_read, vram_write>>
    BY <1>1, <1>5 DEF TR!tvars, Left
<1>6. CASE Len(buf) >= expected /\ gp0_execute(buf)
    <2> DEFINE cmd == CmdOf(buf[1])
               start == StartOf(buf[2], buf[3])
    <2>1. /\ vram_write' = IF cmd = "vram_write" THEN start ELSE vram_write
          /\ vram_read' = IF cmd = "vram_read" THEN start ELSE vram_read
        BY <1>6 DEF gp0_execute
    <2>2. ASSUME cmd \in {"vram_write", "vram_read"} PROVE Left(start) \in TR!Whole
        <3>1. expected = 3
            BY <1>4, <2>2 DEF gp0_word_count
        <3>2. buf[2] \in Word /\ buf[3] \in Word
            BY <1>3, <1>6, <3>1, CommandAssumption, SMT
        <3> QED BY <3>2, StartIsWhole
    <2> HIDE DEF cmd, start
    <2>3. CASE cmd = "vram_write"
        <3>1. vram_read' = vram_read /\ vram_write' = start
            BY <2>1, <2>3
        <3>2. Left(vram_write).left = 0
            BY <1>1, LeftNothing DEF TR!Nothing
        <3> QED BY <1>1, <2>2, <2>3, <3>1, <3>2 DEF TR!StartWrite
    <2>4. CASE cmd = "vram_read"
        <3>1. vram_read' = start /\ vram_write' = vram_write
            BY <2>1, <2>4
        <3> QED BY <1>1, <2>2, <2>4, <3>1 DEF TR!StartRead
    <2>5. CASE cmd \notin {"vram_write", "vram_read"}
        BY <1>5, <2>1, <2>5
    <2> QED BY <2>3, <2>4, <2>5
<1> QED BY <1>5, <1>6 DEF gp0_write_command, buf, expected

LEMMA GpuRefines == GpuInv /\ [GpuNext]_gvars => [TR!Next]_(TR!tvars)
<1> SUFFICES ASSUME GpuInv, [GpuNext]_gvars PROVE [TR!Next]_(TR!tvars)
    OBVIOUS
<1>1. CASE gp0_read
    BY <1>1, ReadRefines DEF TR!Next
<1>2. ASSUME NEW v \in Pixels, gp0_write_vram_data(v) PROVE [TR!Next]_(TR!tvars)
    BY <1>2, WriteRefines DEF TR!Next
<1>3. ASSUME NEW v \in Words, gp0_write_command(v) PROVE [TR!Next]_(TR!tvars)
    BY <1>3, CommandRefines DEF TR!Next
<1>4. CASE gp1_set_gpu_read
    <2>1. gpu_read' \in Word
        BY <1>4, VramAssumption DEF gp1_set_gpu_read, GpuInv, GpuTypeOK, Word, Zero
    <2>2. TR!Answer
        BY <1>4, <2>1 DEF gp1_set_gpu_read, TR!Answer, Word
    <2> QED BY <2>2 DEF TR!Next
<1>5. CASE gpu_reset
    <2>1. vram' = TR!Blank /\ UNCHANGED <<vram_read, vram_write, gpu_read>>
        BY <1>5 DEF gpu_reset, TR!Blank, TR!Column, TR!Row, Place
    <2>2. TR!Reset
        BY <2>1 DEF TR!Reset
    <2> QED BY <2>2 DEF TR!Next
<1>6. ASSUME UNCHANGED <<vram, vram_read, vram_write, gpu_read>> PROVE [TR!Next]_(TR!tvars)
    BY <1>6 DEF TR!tvars
<1>7. CASE gp1_reset
    BY <1>6, <1>7 DEF gp1_reset
<1>8. CASE gp0_clear_fifo
    BY <1>6, <1>8 DEF gp0_clear_fifo
<1>9. ASSUME NEW d \in Directions, gp1_dma_direction(d) PROVE [TR!Next]_(TR!tvars)
    BY <1>6, <1>9 DEF gp1_dma_direction
<1>10. CASE UNCHANGED gvars
    BY <1>6, <1>10 DEF gvars
<1> QED BY <1>1, <1>2, <1>3, <1>4, <1>5, <1>7, <1>8, <1>9, <1>10 DEF GpuNext

\* At first there is no transfer and video memory is clear.
LEMMA StartRefines == GpuInit => TR!Init
<1> SUFFICES ASSUME GpuInit PROVE TR!Init
    OBVIOUS
<1>1. vram = TR!Blank
    BY DEF GpuInit, TR!Blank, TR!Column, TR!Row, Place
<1>2. Left(vram_read) = TR!Nothing /\ Left(vram_write) = TR!Nothing
    BY LeftNothing DEF GpuInit, Idle
<1> QED BY <1>1, <1>2 DEF GpuInit, Zero, TR!Init

\* What gp0.c does to video memory with cursors and two counters is what Transfers
\* promises: rectangles taken row by row, each pixel once, wrapping at the edges.
THEOREM TransferRefinement == GpuSpec => ImplementsTransfers
<1>1. GpuSpec => TR!Spec
    BY StartRefines, GpuRefines, GpuInvariance, PTL DEF GpuSpec, TR!Spec
<1> QED BY <1>1 DEF ImplementsTransfers
==============================================================================
