----------------------------- MODULE ProgramProofs -----------------------------
(***************************************************************************)
(* Proofs about running programs, for every program, memory and register   *)
(* file.  Calls: the frames a program opens on the stack of page one come  *)
(* back whole, when the program leaves them alone.  System: a device whose *)
(* registers change when they are read or written, and that moves the IRQ  *)
(* pin inside the bus cycle that reaches it, takes no guarantee of module  *)
(* Interrupts away.                                                        *)
(***************************************************************************)
EXTENDS Calls, System, IsaProofs

-----------------------------------------------------------------------------
(* A byte of the stack below another, counted down; the address a return   *)
(* comes back from; and what the memory holds of a frame.                   *)
Under(b, s) == U8(b - s)
Bottom(b, f) == Under(b, f.regs.s) + Size(f)
Resume(f) == IF f.kind = "call" THEN U16(f.back - 1) ELSE f.back

SavedIn(m, f) ==
  LET s == f.regs.s
  IN  /\ At(m, StackAddr(s)) = Page(Resume(f))
      /\ At(m, StackAddr(U8(s - 1))) = U8(Resume(f))
      /\ f.kind = "interrupt" =>
           \E b \in BOOLEAN : At(m, StackAddr(U8(s - 2))) = Pack(f.regs, f.i, b)

(* The open frames fs, from the outermost on, lie one below the other in    *)
(* page one and above s, and the memory m holds each of them.              *)
Nested(fs, s) ==
  LET b == fs[1].regs.s
      n == Len(fs)
  IN  /\ \A k \in 1 .. n : \A j \in 1 .. k - 1 : Bottom(b, fs[j]) <= Under(b, fs[k].regs.s)
      /\ n > 0 => Bottom(b, fs[n]) <= Under(b, s) /\ Under(b, s) <= 252

Kept(fs, m, s) == Nested(fs, s) /\ \A k \in 1 .. Len(fs) : SavedIn(m, fs[k])

Frames == [kind : {"call", "interrupt"}, back : Word, regs : Registers, i : BOOLEAN]


-----------------------------------------------------------------------------
(* Distances on the stack: it is a ring of 256 bytes, and distances from    *)
(* the outermost caller tell its bytes apart.                              *)
LEMMA UnderByte ==
  ASSUME NEW b \in Byte, NEW s \in Byte
  PROVE  Under(b, s) \in Byte /\ Under(b, b) = 0
<1>1. b \in Int /\ s \in Int /\ b - s \in Int /\ b - b = 0
  BY ByteRange
<1>2. Under(b, s) \in Byte
  BY <1>1, U8Byte DEF Under
<1> QED
  BY <1>1, <1>2 DEF Under, U8

LEMMA Deeper ==
  ASSUME NEW b \in Byte, NEW s \in Byte, NEW k \in 0 .. 3, Under(b, s) + k <= 255
  PROVE  U8(s - k) \in Byte /\ Under(b, U8(s - k)) = Under(b, s) + k
<1>1. b \in Int /\ 0 <= b /\ b <= 255 /\ s \in Int /\ 0 <= s /\ s <= 255 /\ k \in Int /\ 0 <= k /\ k <= 3
  BY ByteRange
<1>2. s - k \in Int
  BY <1>1
<1>3. U8(s - k) \in Byte
  BY <1>2, U8Byte
<1>4. U8(s - k) = IF k <= s THEN s - k ELSE s - k + 256
  BY <1>1 DEF U8
<1>5. Under(b, s) = IF s <= b THEN b - s ELSE b - s + 256
  BY <1>1 DEF Under, U8
<1> DEFINE u == U8(s - k)
<1> HIDE DEF u
<1>6. u \in Int /\ 0 <= u /\ u <= 255
  BY <1>3, ByteRange DEF u
<1>7. Under(b, u) = IF u <= b THEN b - u ELSE b - u + 256
  BY <1>1, <1>6 DEF Under, U8
<1>8. Under(b, u) = Under(b, s) + k
  BY <1>1, <1>4, <1>5, <1>7 DEF u
<1> QED
  BY <1>3, <1>8 DEF u

LEMMA Apart ==
  ASSUME NEW b, NEW p \in Byte, NEW q \in Byte, Under(b, p) # Under(b, q)
  PROVE  StackAddr(p) # StackAddr(q)
<1>1. p \in Int /\ q \in Int /\ p # q
  BY ByteRange
<1> QED
  BY <1>1 DEF StackAddr

LEMMA SizeRange ==
  ASSUME NEW f \in Frames
  PROVE  /\ Size(f) \in {2, 3} /\ (f.kind = "call" <=> Size(f) = 2) /\ (f.kind = "interrupt" <=> Size(f) = 3)
         /\ f.regs \in Registers /\ f.regs.s \in Byte /\ f.back \in Word /\ f.i \in BOOLEAN
BY DEF Frames, Size, Registers

(* What a frame holds stays when its slots do. *)
LEMMA SavedStays ==
  ASSUME NEW m, NEW n, NEW f \in Frames, SavedIn(m, f),
         \A addr \in Slots(f) : At(n, addr) = At(m, addr)
  PROVE  SavedIn(n, f)
<1> DEFINE s == f.regs.s
<1>1. s \in Byte /\ s - 0 = s /\ U8(s) = s
  BY SizeRange, ByteRange DEF U8
<1>2. ASSUME NEW k \in {0, 1, 2}, k < Size(f)
      PROVE  At(n, StackAddr(U8(s - k))) = At(m, StackAddr(U8(s - k)))
  <2>1. k \in 0 .. Size(f) - 1
    BY <1>2, SizeRange
  <2> QED
    BY <2>1 DEF Slots
<1>3. At(n, StackAddr(s)) = At(m, StackAddr(s)) /\ At(n, StackAddr(U8(s - 1))) = At(m, StackAddr(U8(s - 1)))
  <2>1. 0 < Size(f) /\ 1 < Size(f)
    BY SizeRange
  <2>2. At(n, StackAddr(U8(s - 0))) = At(m, StackAddr(U8(s - 0)))
    BY <1>2, <2>1
  <2> QED
    BY <1>1, <1>2, <2>1, <2>2
<1>4. f.kind = "interrupt" => At(n, StackAddr(U8(s - 2))) = At(m, StackAddr(U8(s - 2)))
  <2>1. f.kind = "interrupt" => 2 < Size(f)
    BY SizeRange
  <2> QED
    BY <1>2, <2>1
<1> QED
  BY <1>3, <1>4 DEF SavedIn

(* The frames lie above S: pushing k bytes on touches none of their slots. *)
LEMMA NestedBounds ==
  ASSUME NEW fs \in Seq(Frames), NEW s \in Byte, Nested(fs, s), NEW j \in 1 .. Len(fs)
  PROVE  /\ fs[1].regs.s \in Byte /\ fs[j] \in Frames
         /\ Bottom(fs[1].regs.s, fs[j]) <= Under(fs[1].regs.s, s)
         /\ Under(fs[1].regs.s, s) \in Byte /\ Under(fs[1].regs.s, s) <= 252
         /\ Under(fs[1].regs.s, fs[j].regs.s) \in Byte
<1> DEFINE b == fs[1].regs.s
           n == Len(fs)
<1>1. n \in Nat /\ n > 0 /\ \A k \in 1 .. n : fs[k] \in Frames
  OBVIOUS
<1>2. 1 \in 1 .. n /\ n \in 1 .. n /\ (j = n \/ j \in 1 .. n - 1)
  BY <1>1
<1>3. fs[1] \in Frames /\ fs[n] \in Frames /\ fs[j] \in Frames
  BY <1>1, <1>2
<1>4. b \in Byte /\ fs[n].regs.s \in Byte /\ fs[j].regs.s \in Byte /\ Size(fs[j]) \in {2, 3}
      /\ Size(fs[n]) \in {2, 3}
  BY <1>3, SizeRange
<1>5. /\ Under(b, s) \in Byte /\ Under(b, fs[n].regs.s) \in Byte /\ Under(b, fs[j].regs.s) \in Byte
  BY <1>4, UnderByte
<1>6. /\ \A k \in 1 .. n : \A i \in 1 .. k - 1 : Bottom(b, fs[i]) <= Under(b, fs[k].regs.s)
      /\ Bottom(b, fs[n]) <= Under(b, s) /\ Under(b, s) <= 252
  BY <1>1 DEF Nested
<1> HIDE DEF b, n
<1>7. j # n => Bottom(b, fs[j]) <= Under(b, fs[n].regs.s)
  BY <1>2, <1>6
<1>8. Bottom(b, fs[j]) <= Under(b, s)
  BY <1>4, <1>5, <1>6, <1>7, ByteRange DEF Bottom
<1> QED
  BY <1>3, <1>4, <1>5, <1>6, <1>8 DEF b

LEMMA PushesMiss ==
  ASSUME NEW fs \in Seq(Frames), NEW s \in Byte, Nested(fs, s),
         NEW j \in 1 .. Len(fs), NEW k \in {0, 1, 2}
  PROVE  StackAddr(U8(s - k)) \notin Slots(fs[j])
<1> DEFINE b == fs[1].regs.s
           f == fs[j]
<1>1. /\ b \in Byte /\ f \in Frames /\ Bottom(b, f) <= Under(b, s)
      /\ Under(b, s) \in Byte /\ Under(b, s) <= 252 /\ Under(b, f.regs.s) \in Byte
  BY NestedBounds
<1> HIDE DEF b, f
<1>2. Size(f) \in {2, 3} /\ f.regs.s \in Byte
  BY <1>1, SizeRange
<1>3. Under(b, s) \in Int /\ 0 <= Under(b, f.regs.s) /\ Under(b, f.regs.s) \in Int
  BY <1>1, ByteRange
<1>4. k \in 0 .. 3 /\ Under(b, s) + k <= 255
  BY <1>1, <1>3
<1>5. U8(s - k) \in Byte /\ Under(b, U8(s - k)) = Under(b, s) + k
  BY <1>1, <1>4, Deeper
<1> SUFFICES ASSUME NEW i \in 0 .. Size(f) - 1
             PROVE  StackAddr(U8(s - k)) # StackAddr(U8(f.regs.s - i))
  BY DEF Slots, f
<1>6. i \in 0 .. 3 /\ Under(b, f.regs.s) + i < Bottom(b, f)
  BY <1>2, <1>3 DEF Bottom
<1>7. Under(b, f.regs.s) + i <= 255
  BY <1>1, <1>2, <1>3, <1>6 DEF Bottom
<1>8. U8(f.regs.s - i) \in Byte /\ Under(b, U8(f.regs.s - i)) = Under(b, f.regs.s) + i
  BY <1>1, <1>2, <1>6, <1>7, Deeper
<1>9. Under(b, U8(s - k)) # Under(b, U8(f.regs.s - i))
  BY <1>1, <1>2, <1>3, <1>5, <1>6, <1>8 DEF Bottom
<1> QED
  BY <1>5, <1>8, <1>9, Apart

(* S and the memory move on, the frames stay. *)
LEMMA KeptStays ==
  ASSUME NEW fs \in Seq(Frames), NEW m, NEW n, NEW s, NEW r, Kept(fs, m, s),
         \A j \in 1 .. Len(fs) : \A addr \in Slots(fs[j]) : At(n, addr) = At(m, addr),
         fs # <<>> => /\ Bottom(fs[1].regs.s, fs[Len(fs)]) <= Under(fs[1].regs.s, r)
                      /\ Under(fs[1].regs.s, r) <= 252
  PROVE  Kept(fs, n, r)
<1>1. Nested(fs, r)
  <2>1. Len(fs) > 0 => fs # <<>>
    OBVIOUS
  <2> QED
    BY <2>1 DEF Kept, Nested
<1>2. ASSUME NEW j \in 1 .. Len(fs) PROVE SavedIn(n, fs[j])
  <2>1. fs[j] \in Frames
    OBVIOUS
  <2> QED
    BY <2>1, SavedStays DEF Kept
<1> QED
  BY <1>1, <1>2 DEF Kept

(* A frame opens at S: its bytes are saved there, and nothing above moves. *)
LEMMA KeptOpens ==
  ASSUME NEW fs \in Seq(Frames), NEW f \in Frames, NEW m, NEW n, Kept(fs, m, f.regs.s), SavedIn(n, f),
         \A addr : (\A k \in {0, 1, 2} : addr # StackAddr(U8(f.regs.s - k))) => At(n, addr) = At(m, addr),
         Under(Append(fs, f)[1].regs.s, U8(f.regs.s - Size(f))) <= 252
  PROVE  Append(fs, f) \in Seq(Frames) /\ Kept(Append(fs, f), n, U8(f.regs.s - Size(f)))
<1> DEFINE gs == Append(fs, f)
           l  == Len(fs)
           b  == gs[1].regs.s
           s  == f.regs.s
           r  == U8(s - Size(f))
<1>1. /\ gs \in Seq(Frames) /\ l \in Nat /\ Len(gs) = l + 1 /\ gs[l + 1] = f
      /\ \A k \in 1 .. l : gs[k] = fs[k] /\ fs[k] \in Frames
  OBVIOUS
<1>2. l = 0 => gs[1] = f
  BY <1>1
<1>3. l > 0 => gs[1] = fs[1] /\ 1 \in 1 .. l
  BY <1>1
<1>4. s \in Byte /\ Size(f) \in {2, 3}
  BY SizeRange
<1>5. Under(b, r) <= 252
  OBVIOUS
<1> HIDE DEF gs
<1>6. b \in Byte
  BY <1>1, <1>2, <1>3, <1>4, SizeRange
<1>7. Under(b, s) \in Byte /\ Under(b, s) <= 252
  <2>1. CASE l = 0
    BY <1>2, <1>4, <2>1, UnderByte, ByteRange
  <2>2. CASE l > 0
    BY <1>3, <1>4, <2>2, NestedBounds DEF Kept
  <2> QED
    BY <1>1, <2>1, <2>2
<1> HIDE DEF l
<1>8. \A j \in 1 .. l : Bottom(b, fs[j]) <= Under(b, s)
  <2> SUFFICES ASSUME NEW j \in 1 .. l PROVE Bottom(b, fs[j]) <= Under(b, s)
    OBVIOUS
  <2>1. l > 0
    BY <1>1
  <2>2. b = fs[1].regs.s
    BY <1>3, <2>1
  <2> QED
    BY <1>4, <2>2, NestedBounds DEF Kept, l
<1> DEFINE d == Under(b, s)
<1>9. Under(b, r) = d + Size(f)
  <2>1. Size(f) \in 0 .. 3 /\ d + Size(f) <= 255
    BY <1>4, <1>7, ByteRange
  <2> QED
    BY <1>4, <1>6, <2>1, Deeper
<1>10. \A k \in 1 .. l + 1 : \A j \in 1 .. k - 1 : Bottom(b, gs[j]) <= Under(b, gs[k].regs.s)
  <2> SUFFICES ASSUME NEW k \in 1 .. l + 1, NEW j \in 1 .. k - 1
               PROVE  Bottom(b, gs[j]) <= Under(b, gs[k].regs.s)
    OBVIOUS
  <2>1. j \in 1 .. l /\ (k = l + 1 \/ k \in 1 .. l)
    BY <1>1
  <2>2. CASE k = l + 1
    BY <1>1, <1>8, <2>1, <2>2
  <2>3. CASE k \in 1 .. l
    <3>1. gs[j] = fs[j] /\ gs[k] = fs[k] /\ b = fs[1].regs.s
      BY <1>1, <1>3, <2>1, <2>3
    <3>2. Bottom(fs[1].regs.s, fs[j]) <= Under(fs[1].regs.s, fs[k].regs.s)
      BY <2>3 DEF Kept, Nested, l
    <3> QED
      BY <3>1, <3>2
  <2> QED
    BY <2>1, <2>2, <2>3
<1>11. Nested(gs, r)
  <2>1. Bottom(b, gs[l + 1]) = d + Size(f) /\ d + Size(f) \in Int
    BY <1>1, <1>4, <1>7, ByteRange DEF Bottom
  <2>2. Bottom(b, gs[l + 1]) <= Under(b, r)
    BY <1>9, <2>1
  <2> HIDE DEF r
  <2> QED
    BY <1>1, <1>5, <1>10, <2>2 DEF Nested
<1>12. ASSUME NEW j \in 1 .. l PROVE SavedIn(n, gs[j])
  <2>1. gs[j] = fs[j] /\ fs[j] \in Frames /\ SavedIn(m, fs[j])
    BY <1>1 DEF Kept, l
  <2>2. ASSUME NEW addr \in Slots(fs[j]) PROVE At(n, addr) = At(m, addr)
    <3>1. \A k \in {0, 1, 2} : StackAddr(U8(s - k)) \notin Slots(fs[j])
      BY <1>4, PushesMiss DEF Kept, l
    <3> QED
      BY <3>1
  <2> QED
    BY <2>1, <2>2, SavedStays
<1>13. SavedIn(n, gs[l + 1])
  BY <1>1
<1>14. \A j \in 1 .. Len(gs) : SavedIn(n, gs[j])
  BY <1>1, <1>12, <1>13
<1> QED
  BY <1>1, <1>11, <1>14 DEF Kept, gs

LEMMA Fewer ==
  ASSUME NEW S, NEW q \in Seq(S), NEW n \in Nat, n < Len(q)
  PROVE  /\ SubSeq(q, 1, n) \in Seq(S) /\ Len(SubSeq(q, 1, n)) = n
         /\ \A k \in 1 .. n : SubSeq(q, 1, n)[k] = q[k]
<1>1. SubSeq(q, 1, n) \in Seq(S)
  OBVIOUS
<1>2. Len(SubSeq(q, 1, n)) = n
  OBVIOUS
<1>3. \A k \in 1 .. n : SubSeq(q, 1, n)[k] = q[k]
  OBVIOUS
<1> QED
  BY <1>1, <1>2, <1>3

(* The innermost frame closes: S is that of its caller again. *)
LEMMA KeptCloses ==
  ASSUME NEW fs \in Seq(Frames), fs # <<>>, NEW m, NEW s \in Byte, Kept(fs, m, s)
  PROVE  /\ SubSeq(fs, 1, Len(fs) - 1) \in Seq(Frames)
         /\ Kept(SubSeq(fs, 1, Len(fs) - 1), m, fs[Len(fs)].regs.s)
<1> DEFINE l  == Len(fs)
           gs == SubSeq(fs, 1, l - 1)
           b  == fs[1].regs.s
           r  == fs[l].regs.s
<1>1. l \in Nat /\ l > 0
  OBVIOUS
<1>2. gs \in Seq(Frames) /\ Len(gs) = l - 1 /\ \A k \in 1 .. l - 1 : gs[k] = fs[k]
  <2>1. l - 1 \in Nat /\ l - 1 < Len(fs)
    BY <1>1
  <2> QED
    BY <2>1, Fewer
<1>3. \A k \in 1 .. l : SavedIn(m, fs[k])
  BY DEF Kept
<1>4. \A k \in 1 .. l : \A j \in 1 .. k - 1 : Bottom(b, fs[j]) <= Under(b, fs[k].regs.s)
  BY DEF Kept, Nested
<1>5. /\ Bottom(b, fs[l]) <= Under(b, s) /\ Under(b, s) \in Byte /\ Under(b, s) <= 252
      /\ Under(b, r) \in Byte /\ Size(fs[l]) \in {2, 3}
  <2>1. l \in 1 .. l
    BY <1>1
  <2> QED
    BY <2>1, NestedBounds, SizeRange DEF Kept
<1>6. Under(b, r) <= 252
  BY <1>5, ByteRange DEF Bottom
<1> HIDE DEF gs, r
<1>7. Nested(gs, r)
  <2>1. ASSUME l - 1 > 0 PROVE gs[1] = fs[1] /\ gs[l - 1] = fs[l - 1] /\ l \in 1 .. l /\ l - 1 \in 1 .. l - 1
    BY <1>1, <1>2, <2>1
  <2>2. l - 1 > 0 => Bottom(b, gs[l - 1]) <= Under(b, r) /\ gs[1].regs.s = b
    BY <1>4, <2>1 DEF r
  <2>3. ASSUME NEW k \in 1 .. l - 1, NEW j \in 1 .. k - 1
        PROVE  Bottom(gs[1].regs.s, gs[j]) <= Under(gs[1].regs.s, gs[k].regs.s)
    <3>1. j \in 1 .. l - 1 /\ k \in 1 .. l /\ l - 1 > 0
      BY <1>1
    <3>2. gs[j] = fs[j] /\ gs[k] = fs[k] /\ gs[1] = fs[1]
      BY <1>2, <2>1, <3>1
    <3> QED
      BY <1>4, <3>1, <3>2
  <2> QED
    BY <1>2, <1>6, <2>2, <2>3 DEF Nested
<1>8. \A k \in 1 .. Len(gs) : SavedIn(m, gs[k])
  BY <1>1, <1>2, <1>3
<1> QED
  BY <1>2, <1>7, <1>8 DEF Kept, gs, r

-----------------------------------------------------------------------------
(* What JSR and the entries save. *)
LEMMA PutHere == ASSUME NEW m, NEW a, NEW v PROVE At(Put(m, a, v), a) = v
BY DEF Put, At

LEMMA ThreeApart ==
  ASSUME NEW s \in Byte
  PROVE  /\ U8(s) = s /\ U8(s - 1) \in Byte /\ U8(s - 2) \in Byte
         /\ StackAddr(s) # StackAddr(U8(s - 1)) /\ StackAddr(s) # StackAddr(U8(s - 2))
         /\ StackAddr(U8(s - 1)) # StackAddr(U8(s - 2))
<1>1. Under(s, s) = 0
  BY UnderByte
<1>2. 1 \in 0 .. 3 /\ 2 \in 0 .. 3 /\ 0 + 1 <= 255 /\ 0 + 2 <= 255
  OBVIOUS
<1>3. U8(s - 1) \in Byte /\ Under(s, U8(s - 1)) = 0 + 1
  BY <1>1, <1>2, Deeper
<1>4. U8(s - 2) \in Byte /\ Under(s, U8(s - 2)) = 0 + 2
  BY <1>1, <1>2, Deeper
<1>5. U8(s) = s
  BY ByteRange DEF U8
<1>6. StackAddr(s) # StackAddr(U8(s - 1))
  BY <1>1, <1>3, Apart
<1>7. StackAddr(s) # StackAddr(U8(s - 2))
  BY <1>1, <1>4, Apart
<1>8. StackAddr(U8(s - 1)) # StackAddr(U8(s - 2))
  BY <1>3, <1>4, Apart
<1> QED
  BY <1>3, <1>4, <1>5, <1>6, <1>7, <1>8

LEMMA WordSaved ==
  ASSUME NEW m, NEW s \in Byte, NEW w
  PROVE  /\ At(SavedWord(m, s, w), StackAddr(s)) = Page(w)
         /\ At(SavedWord(m, s, w), StackAddr(U8(s - 1))) = U8(w)
         /\ \A addr : (\A k \in {0, 1, 2} : addr # StackAddr(U8(s - k)))
              => At(SavedWord(m, s, w), addr) = At(m, addr)
<1> DEFINE p == StackAddr(s)
           q == StackAddr(U8(s - 1))
           inner == Put(m, p, Page(w))
<1>1. SavedWord(m, s, w) = Put(inner, q, U8(w))
  BY DEF SavedWord, Saved
<1>2. p # q
  BY ThreeApart
<1>3. ASSUME NEW addr, \A k \in {0, 1, 2} : addr # StackAddr(U8(s - k)) PROVE addr # p /\ addr # q
  <2>1. addr # StackAddr(U8(s - 0)) /\ addr # StackAddr(U8(s - 1))
    BY <1>3
  <2>2. U8(s - 0) = s
    BY ByteRange DEF U8
  <2> QED
    BY <2>1, <2>2
<1> HIDE DEF p, q
<1>4. At(inner, p) = Page(w) /\ \A addr : addr # p => At(inner, addr) = At(m, addr)
  BY PutHere, PutElsewhere
<1> HIDE DEF inner
<1>5. /\ At(SavedWord(m, s, w), p) = Page(w) /\ At(SavedWord(m, s, w), q) = U8(w)
      /\ \A addr : addr # p /\ addr # q => At(SavedWord(m, s, w), addr) = At(m, addr)
  BY <1>1, <1>2, <1>4, PutHere, PutElsewhere
<1> QED
  BY <1>3, <1>5 DEF p, q

LEMMA EntrySaved ==
  ASSUME NEW m, NEW s \in Byte, NEW w, NEW v
  PROVE  LET n == Saved(SavedWord(m, s, w), U8(s - 2), v)
         IN  /\ At(n, StackAddr(s)) = Page(w) /\ At(n, StackAddr(U8(s - 1))) = U8(w)
             /\ At(n, StackAddr(U8(s - 2))) = v
             /\ \A addr : (\A k \in {0, 1, 2} : addr # StackAddr(U8(s - k))) => At(n, addr) = At(m, addr)
<1> DEFINE o == SavedWord(m, s, w)
           p == StackAddr(s)
           q == StackAddr(U8(s - 1))
           r == StackAddr(U8(s - 2))
           n == Put(o, r, v)
<1>1. Saved(o, U8(s - 2), v) = n
  BY DEF Saved
<1>2. p # r /\ q # r
  BY ThreeApart
<1>3. /\ At(o, p) = Page(w) /\ At(o, q) = U8(w)
      /\ \A addr : (\A k \in {0, 1, 2} : addr # StackAddr(U8(s - k))) => At(o, addr) = At(m, addr)
  BY WordSaved
<1>4. \A addr : (\A k \in {0, 1, 2} : addr # StackAddr(U8(s - k))) => addr # r
  OBVIOUS
<1> HIDE DEF o, p, q, r
<1>5. At(n, r) = v /\ \A addr : addr # r => At(n, addr) = At(o, addr)
  BY PutHere, PutElsewhere
<1> HIDE DEF n
<1>6. At(n, p) = Page(w) /\ At(n, q) = U8(w)
  BY <1>2, <1>3, <1>5
<1>7. \A addr : (\A k \in {0, 1, 2} : addr # StackAddr(U8(s - k))) => At(n, addr) = At(m, addr)
  BY <1>3, <1>4, <1>5
<1> QED
  BY <1>1, <1>5, <1>6, <1>7 DEF o, p, q, r


-----------------------------------------------------------------------------
(* The invariant: when step() last returned, every open frame was on the   *)
(* stack, one below the other and all of them above S.                     *)
CallsInv ==
  /\ CpuTypeOK /\ Scheduled /\ OnCourse /\ OnBus
  /\ frames \in Seq(Frames) /\ Kept(frames, Shown.mem, Shown.regs.s)

LEMMA BeforeTyped ==
  ASSUME BeforeOK
  PROVE  /\ before.regs \in Registers /\ before.regs.s \in Byte /\ before.pc \in Word
         /\ before.i \in BOOLEAN /\ before.pc \in Int
         /\ \A n \in Int : U16(before.pc + n) \in Word
<1>1. before.regs \in Registers /\ before.regs.s \in Byte /\ before.pc \in Word /\ before.i \in BOOLEAN
  BY DEF BeforeOK, Registers
<1>2. before.pc \in Int
  BY <1>1, WordRange
<1> QED
  BY <1>1, <1>2, U16Word

(* An interrupt entry or BRK puts its frame on the stack. *)
LEMMA InterruptOpens ==
  ASSUME BeforeOK, EntryCourse, todo = <<>>, NEW f, f = Frame("interrupt", Back),
         frames \in Seq(Frames), Kept(frames, before.mem, before.regs.s),
         Under(Append(frames, f)[1].regs.s, regs.s) <= 252, Back \in Word
  PROVE  Append(frames, f) \in Seq(Frames) /\ Kept(Append(frames, f), mem, regs.s)
<1> DEFINE s == before.regs.s
           v == Pack(before.regs, before.i, unit = "BRK")
<1>1. /\ before.regs \in Registers /\ s \in Byte /\ before.i \in BOOLEAN
  BY BeforeTyped
<1>2. /\ f.kind = "interrupt" /\ f.back = U16(Back) /\ f.regs = before.regs /\ f.i = before.i
      /\ f = [kind |-> "interrupt", back |-> U16(Back), regs |-> before.regs, i |-> before.i]
  BY DEF Frame
<1>3. U16(Back) = Back
  BY WordRange DEF U16
<1>4. f \in Frames /\ Resume(f) = Back /\ Size(f) = 3
  BY <1>1, <1>2, <1>3 DEF Frames, Resume, Size
<1>5. regs = EntryRegisters(before) /\ mem = EntryMemory(before, Back, unit = "BRK")
  BY DEF EntryCourse
<1>6. regs.s = U8(s - Size(f))
  <2> DEFINE q == Shifted(before.regs, -3)
             d == q.d /\ ~Variant.clearDecimalOnInterrupt
  <2>1. q \in Registers /\ q.s = U8(s + (-3)) /\ s + (-3) = s - 3
    BY <1>1, ShiftedRegisters, ByteRange
  <2>2. EntryRegisters(before) = [q EXCEPT !.d = d]
    BY Zenon DEF EntryRegisters
  <2> HIDE DEF q, d
  <2>3. [q EXCEPT !.d = d].s = q.s
    BY <2>1 DEF Registers
  <2> QED
    BY <1>4, <1>5, <2>1, <2>2, <2>3
<1>7. /\ At(mem, StackAddr(s)) = Page(Back) /\ At(mem, StackAddr(U8(s - 1))) = U8(Back)
      /\ At(mem, StackAddr(U8(s - 2))) = v
      /\ \A addr : (\A k \in {0, 1, 2} : addr # StackAddr(U8(s - k))) => At(mem, addr) = At(before.mem, addr)
  BY <1>1, <1>5, EntrySaved DEF EntryMemory
<1>8. SavedIn(mem, f)
  <2>1. (unit = "BRK") \in BOOLEAN
    OBVIOUS
  <2> QED
    BY <1>2, <1>4, <1>7, <2>1 DEF SavedIn
<1> QED
  BY <1>2, <1>4, <1>6, <1>7, <1>8, KeptOpens

(* What JSR saves is one less than where its call is to come back to. *)
LEMMA BehindCall ==
  ASSUME NEW p \in Word
  PROVE  U16(U16(p + 3) - 1) = U16(p + 2) /\ U16(p + 3) \in Word
<1>1. p \in Int /\ 0 <= p /\ p <= 65535
  BY WordRange
<1>2. U16(p + 3) \in Word
  BY <1>1, U16Word
<1>3. U16(p + 3) = IF p <= 65532 THEN p + 3 ELSE p - 65533
  BY <1>1 DEF U16
<1>4. U16(p + 2) = IF p <= 65533 THEN p + 2 ELSE p - 65534
  BY <1>1 DEF U16
<1> DEFINE w == U16(p + 3)
<1> HIDE DEF w
<1>5. w \in Int /\ 0 <= w /\ w <= 65535
  BY <1>2, WordRange DEF w
<1>6. U16(w - 1) = IF w = 0 THEN 65535 ELSE w - 1
  BY <1>5 DEF U16
<1>7. U16(w - 1) = U16(p + 2)
  BY <1>1, <1>3, <1>4, <1>6 DEF w
<1> QED
  BY <1>2, <1>7 DEF w

(* So does JSR. *)
LEMMA CallOpens ==
  ASSUME BeforeOK, CallCourse, todo = <<>>, NEW f, f = Frame("call", before.pc + 3),
         frames \in Seq(Frames), Kept(frames, before.mem, before.regs.s),
         Under(Append(frames, f)[1].regs.s, regs.s) <= 252
  PROVE  Append(frames, f) \in Seq(Frames) /\ Kept(Append(frames, f), mem, regs.s)
<1> DEFINE s    == before.regs.s
           back == Ahead(2)
<1>1. /\ before.regs \in Registers /\ s \in Byte /\ before.i \in BOOLEAN /\ before.pc \in Word
  BY BeforeTyped
<1>2. /\ f.kind = "call" /\ f.back = U16(before.pc + 3) /\ f.regs = before.regs /\ f.i = before.i
      /\ f = [kind |-> "call", back |-> U16(before.pc + 3), regs |-> before.regs, i |-> before.i]
  BY DEF Frame
<1>3. U16(U16(before.pc + 3) - 1) = Ahead(2) /\ U16(before.pc + 3) \in Word
  BY <1>1, BehindCall DEF Ahead
<1>4. f \in Frames /\ Resume(f) = back /\ Size(f) = 2
  BY <1>1, <1>2, <1>3 DEF Frames, Resume, Size
<1>5. regs = Shifted(before.regs, -2) /\ mem = SavedWord(before.mem, s, back)
  <2>1. SpecialCycles("JSR") # <<>>
    BY DEF SpecialCycles
  <2> QED
    BY <2>1 DEF CallCourse
<1>6. regs.s = U8(s - Size(f))
  BY <1>1, <1>4, <1>5, ShiftedSteps
<1> HIDE DEF back
<1>7. /\ At(mem, StackAddr(s)) = Page(back) /\ At(mem, StackAddr(U8(s - 1))) = U8(back)
      /\ \A addr : (\A k \in {0, 1, 2} : addr # StackAddr(U8(s - k))) => At(mem, addr) = At(before.mem, addr)
  BY <1>1, <1>5, WordSaved
<1>8. SavedIn(mem, f)
  BY <1>2, <1>4, <1>7 DEF SavedIn
<1> QED
  BY <1>2, <1>4, <1>6, <1>7, <1>8, KeptOpens

-----------------------------------------------------------------------------
(* The way back.  The flags that were pushed are pulled. *)
LEMMA StatusReturns ==
  ASSUME NEW r \in Registers, NEW i \in BOOLEAN, NEW b \in BOOLEAN
  PROVE  LET p == Pack(r, i, b)
         IN  /\ Bit(p, 128) = r.n /\ Bit(p, 64) = r.v /\ Bit(p, 8) = r.d
             /\ Bit(p, 2) = r.z /\ Bit(p, 1) = r.c /\ UnpackI(p) = i
<1> DEFINE n == One(r.n)
           v == One(r.v)
           f == One(b)
           d == One(r.d)
           j == One(i)
           z == One(r.z)
           c == One(r.c)
           p == Pack(r, i, b)
<1>1. /\ n \in {0, 1} /\ v \in {0, 1} /\ f \in {0, 1} /\ d \in {0, 1}
      /\ j \in {0, 1} /\ z \in {0, 1} /\ c \in {0, 1}
  BY OneBit
<1>2. /\ (n = 1 <=> r.n) /\ (v = 1 <=> r.v) /\ (d = 1 <=> r.d)
      /\ (j = 1 <=> i) /\ (z = 1 <=> r.z) /\ (c = 1 <=> r.c)
  BY DEF One
<1>3. r.n \in BOOLEAN /\ r.v \in BOOLEAN /\ r.d \in BOOLEAN /\ r.z \in BOOLEAN /\ r.c \in BOOLEAN
  BY DEF Registers
<1>4. p = 128 * n + 64 * v + 32 + 16 * f + 8 * d + 4 * j + 2 * z + c
  BY DEF Pack
<1> HIDE DEF n, v, f, d, j, z, c, p
<1>5. Bit(p, 128) <=> n = 1
  <2> DEFINE l == 64 * v + 32 + 16 * f + 8 * d + 4 * j + 2 * z + c
  <2>1. l \in Nat /\ l < 128 /\ p = 256 * 0 + 128 * n + l
    BY <1>1, <1>4
  <2> HIDE DEF l
  <2> QED
    BY <1>1, <2>1 DEF Bit
<1>6. Bit(p, 64) <=> v = 1
  <2> DEFINE l == 32 + 16 * f + 8 * d + 4 * j + 2 * z + c
  <2>1. l \in Nat /\ l < 64 /\ p = 128 * n + 64 * v + l /\ n \in Nat
    BY <1>1, <1>4
  <2> HIDE DEF l
  <2> QED
    BY <1>1, <2>1 DEF Bit
<1>7. Bit(p, 8) <=> d = 1
  <2> DEFINE l == 4 * j + 2 * z + c
             h == 8 * n + 4 * v + 2 + f
  <2>1. l \in Nat /\ l < 8 /\ p = 16 * h + 8 * d + l /\ h \in Nat
    BY <1>1, <1>4
  <2> HIDE DEF l, h
  <2> QED
    BY <1>1, <2>1 DEF Bit
<1>8. Bit(p, 4) <=> j = 1
  <2> DEFINE l == 2 * z + c
             h == 16 * n + 8 * v + 4 + 2 * f + d
  <2>1. l \in Nat /\ l < 4 /\ p = 8 * h + 4 * j + l /\ h \in Nat
    BY <1>1, <1>4
  <2> HIDE DEF l, h
  <2> QED
    BY <1>1, <2>1 DEF Bit
<1>9. Bit(p, 2) <=> z = 1
  <2> DEFINE h == 32 * n + 16 * v + 8 + 4 * f + 2 * d + j
  <2>1. c \in Nat /\ c < 2 /\ p = 4 * h + 2 * z + c /\ h \in Nat
    BY <1>1, <1>4
  <2> HIDE DEF h
  <2> QED
    BY <1>1, <2>1 DEF Bit
<1>10. Bit(p, 1) <=> c = 1
  <2> DEFINE h == 64 * n + 32 * v + 16 + 8 * f + 4 * d + 2 * j + z
  <2>1. p = 2 * h + c + 0 /\ h \in Nat /\ 0 \in Nat /\ 0 < 1
    BY <1>1, <1>4
  <2> HIDE DEF h
  <2> QED
    BY <1>1, <2>1 DEF Bit
<1>11. \A w : Bit(p, w) \in BOOLEAN
  BY DEF Bit
<1> QED
  BY <1>2, <1>3, <1>5, <1>6, <1>7, <1>8, <1>9, <1>10, <1>11 DEF UnpackI, p

LEMMA SameFields ==
  ASSUME NEW p \in Registers, NEW q \in Registers,
         p.a = q.a, p.x = q.x, p.y = q.y, p.s = q.s,
         p.n = q.n, p.v = q.v, p.d = q.d, p.z = q.z, p.c = q.c
  PROVE  p = q
BY DEF Registers

(* RTI puts the registers of the caller back, when A, X, Y and S are its. *)
LEMMA RegistersReturn ==
  ASSUME NEW r \in Registers, NEW q \in Registers, NEW i \in BOOLEAN, NEW b \in BOOLEAN,
         q.a = r.a, q.x = r.x, q.y = r.y, q.s = r.s
  PROVE  Unpack(q, Pack(r, i, b)) = r
<1> DEFINE p  == Pack(r, i, b)
           n == Bit(p, 128)
           v == Bit(p, 64)
           d == Bit(p, 8)
           z == Bit(p, 2)
           c == Bit(p, 1)
           u == Unpack(q, p)
<1>1. n = r.n /\ v = r.v /\ d = r.d /\ z = r.z /\ c = r.c
  BY StatusReturns
<1>2. u = [q EXCEPT !.n = n, !.v = v, !.d = d, !.z = z, !.c = c]
  BY Zenon DEF Unpack
<1>3. u \in Registers
  BY UnpacksTyped
<1> HIDE DEF p, n, v, d, z, c
<1>4. u.a = q.a /\ u.x = q.x /\ u.y = q.y /\ u.s = q.s /\ u.n = n /\ u.v = v /\ u.d = d /\ u.z = z /\ u.c = c
  BY <1>2 DEF Registers
<1> HIDE DEF u
<1>5. u = r
  BY <1>1, <1>3, <1>4, SameFields
<1> QED
  BY <1>5 DEF u, p

LEMMA ResumeWord ==
  ASSUME NEW f \in Frames
  PROVE  /\ WordOf(U8(Resume(f)), Page(Resume(f))) = Resume(f)
         /\ f.kind = "call" => U16(Resume(f) + 1) = f.back
         /\ f.kind = "interrupt" => Resume(f) = f.back
<1>1. f.back \in Word /\ f.kind \in {"call", "interrupt"}
  BY DEF Frames
<1>2. f.kind = "call" => U16(U16(f.back - 1) + 1) = f.back
  BY <1>1, WordRange DEF U16
<1>3. Resume(f) \in Word
  <2>1. U16(f.back - 1) \in Word
    BY <1>1, WordRange, U16Word
  <2> QED
    BY <1>1, <2>1 DEF Resume
<1>4. ASSUME NEW w \in Word PROVE WordOf(U8(w), Page(w)) = w
  BY WordRange DEF WordOf, U8, Page
<1> QED
  BY <1>2, <1>3, <1>4 DEF Resume

LEMMA UpAgain ==
  ASSUME NEW s \in Byte
  PROVE  /\ U8(U8(s - 2) + 1) = U8(s - 1) /\ U8(U8(s - 2) + 2) = s
         /\ U8(U8(s - 3) + 1) = U8(s - 2) /\ U8(U8(s - 3) + 2) = U8(s - 1) /\ U8(U8(s - 3) + 3) = s
BY ByteRange DEF U8

(* A balanced return finds what its frame saved. *)
LEMMA ReturnFinds ==
  ASSUME BeforeOK, todo = <<>>, frames \in Seq(Frames), frames # <<>>,
         Kept(frames, before.mem, before.regs.s), Balanced,
         \/ Op = "RTS" /\ ReturnCourse
         \/ Op = "RTI" /\ ReturnFromInterruptCourse
  PROVE  /\ mem = before.mem /\ pc = Top.back /\ regs.s = Top.regs.s
         /\ Op = "RTI" => regs = Top.regs /\ regI = Top.i
<1> DEFINE f == Top
           s == f.regs.s
           w == Resume(f)
           r == before.regs
           m == before.mem
<1>1. Len(frames) \in 1 .. Len(frames)
  OBVIOUS
<1>2. f \in Frames /\ SavedIn(m, f)
  BY <1>1 DEF Top, Kept
<1>3. /\ r \in Registers /\ r.s \in Byte /\ f.regs \in Registers /\ s \in Byte /\ f.i \in BOOLEAN
  BY <1>2, BeforeTyped, SizeRange
<1>4. /\ f.kind = (IF Op = "RTS" THEN "call" ELSE "interrupt") /\ r.s = U8(s - Size(f))
      /\ Op = "RTI" => r.a = f.regs.a /\ r.x = f.regs.x /\ r.y = f.regs.y
  BY DEF Balanced
<1>5. /\ U8(U8(s - 2) + 1) = U8(s - 1) /\ U8(U8(s - 2) + 2) = s
      /\ U8(U8(s - 3) + 1) = U8(s - 2) /\ U8(U8(s - 3) + 2) = U8(s - 1) /\ U8(U8(s - 3) + 3) = s
  BY <1>3, UpAgain
<1>6. /\ WordOf(U8(w), Page(w)) = w /\ (f.kind = "call" => U16(w + 1) = f.back)
      /\ (f.kind = "interrupt" => w = f.back)
  BY <1>2, ResumeWord
<1>7. /\ At(m, StackAddr(s)) = Page(w) /\ At(m, StackAddr(U8(s - 1))) = U8(w)
      /\ f.kind = "interrupt" =>
           \E b \in BOOLEAN : At(m, StackAddr(U8(s - 2))) = Pack(f.regs, f.i, b)
  BY <1>2 DEF SavedIn
<1>8. \A k : Popped(before, k) = At(m, StackAddr(U8(r.s + k)))
  BY DEF Popped
<1> HIDE DEF w
<1>9. CASE Op = "RTS"
  <2>1. SpecialCycles("RTS") # <<>>
    BY DEF SpecialCycles
  <2>2. /\ mem = m /\ regs = Shifted(r, 2)
        /\ pc = U16(WordOf(Popped(before, 1), Popped(before, 2)) + 1)
    BY <1>9, <2>1 DEF ReturnCourse
  <2>3. r.s = U8(s - 2)
    BY <1>2, <1>4, <1>9, SizeRange
  <2>4. Popped(before, 1) = U8(w) /\ Popped(before, 2) = Page(w)
    BY <1>5, <1>7, <1>8, <2>3
  <2>5. pc = f.back
    BY <1>4, <1>6, <1>9, <2>2, <2>4
  <2>6. regs.s = s
    BY <1>3, <1>5, <2>2, <2>3, ShiftedSteps
  <2> QED
    BY <1>9, <2>2, <2>5, <2>6
<1>10. CASE Op = "RTI"
  <2> DEFINE q == Shifted(r, 3)
             v == Popped(before, 1)
  <2>1. SpecialCycles("RTI") # <<>>
    BY DEF SpecialCycles
  <2>2. /\ mem = m /\ regs = Unpack(q, v) /\ regI = UnpackI(v)
        /\ pc = WordOf(Popped(before, 2), Popped(before, 3))
    BY <1>10, <2>1 DEF ReturnFromInterruptCourse
  <2>3. r.s = U8(s - 3) /\ f.kind = "interrupt"
    BY <1>2, <1>4, <1>10, SizeRange
  <2>4. Popped(before, 2) = U8(w) /\ Popped(before, 3) = Page(w) /\ v = At(m, StackAddr(U8(s - 2)))
    BY <1>5, <1>7, <1>8, <2>3
  <2>5. pc = f.back
    BY <1>6, <2>2, <2>3, <2>4
  <2>6. q \in Registers /\ q.a = f.regs.a /\ q.x = f.regs.x /\ q.y = f.regs.y /\ q.s = s
    <3>1. 3 \in Int
      OBVIOUS
    <3>2. q \in Registers /\ q.a = r.a /\ q.x = r.x /\ q.y = r.y /\ q.s = U8(r.s + 3)
      BY <1>3, <3>1, ShiftedRegisters, Zenon
    <3> QED
      BY <1>4, <1>5, <1>10, <2>3, <3>2
  <2> HIDE DEF q, v
  <2>7. PICK b \in BOOLEAN : v = Pack(f.regs, f.i, b)
    BY <1>7, <2>3, <2>4
  <2>8. Unpack(q, v) = f.regs /\ UnpackI(v) = f.i
    BY <1>3, <2>6, <2>7, RegistersReturn, StatusReturns
  <2> QED
    BY <2>2, <2>5, <2>8
<1> QED
  BY <1>9, <1>10

SlotsKept ==
  \A j \in 1 .. Len(frames) : \A addr \in Slots(frames[j]) : At(mem, addr) = At(before.mem, addr)

LEMMA SlotsWords == ASSUME NEW f \in Frames PROVE Slots(f) \subseteq Word
<1> SUFFICES ASSUME NEW k \in 0 .. Size(f) - 1 PROVE StackAddr(U8(f.regs.s - k)) \in Word
  BY DEF Slots
<1>1. f.regs.s \in Int /\ k \in Int
  BY SizeRange, ByteRange
<1>2. U8(f.regs.s - k) \in Byte
  BY <1>1, U8Byte
<1> QED
  BY <1>2, StackWord

(* The other instructions leave the slots of the open frames alone: those   *)
(* that push write at S or not at all, and stores are bound to miss.       *)
LEMMA OthersMiss ==
  ASSUME CallsInv, StackDiscipline, frames # <<>>, Shown = before,
         unit \in Instructions, todo = <<>>, Op \notin {"JSR", "BRK", "RTS", "RTI"}
  PROVE  SlotsKept
<1> HIDE DEF Shown
<1>1. /\ CpuTypeOK /\ OnBus /\ BeforeOK /\ InstructionCourse /\ frames \in Seq(Frames)
      /\ Kept(frames, before.mem, before.regs.s)
  BY DEF CallsInv, OnCourse
<1>2. mem = before.mem => SlotsKept
  BY DEF SlotsKept
<1>3. CASE ShapeOf(opcode) = "Special"
  <2>1. SpecialCourse /\ Op \in SpecialOps
    BY <1>1, <1>3, Families DEF InstructionCourse, Op
  <2>2. Op \in {"JMP_ABS", "JMP_IND", "JAM"}
    BY <2>1 DEF SpecialOps
  <2>3. mem = before.mem
    BY <2>1, <2>2 DEF SpecialCourse, JumpCourse, IndirectJumpCourse, JamCourse, Untouched
  <2> QED
    BY <1>2, <2>3
<1>4. CASE ShapeOf(opcode) \in {"Branch", "Accum"}
  <2>1. mem = before.mem
    BY <1>1, <1>4 DEF InstructionCourse, BranchCourse, AccumCourse, Untouched
  <2> QED
    BY <1>2, <2>1
<1>5. CASE ShapeOf(opcode) = "Implied"
  <2>1. ImpliedCourse
    BY <1>1, <1>5 DEF InstructionCourse
  <2>2. CASE Op \in {"PHA", "PHP"}
    <3>1. ImpliedCycles(Op) # <<>> /\ Tail(ImpliedCycles(Op)) # <<>>
      BY <2>2, Lists DEF ImpliedCycles
    <3>2. PICK v : mem = Put(before.mem, StackAddr(before.regs.s), v)
      BY <2>1, <2>2, <3>1 DEF ImpliedCourse, PushCourse, Saved
    <3> SUFFICES ASSUME NEW j \in 1 .. Len(frames), NEW addr \in Slots(frames[j])
                 PROVE  At(mem, addr) = At(before.mem, addr)
      BY DEF SlotsKept
    <3>3. before.regs.s \in Byte /\ Nested(frames, before.regs.s)
      BY <1>1, BeforeTyped DEF Kept
    <3>4. StackAddr(U8(before.regs.s - 0)) \notin Slots(frames[j])
      BY <1>1, <3>3, PushesMiss
    <3>5. U8(before.regs.s - 0) = before.regs.s
      BY <3>3, ByteRange DEF U8
    <3> QED
      BY <3>2, <3>4, <3>5, PutElsewhere
  <2>3. CASE Op \notin {"PHA", "PHP"}
    <3>1. mem = before.mem
      BY <2>1, <2>3 DEF ImpliedCourse, PullCourse, PlainCourse, Untouched
    <3> QED
      BY <1>2, <3>1
  <2> QED
    BY <2>2, <2>3
<1>6. CASE ShapeOf(opcode) = "Read"
  <2>1. OperandCourse /\ "Read" \in Memorial
    BY <1>1, <1>6 DEF InstructionCourse, Memorial
  <2>2. ReadDone
    BY <1>1, <1>6, <2>1, OperandDone
  <2> QED
    BY <1>2, <2>2 DEF ReadDone
<1>7. CASE ShapeOf(opcode) \in {"Write", "UnstableStore", "Rmw"}
  <2>1. Unstained
    BY <1>1 DEF OnBus, Instructions
  <2> SUFFICES ASSUME NEW j \in 1 .. Len(frames), NEW addr \in Slots(frames[j])
               PROVE  At(mem, addr) = At(before.mem, addr)
    BY DEF SlotsKept
  <2>2. frames[j] \in Frames /\ j \in DOMAIN frames
    BY <1>1
  <2>3. addr \in Word
    BY <2>2, SlotsWords
  <2>4. \A k \in DOMAIN trace : trace[k].kind = "write" => trace[k].addr \notin Slots(frames[j])
    BY <1>7, <2>2 DEF StackDiscipline
  <2>5. addr \notin Stained
    BY <2>4 DEF Stained, Writings
  <2> QED
    BY <2>1, <2>3, <2>5 DEF Unstained
<1> QED
  BY <1>3, <1>4, <1>5, <1>6, <1>7, Families DEF Memorial

(* step() or reset() returns: the frames that are open now are on the stack. *)
LEMMA EndKeeps ==
  ASSUME CallsInv, StackDiscipline, StackDiscipline', CallsEnd
  PROVE  frames' \in Seq(Frames) /\ Kept(frames', mem, regs.s)
<1>1. /\ CpuTypeOK /\ BeforeOK /\ OnCourse /\ frames \in Seq(Frames)
      /\ CpuEnd /\ todo = <<>> /\ unit \notin {"idle", "fetch"} /\ Shown = before
  BY EndReturns DEF CallsInv, CallsEnd, OnCourse, Returned
<1>2. Kept(frames, before.mem, before.regs.s)
  BY <1>1 DEF CallsInv
<1>3. unit \in Instructions \cup Entries \cup {"reset", "jammed"}
  BY <1>1 DEF CpuTypeOK, TypeOK, Units
<1>4. frames' # <<>> => Under(frames'[1].regs.s, regs.s) <= 252
  <2>1. unit' = "idle" /\ regs' = regs
    BY <1>1 DEF CpuEnd, EndCall, EndInstruction, EndReloadingI, EndReset, EndJammed, Return, data
  <2> QED
    BY <2>1 DEF StackDiscipline, Depth, Under
<1>5. /\ unit \in Instructions => InstructionCourse /\ unit = UnitOf(opcode)
      /\ Op = "BRK" => UnitOf(opcode) = "BRK"
      /\ Op = "RTI" => UnitOf(opcode) = "RTI"
      /\ Op \in {"JSR", "RTS"} => UnitOf(opcode) = "other"
      /\ unit = "BRK" => Op = "BRK"
      /\ unit = "RTI" => Op = "RTI"
  BY <1>1, Families DEF OnCourse, InstructionCourse, Op, UnitOf, Instructions
<1>6. /\ Op \in {"BRK", "JSR", "RTS", "RTI"} => ShapeOf(opcode) = "Special"
  BY Families DEF Op, SpecialOps
<1> HIDE DEF Shown
<1>7. CASE unit \in Entries \cup {"BRK"}
  <2> DEFINE f == Frame("interrupt", Back)
  <2>1. EntryCourse
    <3>1. CASE unit \in Entries
      BY <1>1, <3>1, Lists DEF OnCourse, InterruptCourse, EntryCycles
    <3>2. CASE unit = "BRK"
      <4>1. BreakCourse /\ SpecialCycles("BRK") # <<>>
        BY <1>5, <1>6, <3>2 DEF InstructionCourse, SpecialCourse, SpecialCycles, Instructions
      <4> QED
        BY <1>1, <4>1 DEF BreakCourse
    <3> QED
      BY <1>7, <3>1, <3>2
  <2>2. /\ Back \in Word /\ (unit # "BRK" => Back = before.pc)
        /\ unit = "BRK" => Back = U16(before.pc + 2)
    BY <1>1, BeforeTyped DEF Back, Ahead
  <2>3. U16(Back) = Back /\ f = [kind |-> "interrupt", back |-> U16(Back), regs |-> before.regs, i |-> before.i]
    BY <2>2, WordRange DEF U16, Frame
  <2>4. frames' = Append(frames, f)
    <3>1. CASE unit \in Entries
      BY <2>2, <3>1 DEF CallsEnd, Entries
    <3>2. CASE unit = "BRK"
      BY <2>2, <2>3, <3>2 DEF CallsEnd, Entries, Frame
    <3> QED
      BY <1>7, <3>1, <3>2
  <2>5. frames' # <<>>
    BY <1>1, <2>4
  <2> HIDE DEF f
  <2>6. Under(Append(frames, f)[1].regs.s, regs.s) <= 252
    BY <1>4, <2>4, <2>5
  <2> QED
    BY <1>1, <1>2, <2>1, <2>2, <2>4, <2>6, InterruptOpens DEF f
<1>8. CASE unit = "other" /\ Op = "JSR"
  <2> DEFINE f == Frame("call", before.pc + 3)
  <2>1. CallCourse
    BY <1>5, <1>6, <1>8 DEF InstructionCourse, SpecialCourse, Instructions
  <2>2. frames' = Append(frames, f)
    BY <1>8 DEF CallsEnd, Entries
  <2> HIDE DEF f
  <2>3. frames' # <<>>
    BY <1>1, <2>2
  <2>4. Under(Append(frames, f)[1].regs.s, regs.s) <= 252
    BY <1>4, <2>2, <2>3
  <2> QED
    BY <1>1, <1>2, <2>1, <2>2, <2>4, CallOpens DEF f
<1>9. CASE unit = "RTI" \/ (unit = "other" /\ Op = "RTS")
  <2>1. /\ Op \in {"RTS", "RTI"} /\ unit \in Instructions
        /\ (Op = "RTS" /\ ReturnCourse) \/ (Op = "RTI" /\ ReturnFromInterruptCourse)
    BY <1>5, <1>6, <1>9 DEF InstructionCourse, SpecialCourse, Instructions
  <2>2. frames' = IF frames = <<>> THEN frames ELSE Pop
    BY <1>9 DEF CallsEnd, Entries
  <2>3. CASE frames = <<>>
    BY <1>1, <2>2, <2>3 DEF Kept, Nested
  <2>4. CASE frames # <<>>
    <3>1. Balanced
      BY <1>1, <2>1, <2>4 DEF StackDiscipline
    <3>2. mem = before.mem /\ regs.s = Top.regs.s
      BY <1>1, <1>2, <2>1, <2>4, <3>1, ReturnFinds
    <3>3. before.regs.s \in Byte
      BY <1>1, BeforeTyped
    <3>4. Pop \in Seq(Frames) /\ Kept(Pop, before.mem, Top.regs.s)
      BY <1>1, <1>2, <2>4, <3>3, KeptCloses DEF Pop, Top
    <3> QED
      BY <2>2, <2>4, <3>2, <3>4
  <2> QED
    BY <2>3, <2>4
<1>10. CASE unit = "reset"
  <2>1. frames' = <<>>
    BY <1>10 DEF CallsEnd, Entries
  <2> QED
    BY <2>1 DEF Kept, Nested
<1>11. CASE /\ unit \notin Entries \cup {"BRK", "RTI", "reset"}
            /\ ~(unit = "other" /\ Op \in {"JSR", "RTS"})
  <2>1. frames' = frames
    BY <1>11 DEF CallsEnd
  <2>2. CASE frames = <<>>
    BY <1>1, <2>1, <2>2 DEF Kept, Nested
  <2>3. CASE frames # <<>> /\ unit = "jammed"
    <3>1. mem = before.mem /\ regs = before.regs
      BY <1>1, <2>3 DEF OnCourse, Now
    <3> QED
      BY <1>1, <1>2, <2>1, <3>1
  <2>4. CASE frames # <<>> /\ unit \in Instructions
    <3>1. Op \notin {"JSR", "BRK", "RTS", "RTI"}
      BY <1>5, <1>11, <2>4
    <3>2. SlotsKept
      BY <1>1, <2>4, <3>1, OthersMiss
    <3>3. Bottom(frames[1].regs.s, Top) <= Under(frames[1].regs.s, regs.s)
      <4>1. Depth(regs.s) >= Depth(Top.regs.s) + Size(Top)
        BY <1>1, <2>4, <3>1 DEF StackDiscipline
      <4>2. Depth(regs.s) \in Int /\ Depth(Top.regs.s) + Size(Top) \in Int
        <5>1. Len(frames) \in 1 .. Len(frames) /\ 1 \in 1 .. Len(frames)
          BY <1>1, <2>4
        <5>2. Top \in Frames /\ frames[1] \in Frames
          BY <1>1, <5>1 DEF Top
        <5>3. Size(Top) \in {2, 3} /\ Top.regs.s \in Byte /\ frames[1].regs.s \in Byte
          BY <5>2, SizeRange
        <5>4. regs.s \in Byte
          BY <1>1, DataFacts
        <5> QED
          BY <5>3, <5>4, ByteRange DEF Depth, U8
      <4> QED
        BY <4>1, <4>2 DEF Depth, Bottom, Under
    <3> QED
      BY <1>1, <1>2, <1>4, <2>1, <2>4, <3>2, <3>3, KeptStays DEF SlotsKept, Top
  <2> QED
    BY <1>3, <1>11, <2>2, <2>3, <2>4
<1> QED
  BY <1>3, <1>5, <1>7, <1>8, <1>9, <1>10, <1>11 DEF Instructions

LEMMA CallsAreCpu == CallsSpec => CpuSpec
<1>1. CallsInit => CpuInit
  BY DEF CallsInit
<1>2. [CallsNext]_callVars => [CpuNext]_cpuVars
  BY DEF CallsNext, CallsEnd, CallsPins, CallsReset, CallsRun, callVars, CpuNext
<1> QED
  BY <1>1, <1>2, PTL DEF CallsSpec, CpuSpec

LEMMA CallsStep ==
  ASSUME CallsInv, StackDiscipline, StackDiscipline', [CallsNext]_callVars,
         CpuTypeOK', Scheduled', OnCourse', OnBus'
  PROVE  CallsInv'
<1>1. frames' \in Seq(Frames) /\ Kept(frames', Shown'.mem, Shown'.regs.s)
  <2>1. CASE CallsEnd
    <3>1. Shown' = Now
      BY <2>1, EndReturns DEF CallsEnd
    <3>2. Now.mem = mem /\ Now.regs = regs
      BY DEF Now
    <3> HIDE DEF Shown
    <3> QED
      BY <2>1, <3>1, <3>2, EndKeeps
  <2>2. CASE CallsPins \/ CallsReset \/ CallsRun \/ UNCHANGED callVars
    <3>1. /\ frames' = frames
          /\ CpuPins \/ UNCHANGED cpuVars \/ CpuReset \/ CpuStep \/ CpuFetch \/ CpuCycle
      BY <2>2 DEF CallsPins, CallsReset, CallsRun, callVars
    <3>2. Shown' = Shown
      BY <3>1, ShownStays DEF CallsInv
    <3> HIDE DEF Shown
    <3> QED
      BY <3>1, <3>2 DEF CallsInv
  <2> QED
    BY <2>1, <2>2 DEF CallsNext
<1> QED
  BY <1>1 DEF CallsInv

LEMMA CallsInvariant == CallsSpec /\ []StackDiscipline => []CallsInv
<1>1. CallsInit /\ CpuTypeOK /\ Scheduled /\ OnCourse /\ OnBus => CallsInv
  <2> SUFFICES ASSUME frames = <<>>
               PROVE  frames \in Seq(Frames) /\ Kept(frames, Shown.mem, Shown.regs.s)
    BY DEF CallsInit, CallsInv
  <2> QED
    BY DEF Kept, Nested
<1>2. CallsInv /\ StackDiscipline /\ StackDiscipline' /\ [CallsNext]_callVars
        /\ CpuTypeOK' /\ Scheduled' /\ OnCourse' /\ OnBus' => CallsInv'
  BY CallsStep
<1> QED
  BY <1>1, <1>2, CallsAreCpu, BusInvariant, PTL DEF CallsSpec

(* The frames are history: a program with calls, interrupts and resets is   *)
(* still the interrupt logic cycle by cycle and the reference call by call. *)
THEOREM CallsImplement == CallsSpec => Spec /\ IsaImplemented
BY CallsAreCpu, CpuImplementsInterrupts, CpuImplementsIsa

(* Subroutines, handlers and BRK come back to their callers, registers and  *)
(* flags as they were, in every program that leaves the stack to its calls: *)
(* at every depth, round the end of page one, and whatever interrupts       *)
(* interrupt what.                                                         *)
THEOREM CallsReturn == CallsSpec /\ []StackDiscipline => []ReturnsToCaller
<1>1. CallsInv /\ StackDiscipline => ReturnsToCaller
  <2> SUFFICES ASSUME CallsInv, StackDiscipline, unit \in Instructions, todo = <<>>,
                      Op \in {"RTS", "RTI"}, frames # <<>>
               PROVE  /\ Top.kind = (IF Op = "RTS" THEN "call" ELSE "interrupt")
                      /\ pc = Top.back /\ regs.s = Top.regs.s
                      /\ Op = "RTI" => regs = Top.regs /\ regI = Top.i
    BY DEF ReturnsToCaller
  <2>1. Shown = before
    BY DEF Shown, Instructions
  <2>2. BeforeOK /\ frames \in Seq(Frames) /\ Kept(frames, before.mem, before.regs.s) /\ InstructionCourse
    BY <2>1 DEF CallsInv, OnCourse
  <2>3. ShapeOf(opcode) = "Special"
    BY Families DEF Op, SpecialOps
  <2>4. (Op = "RTS" /\ ReturnCourse) \/ (Op = "RTI" /\ ReturnFromInterruptCourse)
    BY <2>2, <2>3 DEF InstructionCourse, SpecialCourse
  <2>5. Balanced
    BY DEF StackDiscipline
  <2> QED
    BY <2>2, <2>4, <2>5, ReturnFinds DEF Balanced
<1> QED
  BY <1>1, CallsInvariant, PTL

(* And in between, no push, dummy cycle, interrupt or store of such a       *)
(* program damages a return address that is still to be used.              *)
THEOREM ReturnAddressesKept == CallsSpec /\ []StackDiscipline => []ReturnAddressesIntact
<1>1. CallsInv => ReturnAddressesIntact
  <2> SUFFICES ASSUME CallsInv, unit = "idle", NEW k \in 1 .. Len(frames)
               PROVE  /\ At(mem, StackAddr(frames[k].regs.s)) = Page(Resume(frames[k]))
                      /\ At(mem, StackAddr(U8(frames[k].regs.s - 1))) = U8(Resume(frames[k]))
    BY DEF ReturnAddressesIntact, Peek, Resume
  <2>1. Shown.mem = mem
    BY DEF Shown, Now
  <2> HIDE DEF Shown
  <2>2. SavedIn(mem, frames[k])
    BY <2>1 DEF CallsInv, Kept
  <2> QED
    BY <2>2 DEF SavedIn
<1> QED
  BY <1>1, CallsInvariant, PTL
-----------------------------------------------------------------------------
(* The strengthening: the device holds bytes, no more of them than came.   *)
DeviceOK ==
  /\ queue \in Seq(Byte)
  /\ raised \in Nat /\ raised <= MaxEvents

SystemInv == CpuTypeOK /\ Scheduled /\ DeviceOK

-----------------------------------------------------------------------------
LEMMA PutByte ==
  ASSUME NEW m, NEW addr \in Word, NEW value \in Byte,
         DOMAIN m \subseteq Word, \A x \in DOMAIN m : m[x] \in Byte
  PROVE  /\ DOMAIN Put(m, addr, value) \subseteq Word
         /\ \A x \in DOMAIN Put(m, addr, value) : Put(m, addr, value)[x] \in Byte
BY DEF Put

LEMMA RestOfQueue ==
  ASSUME NEW q \in Seq(Byte), NEW n \in Nat
  PROVE  SubSeq(q, n + 1, Len(q)) \in Seq(Byte)
OBVIOUS

(* What the device shows is bytes, and to the core it is a move of the IRQ *)
(* pin and of nothing else.                                                *)
LEMMA ShowsKeeps ==
  ASSUME CpuTypeOK, Scheduled, NEW events \in Seq(Byte), NEW latched \in BOOLEAN,
         Shows(events, latched)
  PROVE  SetIrq(latched) /\ DataOK' /\ Scheduled'
<1> DEFINE head  == IF events = <<>> THEN 0 ELSE Head(events)
           inner == Put(mem, Data, head)
<1>1. SetIrq(latched)
  BY DEF Shows, SetIrq
<1>2. DataOK'
  <2>1. head \in Byte
    <3>1. 0 \in Byte
      BY ByteRange
    <3> QED
      BY <3>1
  <2>2. One(latched) \in Byte
    BY ByteRange DEF One
  <2>3. Data \in Word /\ Latch \in Word
    BY DeviceAssumption
  <2>4. DOMAIN mem \subseteq Word /\ \A x \in DOMAIN mem : mem[x] \in Byte
    BY DEF CpuTypeOK
  <2> HIDE DEF head
  <2>5. DOMAIN inner \subseteq Word /\ \A x \in DOMAIN inner : inner[x] \in Byte
    BY <2>1, <2>3, <2>4, PutByte
  <2>6. mem' = Put(inner, Latch, One(latched))
    BY DEF Shows, head
  <2> HIDE DEF inner
  <2>7. DOMAIN mem' \subseteq Word /\ \A x \in DOMAIN mem' : mem'[x] \in Byte
    BY <2>2, <2>3, <2>5, <2>6, PutByte
  <2>8. UNCHANGED <<regs, pc, opcode, t, trace>>
    BY DEF Shows, local
  <2>9. DataOK
    BY DataIsTyped
  <2> QED
    BY <2>7, <2>8, <2>9 DEF DataOK, Cells
<1>3. Scheduled'
  <2>1. UNCHANGED <<unit, used, todo, opcode>>
    BY DEF Shows, control, local
  <2> QED
    BY <2>1 DEF Scheduled, OnPlan
<1> QED
  BY <1>1, <1>2, <1>3

LEMMA TakingNat == Taking \in Nat
BY OneBit DEF Taking

(* One step of the system: a step of the interrupt logic, or none, that    *)
(* keeps every width and the list of cycles.                               *)
LEMMA SystemStep ==
  ASSUME SystemInv, [SystemNext]_systemVars
  PROVE  [Next]_vars /\ DataOK' /\ Scheduled' /\ DeviceOK'
<1> USE DEF SystemInv
<1>1. TypeOK
  BY DEF CpuTypeOK
<1>2. MaxEvents \in Int /\ MaxEvents <= 255
  BY DeviceAssumption, ByteRange
<1>3. CASE Event
  <2>1. /\ raised < MaxEvents /\ raised' = raised + 1
        /\ Shows(Append(queue, raised'), TRUE)
    BY <1>3 DEF Event
  <2>2. raised' \in Byte /\ raised' \in Nat /\ raised' <= MaxEvents
    BY <1>2, <2>1, ByteRange DEF DeviceOK
  <2>3. Append(queue, raised') \in Seq(Byte)
    BY <2>2, Appended DEF DeviceOK
  <2>4. queue' = Append(queue, raised')
    BY <2>1 DEF Shows
  <2>5. SetIrq(TRUE) /\ DataOK' /\ Scheduled'
    BY <2>1, <2>3, ShowsKeeps
  <2> QED
    BY <2>2, <2>3, <2>4, <2>5 DEF DeviceOK, Next, Pins
<1>4. CASE Serve
  <2> DEFINE left    == SubSeq(queue, Taking + 1, Len(queue))
             latched == (irqLine /\ ~Acknowledged) \/ (Taking > 0 /\ left # <<>>)
  <2>1. Shows(left, latched) /\ raised' = raised
    BY <1>4 DEF Serve
  <2>2. left \in Seq(Byte)
    BY TakingNat, RestOfQueue DEF DeviceOK
  <2>3. latched \in BOOLEAN
    OBVIOUS
  <2>4. queue' = left
    BY <2>1 DEF Shows
  <2> HIDE DEF left, latched
  <2>5. SetIrq(latched) /\ DataOK' /\ Scheduled'
    BY <2>1, <2>2, <2>3, ShowsKeeps
  <2> QED
    BY <2>1, <2>2, <2>3, <2>4, <2>5 DEF DeviceOK, Next, Pins
<1>5. CASE Tick \/ Release
  <2>1. CpuPins /\ UNCHANGED <<queue, raised>>
    BY <1>5 DEF Tick, Release, Pulse, CpuPins, Pins
  <2>2. [CpuNext]_cpuVars
    BY <2>1 DEF CpuNext
  <2> QED
    BY <1>1, <2>1, <2>2, StepSimulates, ScheduledStep, DataStep DEF DeviceOK
<1>6. CASE SystemRun \/ UNCHANGED systemVars
  <2>1. [CpuNext]_cpuVars
    BY <1>6 DEF SystemRun, Host, CpuNext, systemVars
  <2>2. UNCHANGED <<queue, raised>>
    BY <1>6 DEF SystemRun, systemVars, device
  <2> QED
    BY <1>1, <2>1, <2>2, StepSimulates, ScheduledStep, DataStep DEF DeviceOK
<1> QED
  BY <1>3, <1>4, <1>5, <1>6 DEF SystemNext

LEMMA SystemInvariant == SystemSpec => []SystemInv
<1>1. SystemInit => SystemInv
  <2> SUFFICES ASSUME SystemInit PROVE SystemInv
    OBVIOUS
  <2>1. CpuInit /\ Init
    BY DEF SystemInit, CpuInit
  <2>2. DeviceOK
    <3>1. <<>> \in Seq(Byte) /\ 0 \in Nat
      OBVIOUS
    <3>2. 0 <= MaxEvents
      BY DeviceAssumption, ByteRange
    <3> QED
      BY <3>1, <3>2 DEF SystemInit, DeviceOK
  <2> QED
    BY <2>1, <2>2, TypeOKInit, DataInit, DataIsTyped, ScheduledInit DEF SystemInv
<1>2. SystemInv /\ [SystemNext]_systemVars => SystemInv'
  <2> SUFFICES ASSUME SystemInv, [SystemNext]_systemVars PROVE SystemInv'
    OBVIOUS
  <2>1. [Next]_vars /\ DataOK' /\ Scheduled' /\ DeviceOK'
    BY SystemStep
  <2>2. TypeOK'
    BY <2>1, TypeOKStep DEF SystemInv, CpuTypeOK
  <2>3. CpuTypeOK' <=> TypeOK' /\ DataOK'
    BY Zenon DEF CpuTypeOK, DataOK, Cells, Accesses, Locals
  <2> QED
    BY <2>1, <2>2, <2>3 DEF SystemInv
<1> QED
  BY <1>1, <1>2, PTL DEF SystemSpec

(* Registers, addresses and bytes keep their width on a bus whose device   *)
(* rewrites the memory between any two accesses.                           *)
THEOREM SystemTypeCorrect == SystemSpec => []CpuTypeOK
<1>1. SystemInv => CpuTypeOK
  BY DEF SystemInv
<1> QED
  BY <1>1, SystemInvariant, PTL

(* The core on the bus with the device is still the interrupt logic: the    *)
(* device's moves of the pin, in the middle of a bus cycle, are moves the   *)
(* logic allows for at any time.                                           *)
THEOREM SystemImplementsInterrupts == SystemSpec => Spec
<1>1. SystemInit => Init
  BY DEF SystemInit, CpuInit
<1>2. SystemInv /\ [SystemNext]_systemVars => [Next]_vars
  BY SystemStep
<1> QED
  BY <1>1, <1>2, SystemInvariant, PTL DEF SystemSpec, Spec

(* No NMI edge is lost, though each of them falls inside a bus access. *)
THEOREM SystemLosesNoNmi == SystemSpec => []NmiNotLost
BY SystemImplementsInterrupts, NmiCorrect

(* A handler that finds the device's request withdrawn is never entered on *)
(* the strength of an earlier one: the line was up since the last call.    *)
THEOREM SystemIrqNotStale == SystemSpec => IrqNotStale
BY SystemImplementsInterrupts, IrqNotStaleCorrect

(* The mask and its delay hold against a line that moves with the program's *)
(* own accesses to the device.                                             *)
THEOREM SystemMasksIrq == SystemSpec => IrqMask
BY SystemImplementsInterrupts, IrqMaskCorrect
=============================================================================
