--------------------------- MODULE BlurPipe_proofs ---------------------------
(***************************************************************************)
(* Theorems about BlurPipe for every size of the image, of the kernel and  *)
(* of its pipeline.                                                        *)
(***************************************************************************)
EXTENDS BlurPipe, SequenceTheorems, TLAPS

(* How many values a stream holds.                                         *)
Held(s) == IF s.empty THEN 0 ELSE IF s.full THEN 2 ELSE 1

StreamOK(s, T) == s \in Stream(T) /\ ~(s.full /\ s.empty)

(* What TypeOK says of the registers; a pixel count that starts again      *)
(* starts at 0.                                                            *)
LineType == LB2D_proc \in [Lines -> [0..(Cols - 1) -> Pixel]]
RegType ==
  /\ TREADY \in BOOLEAN /\ TVALID \in BOOLEAN /\ TDATA \in StencilType
  /\ LB1D_in \in Pixel /\ LB1D_uIn \in Pixel /\ LB1D_it \in BOOLEAN
  /\ LB1D_p_cnt \in 0..PixelTotal /\ (~LB1D_it => LB1D_p_cnt = 0)
  /\ StreamOK(in_stream, Pixel)
  /\ LineType
  /\ LB2D_proc_x \in 0..X /\ LB2D_proc_y \in 0..Y /\ LB2D_proc_w \in Lines
  /\ StreamOK(slice_stream, SliceType)
  /\ LB2D_shift \in [1..(W - 1) -> SliceType]
  /\ LB2D_shift_x \in 0..X /\ LB2D_shift_y \in 0..(Y - W + 1)
  /\ StreamOK(stencil_stream, StencilType)
  /\ gb_p_cnt \in 0..ResultTotal
  /\ gb_pp_it \in [1..(Stages + 1) -> BOOLEAN] /\ gb_exit_it \in [1..Stages -> BOOLEAN]
  /\ written \in 0..Pixels
  /\ taken \in Nat /\ shifted \in Nat /\ shown \in Nat /\ read \in Nat

(* U1 keeps one pixel back; what it passed on waits for U2.                *)
InInv ==
  /\ LB1D_in = written
  /\ ~TREADY => written > 0
  /\ LB1D_uIn = PassedOn
  /\ taken + Held(in_stream) = PassedOn
  /\ ~in_stream.empty => Oldest(in_stream) = taken
  /\ in_stream.full => in_stream.slot0 = taken + 1

(* U2 stands at row LB2D_proc_y and column LB2D_proc_x of the image.       *)
PlaceInv == taken = LB2D_proc_y * X + LB2D_proc_x /\ (taken > 0 => LB2D_proc_x > 0)

(* From the buffer that is overwritten next on, the line buffers hold the  *)
(* last W - 1 rows; left of the column U2 is at, the first one already     *)
(* holds the current row.                                                  *)
RowAt(i, c) == IF i = 0 /\ c < LB2D_proc_x THEN LB2D_proc_y ELSE LB2D_proc_y - (W - 1) + i
LinesInv ==
  \A i \in Lines, c \in 1..X :
    RowAt(i, c) >= 0 => LB2D_proc[(LB2D_proc_w + i) % (W - 1)][c - 1] = RowAt(i, c) * X + c

SliceInv ==
  /\ shifted + Held(slice_stream) = SlicesMade
  /\ ~slice_stream.empty => Oldest(slice_stream) = ImageSlice(shifted + 1)
  /\ slice_stream.full => slice_stream.slot0 = ImageSlice(shifted + 2)

(* The shift register holds the last W - 1 slices.                         *)
SliceOrNone(s) == IF s >= 1 THEN ImageSlice(s) ELSE NoSlice
ShiftInv ==
  /\ LB2D_shift_x = shifted % (X + 1)
  /\ \A j \in 1..(W - 1) : LB2D_shift[j] = SliceOrNone(shifted - (W - 1) + j)

StencilInv ==
  /\ shown + Held(stencil_stream) = StencilsMade(shifted)
  /\ ~stencil_stream.empty => Oldest(stencil_stream) = Window(StencilSlice(shown + 1))
  /\ stencil_stream.full => stencil_stream.slot0 = Window(StencilSlice(shown + 2))

(* After f steps of the kernel f results have entered the pipeline, and    *)
(* those that have passed all but one of its stages have left it.          *)
KernelAt(f) ==
  /\ gb_p_cnt = IF f < ResultTotal THEN f ELSE ResultTotal
  /\ \A i \in 1..(Stages + 1) : gb_pp_it[i] <=> f >= i - 1
  /\ \A i \in 1..Stages : gb_exit_it[i] <=> f >= ResultTotal + i
  /\ Delivered = IF f < Stages - 1 THEN 0
                 ELSE IF f < ResultTotal + Stages - 1 THEN f - (Stages - 1)
                 ELSE ResultTotal
KernelInv == \E f \in Nat : KernelAt(f)

PipeInv ==
  /\ RegType /\ InInv /\ PlaceInv /\ LinesInv
  /\ SliceInv /\ ShiftInv /\ StencilInv /\ KernelInv

------------------------------------------------------------------------------
(* The sizes are natural numbers, and an image gives at least one result.  *)
LEMMA Sizes ==
  /\ X \in Nat /\ Y \in Nat /\ W \in Nat /\ Cols \in Nat /\ Stages \in Nat /\ Pixels \in Nat
  /\ 2 <= W /\ W <= X /\ W <= Y /\ X < Cols /\ 2 <= Stages
  /\ PixelTotal \in Nat /\ PixelTotal > 0 /\ ResultTotal \in Nat /\ ResultTotal > 0
<1>1. /\ X \in Nat /\ Y \in Nat /\ W \in Nat /\ Cols \in Nat /\ Stages \in Nat /\ Pixels \in Nat
      /\ 2 <= W /\ W <= X /\ W <= Y /\ X < Cols /\ 2 <= Stages
  BY SizeAssumption
<1>3. ASSUME NEW a \in Nat, NEW b \in Nat, a > 0, b > 0 PROVE a * b \in Nat /\ a * b > 0
  BY <1>3
<1>2. PixelTotal \in Nat /\ PixelTotal > 0
  BY <1>1, <1>3 DEF PixelTotal
<1>4. X - W + 1 \in Nat /\ Y - W + 1 \in Nat /\ X - W + 1 > 0 /\ Y - W + 1 > 0
  BY <1>1
<1>5. ResultTotal \in Nat /\ ResultTotal > 0
  BY <1>3, <1>4 DEF ResultTotal
<1> QED
  BY <1>1, <1>2, <1>5

(* Division by a positive number is determined by its remainder.           *)
LEMMA DivMod ==
  ASSUME NEW n \in Nat, n > 0, NEW q \in Int, NEW r \in 0..(n - 1)
  PROVE  (q * n + r) \div n = q /\ (q * n + r) % n = r
<1> DEFINE a == q * n + r
           d == a \div n
           m == a % n
<1>1. q * n \in Int /\ a \in Int
  OBVIOUS
<1>2. d \in Int /\ m \in 0..(n - 1) /\ a = n * d + m
  BY <1>1
<1> HIDE DEF d, m
<1>3. ASSUME d < q PROVE FALSE
  <2>1. n * (d + 1) <= n * q
    BY <1>2, <1>3
  <2> QED
    BY <1>2, <2>1
<1>4. ASSUME d > q PROVE FALSE
  <2>1. n * (q + 1) <= n * d
    BY <1>2, <1>4
  <2> QED
    BY <1>2, <2>1
<1>5. d = q
  BY <1>2, <1>3, <1>4
<1>6. m = r
  BY <1>2, <1>5
<1> QED
  BY <1>5, <1>6 DEF d, m

(* Every number is a multiple and a remainder.                             *)
LEMMA Remainder ==
  ASSUME NEW n \in Nat, n > 0, NEW a \in Int
  PROVE  a \div n \in Int /\ a % n \in 0..(n - 1) /\ a = n * (a \div n) + (a % n)
  OBVIOUS

(* Counting on by one.                                                     *)
LEMMA Successor ==
  ASSUME NEW n \in Nat, n > 0, NEW a \in Nat
  PROVE  /\ (a + 1) % n = IF a % n = n - 1 THEN 0 ELSE (a % n) + 1
         /\ (a + 1) \div n = IF a % n = n - 1 THEN a \div n + 1 ELSE a \div n
<1> DEFINE q == a \div n
           r == a % n
<1>1. q \in Int /\ r \in 0..(n - 1) /\ a = n * q + r
  BY Remainder
<1> HIDE DEF q, r
<1>2. CASE r = n - 1
  <2>1. a + 1 = (q + 1) * n + 0 /\ 0 \in 0..(n - 1) /\ q + 1 \in Int
    BY <1>1, <1>2
  <2>2. (a + 1) % n = 0 /\ (a + 1) \div n = q + 1
    BY <2>1, DivMod
  <2> QED
    BY <1>2, <2>2 DEF q, r
<1>3. CASE r # n - 1
  <2>1. a + 1 = q * n + (r + 1) /\ r + 1 \in 0..(n - 1)
    BY <1>1, <1>3
  <2>2. (a + 1) % n = r + 1 /\ (a + 1) \div n = q
    BY <1>1, <2>1, DivMod
  <2> QED
    BY <1>3, <2>2 DEF q, r
<1> QED
  BY <1>2, <1>3

(* Streams: what goes in and out, and how many values are there then.      *)
LEMMA PushStream ==
  ASSUME NEW T, NEW s, StreamOK(s, T), ~s.full, NEW v \in T
  PROVE  /\ StreamOK(Push(s, v), T)
         /\ Held(Push(s, v)) = Held(s) + 1
         /\ ~Push(s, v).empty
         /\ Oldest(Push(s, v)) = IF s.empty THEN v ELSE Oldest(s)
         /\ Push(s, v).slot0 = v
         /\ Push(s, v).full <=> ~s.empty
<1>1. /\ s.full = FALSE /\ s.empty \in BOOLEAN /\ s.slot0 \in T
      /\ Push(s, v) \in Stream(T)
      /\ Push(s, v).full = ~s.empty /\ Push(s, v).empty = FALSE
      /\ Push(s, v).slot0 = v /\ Push(s, v).slot1 = s.slot0
  BY DEF StreamOK, Stream, Push
<1> DEFINE p == Push(s, v)
<1> HIDE DEF p
<1>2. ASSUME s.empty PROVE StreamOK(p, T) /\ Held(p) = 1 /\ Oldest(p) = v /\ Held(s) = 0 /\ ~p.full
  <2>1. p.full = FALSE
    BY <1>1, <1>2 DEF p
  <2> QED
    BY <1>1, <1>2, <2>1 DEF StreamOK, Held, Oldest, p
<1>3. ASSUME ~s.empty
      PROVE  StreamOK(p, T) /\ Held(p) = 2 /\ Oldest(p) = Oldest(s) /\ Held(s) = 1 /\ p.full
  <2>1. p.full = TRUE
    BY <1>1, <1>3 DEF p
  <2> QED
    BY <1>1, <1>3, <2>1 DEF StreamOK, Held, Oldest, p
<1> QED
  BY <1>1, <1>2, <1>3 DEF p

(* What a unit finds at the end of a stream when it takes a value.         *)
LEMMA PopStream ==
  ASSUME NEW T, NEW s, StreamOK(s, T), ~s.empty
  PROVE  /\ StreamOK(Pop(s), T)
         /\ Held(Pop(s)) = Held(s) - 1
         /\ Oldest(s) \in T
         /\ ~Pop(s).full
         /\ Pop(s).empty <=> ~s.full
         /\ Oldest(Pop(s)) = s.slot0
<1>1. /\ s.empty = FALSE /\ s.full \in BOOLEAN /\ s.slot0 \in T /\ s.slot1 \in T
      /\ Pop(s) \in Stream(T)
      /\ Pop(s).full = FALSE /\ Pop(s).empty = ~s.full /\ Pop(s).slot0 = s.slot0
  BY DEF StreamOK, Stream, Pop
<1> DEFINE p == Pop(s)
<1> HIDE DEF p
<1>2. ASSUME s.full
      PROVE  /\ StreamOK(p, T) /\ Held(p) = 1 /\ Oldest(p) = s.slot0 /\ Held(s) = 2
             /\ ~p.empty /\ Oldest(s) = s.slot1
  <2>1. p.empty = FALSE
    BY <1>1, <1>2 DEF p
  <2> QED
    BY <1>1, <1>2, <2>1 DEF StreamOK, Held, Oldest, p
<1>3. ASSUME ~s.full
      PROVE  /\ StreamOK(p, T) /\ Held(p) = 0 /\ Oldest(p) = s.slot0 /\ Held(s) = 1
             /\ p.empty /\ Oldest(s) = s.slot0
  <2>1. p.empty = TRUE
    BY <1>1, <1>3 DEF p
  <2> QED
    BY <1>1, <1>3, <2>1 DEF StreamOK, Held, Oldest, p
<1> QED
  BY <1>1, <1>2, <1>3 DEF p

(* An empty stream stays as it is when it is popped or cleared.            *)
LEMMA EmptyStream ==
  ASSUME NEW T, NEW s, StreamOK(s, T), s.empty
  PROVE  Pop(s) = s /\ Clear(s) = s /\ Oldest(s) \in T /\ ~s.full /\ Held(s) = 0
  BY DEF StreamOK, Stream, Pop, Clear, Oldest, Held

(* A stream of two slots holds two values when full and none when empty.   *)
LEMMA HeldType ==
  ASSUME NEW T, NEW s, StreamOK(s, T)
  PROVE  /\ Held(s) \in 0..2
         /\ Held(s) = 0 <=> s.empty
         /\ Held(s) = 2 <=> s.full
  BY DEF StreamOK, Stream, Held

(* A stream whose values are those of g waits with g.                      *)
LEMMA WaitingIs ==
  ASSUME NEW T, NEW s, StreamOK(s, T), NEW n, n = Held(s), NEW g,
         g = [k \in 1..n |-> g[k]],
         ~s.empty => g[1] = Oldest(s),
         s.full => g[2] = s.slot0
  PROVE  Waiting(s) = g
<1>1. CASE s.empty
  BY <1>1 DEF Waiting, Held, StreamOK, Stream
<1>2. CASE ~s.empty /\ ~s.full
  BY <1>2 DEF Waiting, Held, Oldest, StreamOK, Stream
<1>3. CASE ~s.empty /\ s.full
  BY <1>3 DEF Waiting, Held, Oldest, StreamOK, Stream
<1> QED
  BY <1>1, <1>2, <1>3

------------------------------------------------------------------------------
(* The registers keep their types.                                         *)

LEMMA NoSliceType == NoSlice \in SliceType /\ NoStencil \in StencilType
  BY Sizes DEF NoSlice, NoStencil, SliceType, StencilType, Pixel

LEMMA InitType == Init => RegType
<1> SUFFICES ASSUME Init PROVE RegType
  OBVIOUS
<1>1. ASSUME NEW T, NEW v \in T PROVE StreamOK(NewStream(v), T)
  BY <1>1 DEF StreamOK, Stream, NewStream
<1>2. StreamOK(in_stream, Pixel) /\ StreamOK(slice_stream, SliceType)
      /\ StreamOK(stencil_stream, StencilType)
  BY <1>1, NoSliceType, Sizes DEF Init, Pixel
<1>3. TREADY \in BOOLEAN /\ TVALID \in BOOLEAN /\ LB1D_it \in BOOLEAN
  BY DEF Init
<1>4. /\ gb_pp_it \in [1..(Stages + 1) -> BOOLEAN]
      /\ gb_exit_it \in [1..Stages -> BOOLEAN]
  BY Sizes DEF Init
<1>5. LineType /\ LB2D_shift \in [1..(W - 1) -> SliceType] /\ LB2D_proc_w \in Lines
  BY NoSliceType, Sizes DEF Init, LineType, Lines, Pixel
<1>6. /\ TDATA \in StencilType /\ LB1D_in \in Pixel /\ LB1D_uIn \in Pixel
      /\ LB1D_p_cnt \in 0..PixelTotal /\ LB1D_p_cnt = 0
      /\ LB2D_proc_x \in 0..X /\ LB2D_proc_y \in 0..Y
      /\ LB2D_shift_x \in 0..X /\ LB2D_shift_y \in 0..(Y - W + 1)
      /\ gb_p_cnt \in 0..ResultTotal
      /\ written \in 0..Pixels
      /\ taken \in Nat /\ shifted \in Nat /\ shown \in Nat /\ read \in Nat
  BY NoSliceType, Sizes DEF Init, Pixel
<1> QED
  BY <1>2, <1>3, <1>4, <1>5, <1>6 DEF RegType

LEMMA WriType == ASSUME RegType, WRI PROVE RegType'
<1>1. TREADY' \in BOOLEAN
  BY DEF WRI
<1>2. LB1D_in' \in Pixel /\ written' \in 0..Pixels
  BY Sizes DEF RegType, WRI, Pixel
<1> QED
  BY <1>1, <1>2 DEF RegType, LineType, WRI, proc, shift, kernel

LEMMA U1Type == ASSUME RegType, U1 PROVE RegType'
<1>1. StreamOK(in_stream', Pixel)
  BY PushStream DEF RegType, U1, U1Decode
<1>2. TREADY' \in BOOLEAN
  BY DEF U1
<1>3. LB1D_uIn' \in Pixel
  BY DEF RegType, U1
<1>4. /\ LB1D_it' \in BOOLEAN
      /\ LB1D_p_cnt' \in 0..PixelTotal /\ (~LB1D_it' => LB1D_p_cnt' = 0)
  <2>1. CASE LB1D_it /\ LB1D_p_cnt = PixelTotal
    BY <2>1, Sizes DEF U1
  <2>2. CASE ~(LB1D_it /\ LB1D_p_cnt = PixelTotal)
    <3>1. LB1D_it' = TRUE /\ LB1D_p_cnt' = LB1D_p_cnt + 1
      BY <2>2 DEF U1
    <3>2. LB1D_p_cnt # PixelTotal
      BY <2>2, Sizes DEF RegType
    <3> QED
      BY <3>1, <3>2, Sizes DEF RegType
  <2> QED
    BY <2>1, <2>2
<1> QED
  BY <1>1, <1>2, <1>3, <1>4 DEF RegType, LineType, U1, proc, shift, kernel

LEMMA SliceOk == ASSUME RegType, NEW v \in Pixel PROVE Slice(v) \in SliceType
<1>1. ASSUME NEW i \in 0..(W - 2) PROVE (LB2D_proc_w + i) % (W - 1) \in Lines
  BY Sizes DEF RegType, Lines
<1>2. Column(LB2D_proc_x) \in 0..(Cols - 1)
  BY Sizes DEF RegType, Column
<1>3. ASSUME NEW l \in Lines PROVE LB2D_proc[l][Column(LB2D_proc_x)] \in Pixel
  BY <1>2, <1>3 DEF RegType, LineType
<1>4. ASSUME NEW i \in 0..(W - 1), i # W - 1 PROVE i \in 0..(W - 2)
  BY <1>4, Sizes
<1> QED
  BY <1>1, <1>3, <1>4 DEF Slice, SliceType

LEMMA U2Type == ASSUME RegType, U2 PROVE RegType'
<1> DEFINE pixel == Oldest(in_stream)
<1>1. StreamOK(in_stream', Pixel) /\ pixel \in Pixel
  BY PopStream DEF RegType, U2
<1>2. StreamOK(slice_stream', SliceType)
  <2>1. CASE LB2D_proc_y < W - 1
    BY <2>1 DEF U2, RegType, StreamOK, Stream, Clear
  <2>2. CASE ~(LB2D_proc_y < W - 1)
    BY <1>1, <2>2, SliceOk, PushStream DEF U2, RegType
  <2> QED
    BY <2>1, <2>2
<1>3. LineType'
  BY <1>1 DEF U2, RegType, LineType
<1>4. LB2D_proc_x' \in 0..X /\ LB2D_proc_y' \in 0..Y /\ LB2D_proc_w' \in Lines
  <2>1. ASSUME NEW last \in Nat, NEW n \in 0..last, NEW first \in 0..last
        PROVE  Following(n, last, first) \in 0..last
    BY DEF Following
  <2>2. /\ LB2D_proc_x \in 0..X /\ LB2D_proc_y \in 0..Y /\ LB2D_proc_w \in 0..(W - 2)
        /\ 1 \in 0..X /\ 0 \in 0..Y /\ 0 \in 0..(W - 2) /\ W - 2 \in Nat
    BY Sizes DEF RegType, Lines
  <2>3. /\ Following(LB2D_proc_x, X, 1) \in 0..X
        /\ Following(LB2D_proc_y, Y, 0) \in 0..Y
        /\ Following(LB2D_proc_w, W - 2, 0) \in 0..(W - 2)
    BY <2>1, <2>2, Sizes
  <2> QED
    BY <2>2, <2>3 DEF U2, Lines
<1>5. taken' \in Nat
  BY DEF U2, RegType
<1> QED
  BY <1>1, <1>2, <1>3, <1>4, <1>5 DEF RegType, U2, ports, lb1d, shift, kernel

(* A stencil is the shift register and one slice more.                     *)
LEMMA AppendStencil ==
  ASSUME NEW r \in [1..(W - 1) -> SliceType], NEW v \in SliceType
  PROVE  /\ Append(r, v) \in StencilType
         /\ \A j \in 1..W : Append(r, v)[j] = IF j = W THEN v ELSE r[j]
<1>1. r \in Seq(SliceType) /\ Len(r) = W - 1
  <2>1. W - 1 \in Nat /\ DOMAIN r = 1..(W - 1)
    BY Sizes
  <2>2. r \in Seq(SliceType)
    BY <2>1, IsASeq
  <2>3. Len(r) \in Nat /\ DOMAIN r = 1..Len(r)
    BY <2>2, LenProperties
  <2> QED
    BY <2>1, <2>2, <2>3
<1>2. /\ Append(r, v) \in Seq(SliceType)
      /\ Len(Append(r, v)) = W
      /\ \A j \in 1..(W - 1) : Append(r, v)[j] = r[j]
      /\ Append(r, v)[W] = v
  BY <1>1, AppendProperties, Sizes
<1>3. Append(r, v) \in StencilType
  <2>1. Append(r, v) \in [1..Len(Append(r, v)) -> SliceType]
    BY <1>2, LenProperties, ElementOfSeq
  <2> QED
    BY <1>2, <2>1 DEF StencilType
<1> QED
  BY <1>2, <1>3, Sizes

LEMMA U3Type == ASSUME RegType, U3 PROVE RegType'
<1> DEFINE slice == Oldest(slice_stream)
<1>1. StreamOK(slice_stream', SliceType) /\ slice \in SliceType
  BY PopStream DEF RegType, U3, U3Decode
<1>2. StreamOK(stencil_stream', StencilType)
  <2>1. CASE SkipsStencil
    BY <2>1 DEF U3, RegType
  <2>2. CASE ~SkipsStencil
    <3>1. Append(LB2D_shift, slice) \in StencilType
      BY <1>1, AppendStencil DEF RegType
    <3> QED
      BY <3>1, <2>2, PushStream DEF U3, U3Decode, RegType
  <2> QED
    BY <2>1, <2>2
<1>3. LB2D_shift' \in [1..(W - 1) -> SliceType]
  <2>1. ASSUME NEW j \in 1..(W - 1), j # W - 1 PROVE j + 1 \in 1..(W - 1)
    BY <2>1, Sizes
  <2> QED
    BY <1>1, <2>1 DEF U3, RegType
<1>4. LB2D_shift_x' \in 0..X
  BY Sizes DEF U3, RegType, Following
<1>5. LB2D_shift_y' \in 0..(Y - W + 1)
  BY Sizes DEF U3, RegType
<1>6. shifted' \in Nat
  BY DEF U3, RegType
<1> QED
  BY <1>1, <1>2, <1>3, <1>4, <1>5, <1>6 DEF RegType, LineType, U3, ports, lb1d, proc, kernel

LEMMA U4Type == ASSUME RegType, U4 PROVE RegType'
<1>1. StreamOK(stencil_stream', StencilType) /\ TDATA' \in StencilType
  BY PopStream, EmptyStream DEF RegType, U4
<1>2. TVALID' \in BOOLEAN
  BY DEF U4, Delivers
<1>3. /\ gb_pp_it' \in [1..(Stages + 1) -> BOOLEAN]
      /\ gb_exit_it' \in [1..Stages -> BOOLEAN]
  <2>1. ASSUME NEW i \in 1..Stages, i # 1 PROVE gb_exit_it[i - 1] \in BOOLEAN
    BY <2>1, Sizes DEF RegType
  <2>2. \A i \in 1..Stages : (IF i = 1 THEN gb_p_cnt = ResultTotal ELSE gb_exit_it[i - 1]) \in BOOLEAN
    BY <2>1
  <2>3. \A i \in 1..(Stages + 1) : (i = 1 \/ gb_pp_it[i - 1]) \in BOOLEAN
    OBVIOUS
  <2>4. gb_pp_it' = [i \in 1..(Stages + 1) |-> i = 1 \/ gb_pp_it[i - 1]]
    BY DEF U4
  <2>5. gb_exit_it' = [i \in 1..Stages |-> IF i = 1 THEN gb_p_cnt = ResultTotal ELSE gb_exit_it[i - 1]]
    BY DEF U4
  <2> QED
    BY <2>2, <2>3, <2>4, <2>5
<1>4. gb_p_cnt' \in 0..ResultTotal
  BY Sizes DEF U4, RegType
<1>5. shown' \in Nat
  BY DEF U4, RegType
<1> QED
  BY <1>1, <1>2, <1>3, <1>4, <1>5 DEF RegType, LineType, U4, lb1d, proc, shift

LEMMA RdiType == ASSUME RegType, RDI PROVE RegType'
<1>1. TVALID' \in BOOLEAN
  BY DEF RDI
<1>2. read' \in Nat
  BY DEF RDI, RegType
<1> QED
  BY <1>1, <1>2 DEF RegType, LineType, RDI, lb1d, proc, shift, kernel

------------------------------------------------------------------------------
(* The first stream: from U1 to U2.                                        *)

LEMMA U1In == ASSUME RegType, InInv, U1 PROVE InInv'
<1>1. /\ ~TREADY /\ TREADY' /\ ~in_stream.full /\ written' = written /\ taken' = taken
      /\ LB1D_in' = LB1D_in /\ LB1D_uIn' = LB1D_in
      /\ in_stream' = Push(in_stream, LB1D_uIn)
  BY DEF U1, U1Decode
<1>2. PassedOn = written - 1 /\ PassedOn' = written
  BY <1>1 DEF PassedOn
<1>3. /\ Held(in_stream') = Held(in_stream) + 1
      /\ Oldest(in_stream') = IF in_stream.empty THEN LB1D_uIn ELSE Oldest(in_stream)
      /\ in_stream'.slot0 = LB1D_uIn
      /\ in_stream'.full <=> ~in_stream.empty
  BY <1>1, PushStream DEF RegType
<1>4. /\ in_stream.empty => Held(in_stream) = 0
      /\ ~in_stream.empty => Held(in_stream) = 1
      /\ Held(in_stream) \in Nat
  BY <1>1 DEF Held
<1>5. taken' + Held(in_stream') = PassedOn'
  BY <1>1, <1>2, <1>3, <1>4 DEF RegType, InInv
<1>6. Oldest(in_stream') = taken'
  BY <1>1, <1>2, <1>3, <1>4 DEF RegType, InInv
<1>7. in_stream'.full => in_stream'.slot0 = taken' + 1
  BY <1>1, <1>2, <1>3, <1>4 DEF RegType, InInv
<1> QED
  BY <1>1, <1>2, <1>5, <1>6, <1>7 DEF InInv

LEMMA U2In == ASSUME RegType, InInv, U2 PROVE InInv'
<1>1. /\ ~in_stream.empty /\ TREADY' = TREADY /\ written' = written /\ taken' = taken + 1
      /\ LB1D_in' = LB1D_in /\ LB1D_uIn' = LB1D_uIn
      /\ in_stream' = Pop(in_stream)
  BY DEF U2, ports, lb1d
<1>2. PassedOn' = PassedOn
  BY <1>1 DEF PassedOn
<1>3. /\ Held(in_stream') = Held(in_stream) - 1
      /\ Oldest(in_stream') = in_stream.slot0
      /\ ~in_stream'.full
      /\ in_stream'.empty <=> ~in_stream.full
  BY <1>1, PopStream DEF RegType
<1>4. Held(in_stream) \in Nat
  BY DEF Held
<1>5. taken' + Held(in_stream') = PassedOn'
  BY <1>1, <1>2, <1>3, <1>4 DEF RegType, InInv
<1>6. ~in_stream'.empty => Oldest(in_stream') = taken'
  BY <1>1, <1>3 DEF InInv
<1> QED
  BY <1>1, <1>2, <1>3, <1>5, <1>6 DEF InInv

LEMMA WriIn == ASSUME RegType, InInv, WRI PROVE InInv'
<1>1. /\ TREADY /\ ~TREADY' /\ written' = written + 1 /\ LB1D_in' = written + 1
      /\ LB1D_uIn' = LB1D_uIn /\ taken' = taken /\ in_stream' = in_stream
  BY DEF WRI
<1>2. PassedOn' = PassedOn
  BY <1>1 DEF PassedOn, RegType
<1> QED
  BY <1>1, <1>2 DEF InInv, RegType

(* U2 has taken no more than was written, and counts on while it can.      *)
LEMMA TakenBound == ASSUME RegType, InInv PROVE taken + Held(in_stream) <= Pixels
<1>1. PassedOn <= written
  BY DEF PassedOn, RegType
<1> QED
  BY <1>1, Sizes DEF InInv, RegType, PassedOn

(* Multiples of the width of the image.                                    *)
LEMMA Times ==
  ASSUME NEW a \in Int, NEW b \in Int
  PROVE  /\ a * X \in Int
         /\ a <= b => a * X <= b * X
         /\ (a + b) * X = a * X + b * X
         /\ 1 * X = X
  BY Sizes

(* U2 counts rows and columns: it is at pixel row * X + column.            *)
LEMMA U2Place ==
  ASSUME RegType, InInv, PlaceInv, U2
  PROVE  /\ PlaceInv'
         /\ LB2D_proc_x' = IF LB2D_proc_x = X THEN 1 ELSE LB2D_proc_x + 1
         /\ LB2D_proc_y' = IF LB2D_proc_x = X THEN LB2D_proc_y + 1 ELSE LB2D_proc_y
<1> DEFINE y == LB2D_proc_y
           x == LB2D_proc_x
<1>1. y \in 0..Y /\ x \in 0..X /\ taken' = taken + 1 /\ taken \in Nat
  BY DEF RegType, U2
<1>2. taken < X * (Y + 1)
  <2>1. Held(in_stream) > 0
    BY DEF U2, Held
  <2> QED
    BY <1>1, <2>1, TakenBound, SizeAssumption, Sizes DEF RegType, Held
<1>3. ~(x = X /\ y = Y)
  <2>1. X * (Y + 1) = Y * X + X
    BY Sizes
  <2> QED
    BY <1>1, <1>2, <2>1, Times, Sizes DEF PlaceInv
<1>4. x' = IF x = X THEN 1 ELSE x + 1
  BY DEF U2, Following
<1>5. y' = IF x = X THEN y + 1 ELSE y
  BY <1>3 DEF U2, Following
<1>6. PlaceInv'
  <2>1. CASE x = X
    <3>1. (y + 1) * X = y * X + X
      BY <1>1, Times, Sizes
    <3>2. y * X \in Int
      BY <1>1, Times
    <3> HIDE DEF y, x
    <3>3. taken' = y' * X + x'
      BY <1>1, <1>4, <1>5, <2>1, <3>1, <3>2, Sizes DEF PlaceInv, y, x
    <3> QED
      BY <1>4, <2>1, <3>3, Sizes DEF PlaceInv, y, x
  <2>2. CASE x # X
    BY <1>1, <1>4, <1>5, <2>2, Times, Sizes DEF PlaceInv
  <2> QED
    BY <2>1, <2>2
<1> QED
  BY <1>4, <1>5, <1>6

------------------------------------------------------------------------------
(* The line buffers and the second stream: from U2 to U3.                  *)

(* The buffers take turns.                                                 *)
LEMMA LineIndex ==
  ASSUME NEW w \in Lines, NEW i \in Lines
  PROVE  /\ (w + i) % (W - 1) \in Lines
         /\ (w + i) % (W - 1) = w <=> i = 0
         /\ (Following(w, W - 2, 0) + i) % (W - 1) = IF i = W - 2 THEN w ELSE (w + (i + 1)) % (W - 1)
<1>1. /\ W - 1 \in Nat /\ W - 1 > 0 /\ w \in 0..(W - 2) /\ i \in 0..(W - 2)
  BY Sizes DEF Lines
<1>2. \A a, b \in 0..(W - 1) :
        (a + b) % (W - 1) = IF a + b < W - 1 THEN a + b
                            ELSE IF a + b < 2 * (W - 1) THEN a + b - (W - 1) ELSE a + b - 2 * (W - 1)
  BY <1>1, Sizes
<1>3. (w + i) % (W - 1) = IF w + i < W - 1 THEN w + i ELSE w + i - (W - 1)
  BY <1>1, <1>2, Sizes
<1>4. CASE w = W - 2
  <2>1. Following(w, W - 2, 0) = 0
    BY <1>4 DEF Following
  <2>2. (0 + i) % (W - 1) = i
    BY <1>1, <1>2, Sizes
  <2>3. i # W - 2 => (w + (i + 1)) % (W - 1) = i
    BY <1>1, <1>2, <1>4, Sizes
  <2> QED
    BY <1>1, <1>3, <1>4, <2>1, <2>2, <2>3, Sizes DEF Lines
<1>5. CASE w # W - 2
  <2>1. Following(w, W - 2, 0) = w + 1
    BY <1>5 DEF Following
  <2>2. ((w + 1) + i) % (W - 1) = IF w + 1 + i < W - 1 THEN w + 1 + i ELSE w + 1 + i - (W - 1)
    BY <1>1, <1>2, <1>5, Sizes
  <2>3. i # W - 2 => (w + (i + 1)) % (W - 1) = ((w + 1) + i) % (W - 1)
    BY <1>1, Sizes
  <2> QED
    BY <1>1, <1>3, <1>5, <2>1, <2>2, <2>3, Sizes DEF Lines
<1> QED
  BY <1>4, <1>5

(* Columns are counted from 1; the one before the first is the last word.  *)
LEMMA ColumnIs ==
  ASSUME RegType
  PROVE  Column(LB2D_proc_x) = IF LB2D_proc_x = 0 THEN Cols - 1 ELSE LB2D_proc_x - 1
  BY Sizes DEF RegType, Column

(* U2 stores the pixel in the oldest row and goes on to the next buffer at *)
(* the end of a row; the rows above stay.                                  *)
LEMMA U2Lines == ASSUME RegType, InInv, PlaceInv, LinesInv, U2 PROVE LinesInv'
<1> DEFINE w == LB2D_proc_w
           x == LB2D_proc_x
           y == LB2D_proc_y
           k == Column(x)
<1>1. /\ w \in Lines /\ x \in 0..X /\ y \in 0..Y /\ k = IF x = 0 THEN Cols - 1 ELSE x - 1
      /\ k \in 0..(Cols - 1)
  BY ColumnIs, Sizes DEF RegType
<1>2. LB2D_proc' = [LB2D_proc EXCEPT ![w][k] = taken]
  BY DEF U2, InInv
<1>3. /\ \A l \in Lines, c \in 0..(Cols - 1) : l # w \/ c # k => LB2D_proc'[l][c] = LB2D_proc[l][c]
      /\ LB2D_proc'[w][k] = taken
  BY <1>1, <1>2 DEF RegType, LineType
<1>4. taken = y * X + x
  BY DEF PlaceInv
<1>5. /\ x' = IF x = X THEN 1 ELSE x + 1
      /\ y' = IF x = X THEN y + 1 ELSE y
      /\ w' = IF x = X THEN Following(w, W - 2, 0) ELSE w
  BY U2Place DEF U2
<1>6. SUFFICES ASSUME NEW i \in Lines, NEW c \in 1..X, RowAt(i, c)' >= 0
               PROVE  LB2D_proc'[(w' + i) % (W - 1)][c - 1] = RowAt(i, c)' * X + c
  BY DEF LinesInv
<1>7. i \in 0..(W - 2) /\ c - 1 \in 0..(Cols - 1) /\ c - 1 # Cols - 1
  BY Sizes DEF Lines
<1>8. \A j \in Lines : (w + j) % (W - 1) \in Lines /\ ((w + j) % (W - 1) = w <=> j = 0)
  BY <1>1, LineIndex
<1>9. CASE x # X
  <2>1. CASE i = 0 /\ c = x
    <3>1. RowAt(i, c)' = y
      BY <1>1, <1>5, <1>9, <2>1 DEF RowAt
    <3>2. (w' + i) % (W - 1) = w /\ c - 1 = k
      BY <1>1, <1>5, <1>8, <1>9, <2>1
    <3> QED
      BY <1>3, <1>4, <2>1, <3>1, <3>2
  <2>2. CASE ~(i = 0 /\ c = x)
    <3>1. RowAt(i, c)' = RowAt(i, c)
      BY <1>1, <1>5, <1>9, <2>2 DEF RowAt
    <3>2. (w' + i) % (W - 1) # w \/ c - 1 # k
      BY <1>1, <1>5, <1>7, <1>8, <1>9, <2>2
    <3>3. LB2D_proc'[(w' + i) % (W - 1)][c - 1] = LB2D_proc[(w + i) % (W - 1)][c - 1]
      BY <1>3, <1>5, <1>7, <1>8, <1>9, <3>2
    <3> QED
      BY <1>6, <3>1, <3>3 DEF LinesInv
  <2> QED
    BY <2>1, <2>2
<1>10. CASE x = X
  <2>1. RowAt(i, c)' = y + 1 - (W - 1) + i
    <3>1. x' = 1 /\ y' = y + 1
      BY <1>5, <1>10
    <3>2. ~(c < x')
      BY <3>1, Sizes
    <3>3. RowAt(i, c)' = y' - (W - 1) + i
      BY <3>2 DEF RowAt
    <3> QED
      BY <1>1, <1>7, <3>1, <3>3, Sizes
  <2>2. (w' + i) % (W - 1) = IF i = W - 2 THEN w ELSE (w + (i + 1)) % (W - 1)
    BY <1>1, <1>5, <1>10, LineIndex
  <2>3. CASE i = W - 2
    <3>1. RowAt(i, c)' = y
      BY <1>1, <2>1, <2>3, Sizes
    <3>2. CASE c = X
      <4>1. c - 1 = k
        BY <1>1, <1>10, <3>2, Sizes
      <4> QED
        BY <1>3, <1>4, <1>10, <2>2, <2>3, <3>1, <3>2, <4>1
    <3>3. CASE c # X
      <4>1. c - 1 # k /\ c < x
        BY <1>1, <1>10, <3>3, Sizes
      <4>2. LB2D_proc'[w][c - 1] = LB2D_proc[w][c - 1]
        BY <1>1, <1>3, <1>7, <4>1
      <4>3. 0 \in Lines /\ (w + 0) % (W - 1) = w
        BY <1>8, Sizes DEF Lines
      <4>4. RowAt(0, c) = y
        BY <4>1 DEF RowAt
      <4>5. LB2D_proc[w][c - 1] = y * X + c
        BY <1>1, <4>3, <4>4 DEF LinesInv
      <4> QED
        BY <2>2, <2>3, <3>1, <4>2, <4>5
    <3> QED
      BY <3>2, <3>3
  <2>4. CASE i # W - 2
    <3>1. i + 1 \in Lines /\ i + 1 # 0
      BY <1>7, <2>4, Sizes DEF Lines
    <3>2. RowAt(i + 1, c) = RowAt(i, c)'
      BY <1>1, <1>7, <2>1, <3>1, Sizes DEF RowAt
    <3>3. (w + (i + 1)) % (W - 1) \in Lines /\ (w + (i + 1)) % (W - 1) # w
      BY <1>8, <3>1
    <3>4. LB2D_proc[(w + (i + 1)) % (W - 1)][c - 1] = RowAt(i, c)' * X + c
      BY <1>6, <3>1, <3>2 DEF LinesInv
    <3> QED
      BY <1>3, <1>7, <2>2, <2>4, <3>3, <3>4
  <2> QED
    BY <2>3, <2>4
<1> QED
  BY <1>9, <1>10

(* From row W - 1 on, each pixel U2 takes makes the next slice.            *)
LEMMA RowStart ==
  ASSUME RegType, PlaceInv
  PROVE  LB2D_proc_y >= W - 1 <=> taken > (W - 1) * X
<1> DEFINE y == LB2D_proc_y
           x == LB2D_proc_x
<1>1. y \in Nat /\ x \in 0..X /\ taken \in Nat /\ taken = y * X + x /\ (taken > 0 => x > 0)
  BY Sizes DEF RegType, PlaceInv
<1>2. (W - 1) * X \in Int /\ y * X \in Int /\ (W - 1) * X > 0
  BY <1>1, Sizes
<1>3. y >= W - 1 => (W - 1) * X <= y * X
  BY <1>1, Times, Sizes
<1>4. y < W - 1 => y * X + X <= (W - 1) * X
  <2>1. y < W - 1 => (y + 1) * X <= (W - 1) * X
    BY <1>1, Times, Sizes
  <2>2. (y + 1) * X = y * X + X
    BY <1>1, Times, Sizes
  <2> QED
    BY <2>1, <2>2
<1> HIDE DEF y, x
<1>5. y >= W - 1 => taken > (W - 1) * X
  BY <1>1, <1>2, <1>3, Sizes
<1>6. y < W - 1 => taken <= (W - 1) * X
  BY <1>1, <1>2, <1>4, Sizes
<1> QED
  BY <1>1, <1>2, <1>5, <1>6, Sizes DEF y

(* From row W - 1 on the words that U2 collects are a column of the image. *)
LEMMA SliceIsImage ==
  ASSUME RegType, PlaceInv, LinesInv, LB2D_proc_y >= W - 1
  PROVE  Slice(taken) = ImageSlice(taken - (W - 1) * X)
<1> DEFINE x == LB2D_proc_x
           y == LB2D_proc_y
           s == taken - (W - 1) * X
<1>1. y \in Nat /\ taken = y * X + x /\ x \in 1..X /\ taken \in Int
  BY RowStart, Sizes, Times DEF RegType, PlaceInv
<1>2. Column(x) = x - 1
  BY <1>1, ColumnIs
<1>3. ASSUME NEW i \in Lines
      PROVE  LB2D_proc[(LB2D_proc_w + i) % (W - 1)][Column(x)] = s + i * X
  <2>1. i \in 0..(W - 2) /\ y - (W - 1) + i \in Nat
    BY <1>1, Sizes DEF Lines
  <2>2. RowAt(i, x) = y - (W - 1) + i
    BY <1>1 DEF RowAt
  <2>3. LB2D_proc[(LB2D_proc_w + i) % (W - 1)][x - 1] = (y - (W - 1) + i) * X + x
    BY <1>1, <2>1, <2>2 DEF LinesInv
  <2>4. (y - (W - 1) + i) * X = y * X - (W - 1) * X + i * X
    BY <1>1, <2>1, Sizes
  <2>5. y * X \in Int /\ (W - 1) * X \in Int /\ i * X \in Int
    BY <1>1, <2>1, Sizes
  <2> QED
    BY <1>1, <1>2, <2>3, <2>4, <2>5
<1>4. taken = s + (W - 1) * X
  BY <1>1, Sizes
<1>5. ASSUME NEW i \in 0..(W - 1), i # W - 1 PROVE i \in Lines
  BY <1>5, Sizes DEF Lines
<1> HIDE DEF s
<1> QED
  BY <1>3, <1>4, <1>5 DEF Slice, ImageSlice, s

(* So what U2 pushes is the next slice.                                    *)
LEMMA U2Slices == ASSUME RegType, InInv, PlaceInv, LinesInv, SliceInv, U2 PROVE SliceInv'
<1> DEFINE base == (W - 1) * X
<1>1. base \in Nat /\ taken \in Nat /\ shifted \in Nat /\ taken' = taken + 1 /\ shifted' = shifted
  <2>1. base \in Nat
    BY Sizes
  <2> QED
    BY <2>1 DEF RegType, U2
<1>2. Held(slice_stream) \in Nat
  BY DEF Held
<1>3. CASE LB2D_proc_y < W - 1
  <2>1. taken <= base
    BY <1>1, <1>3, RowStart, Sizes DEF RegType
  <2>2. SlicesMade = 0 /\ SlicesMade' = 0
    BY <1>1, <2>1 DEF SlicesMade
  <2>3. Held(slice_stream) = 0
    BY <1>1, <1>2, <2>2 DEF SliceInv
  <2>4. slice_stream' = slice_stream
    <3>1. slice_stream.empty
      BY <2>3, HeldType DEF RegType
    <3> QED
      BY <1>3, <3>1, EmptyStream DEF U2, RegType
  <2> QED
    BY <1>1, <2>2, <2>4 DEF SliceInv
<1>4. CASE ~(LB2D_proc_y < W - 1)
  <2>1. LB2D_proc_y >= W - 1 /\ taken > base
    BY <1>4, RowStart, Sizes DEF RegType
  <2>2. SlicesMade = taken - base - 1 /\ SlicesMade' = taken - base
    BY <1>1, <2>1 DEF SlicesMade
  <2>3. /\ slice_stream' = Push(slice_stream, Slice(taken)) /\ ~slice_stream.full
        /\ Slice(taken) \in SliceType
    <3>1. Oldest(in_stream) = taken /\ Oldest(in_stream) \in Pixel
      BY PopStream DEF U2, InInv, RegType
    <3> QED
      BY <1>4, <3>1, SliceOk DEF U2
  <2>4. Slice(taken) = ImageSlice(taken - base)
    BY <2>1, SliceIsImage
  <2> HIDE DEF base
  <2>5. /\ Held(slice_stream') = Held(slice_stream) + 1
        /\ Oldest(slice_stream') = IF slice_stream.empty THEN Slice(taken) ELSE Oldest(slice_stream)
        /\ slice_stream'.slot0 = Slice(taken)
        /\ slice_stream'.full <=> ~slice_stream.empty
    BY <2>3, PushStream DEF RegType
  <2>6. /\ slice_stream.empty => Held(slice_stream) = 0
        /\ ~slice_stream.empty => Held(slice_stream) = 1
    BY <2>3 DEF Held
  <2>7. shifted' + Held(slice_stream') = SlicesMade'
    BY <1>1, <1>2, <2>2, <2>5 DEF SliceInv
  <2>8. /\ slice_stream.empty => shifted + 1 = taken - base
        /\ ~slice_stream.empty => shifted + 2 = taken - base
    BY <1>1, <2>2, <2>6 DEF SliceInv
  <2>9. Oldest(slice_stream') = ImageSlice(shifted' + 1)
    BY <1>1, <2>4, <2>5, <2>8 DEF SliceInv
  <2>10. slice_stream'.full => slice_stream'.slot0 = ImageSlice(shifted' + 2)
    BY <1>1, <2>4, <2>5, <2>8
  <2> QED
    BY <2>7, <2>9, <2>10 DEF SliceInv
<1> QED
  BY <1>3, <1>4

(* U3 takes the next slice.                                                *)
LEMMA U3Slices ==
  ASSUME RegType, SliceInv, U3
  PROVE  SliceInv' /\ Oldest(slice_stream) = ImageSlice(shifted + 1)
<1>1. /\ ~slice_stream.empty /\ slice_stream' = Pop(slice_stream)
      /\ shifted' = shifted + 1 /\ taken' = taken
  BY DEF U3, U3Decode
<1>2. /\ Held(slice_stream') = Held(slice_stream) - 1
      /\ Oldest(slice_stream') = slice_stream.slot0
      /\ ~slice_stream'.full
      /\ slice_stream'.empty <=> ~slice_stream.full
  BY <1>1, PopStream DEF RegType
<1>3. Held(slice_stream) \in Nat /\ shifted \in Nat
  BY DEF Held, RegType
<1>4. shifted + 2 = shifted' + 1
  BY <1>1, <1>3
<1>5. SlicesMade' = SlicesMade
  BY <1>1 DEF SlicesMade
<1>6. shifted' + Held(slice_stream') = SlicesMade'
  BY <1>1, <1>2, <1>3, <1>5 DEF SliceInv
<1>7. ~slice_stream'.empty => Oldest(slice_stream') = ImageSlice(shifted' + 1)
  BY <1>2, <1>4 DEF SliceInv
<1> QED
  BY <1>1, <1>2, <1>6, <1>7 DEF SliceInv

------------------------------------------------------------------------------
(* The shift register and the third stream: from U3 to U4.                 *)

(* U3 shifts it in and counts its column on.                               *)
LEMMA U3Shift == ASSUME RegType, SliceInv, ShiftInv, U3 PROVE ShiftInv'
<1>1. shifted \in Nat /\ shifted' = shifted + 1 /\ LB2D_shift_x = shifted % (X + 1)
  BY DEF RegType, U3, ShiftInv
<1>2. LB2D_shift_x' = shifted' % (X + 1)
  <2>1. LB2D_shift_x' = IF LB2D_shift_x = X THEN 0 ELSE LB2D_shift_x + 1
    BY DEF U3, Following
  <2>2. X + 1 \in Nat /\ X + 1 > 0 /\ (X + 1) - 1 = X
    BY Sizes
  <2>3. (shifted + 1) % (X + 1) = IF shifted % (X + 1) = X THEN 0 ELSE (shifted % (X + 1)) + 1
    BY <1>1, <2>2, Successor
  <2> QED
    BY <1>1, <2>1, <2>3
<1>3. ASSUME NEW j \in 1..(W - 1) PROVE LB2D_shift'[j] = SliceOrNone(shifted' - (W - 1) + j)
  <2>1. LB2D_shift'[j] = IF j = W - 1 THEN Oldest(slice_stream) ELSE LB2D_shift[j + 1]
    BY DEF U3
  <2>2. CASE j = W - 1
    <3>1. shifted' - (W - 1) + j = shifted + 1
      BY <1>1, <2>2, Sizes
    <3> QED
      BY <1>1, <2>1, <2>2, <3>1, U3Slices DEF SliceOrNone
  <2>3. CASE j # W - 1
    <3>1. j + 1 \in 1..(W - 1) /\ shifted' - (W - 1) + j = shifted - (W - 1) + (j + 1)
      BY <1>1, <2>3, Sizes
    <3> QED
      BY <2>1, <2>3, <3>1 DEF ShiftInv
  <2> QED
    BY <2>2, <2>3
<1> QED
  BY <1>2, <1>3 DEF ShiftInv

(* The slices of a window, from the oldest.                                *)
LEMMA WindowAt == ASSUME NEW s \in Int, NEW j \in 1..W PROVE Window(s)[j] = SliceOrNone(s - W + j)
<1>1. Window(s) = [i \in 1..W |-> SliceOrNone(s - W + i)]
  BY DEF Window, SliceOrNone
<1> QED
  BY <1>1

(* The shift register and the next slice are a window of the image.        *)
LEMMA StencilIsWindow ==
  ASSUME RegType, ShiftInv, NEW v \in SliceType, v = ImageSlice(shifted + 1)
  PROVE  Append(LB2D_shift, v) = Window(shifted + 1)
<1> DEFINE a == Append(LB2D_shift, v)
           b == Window(shifted + 1)
<1>1. a = [j \in 1..W |-> a[j]] /\ (\A j \in 1..W : a[j] = IF j = W THEN v ELSE LB2D_shift[j])
  BY AppendStencil DEF RegType, StencilType
<1>2. b = [j \in 1..W |-> b[j]]
  BY DEF Window
<1>3. ASSUME NEW j \in 1..W PROVE b[j] = SliceOrNone(shifted + 1 - W + j)
  <2>1. shifted \in Int
    BY DEF RegType
  <2> QED
    BY <2>1, WindowAt, Sizes
<1>4. ASSUME NEW j \in 1..W PROVE a[j] = b[j]
  <2>1. CASE j = W
    <3>1. shifted + 1 - W + j = shifted + 1 /\ shifted + 1 >= 1
      BY <2>1, Sizes DEF RegType
    <3> QED
      BY <1>1, <1>3, <2>1, <3>1 DEF SliceOrNone
  <2>2. CASE j # W
    <3>1. j \in 1..(W - 1) /\ shifted + 1 - W + j = shifted - (W - 1) + j
      BY <2>2, Sizes DEF RegType
    <3> QED
      BY <1>1, <1>3, <2>2, <3>1 DEF ShiftInv
  <2> QED
    BY <2>1, <2>2
<1> HIDE DEF a, b
<1>5. a = b
  BY <1>1, <1>2, <1>4
<1> QED
  BY <1>5 DEF a, b

(* How the stencils that n slices made are counted: where the next slice   *)
(* makes one, it is the next one's slice.                                  *)
LEMMA NextStencil ==
  ASSUME NEW n \in Nat
  PROVE  LET p == n % (X + 1)
         IN  IF 0 < p /\ p < W - 1 THEN StencilsMade(n + 1) = StencilsMade(n)
             ELSE /\ StencilsMade(n + 1) = StencilsMade(n) + 1
                  /\ StencilSlice(StencilsMade(n) + 1) = n + 1
<1> DEFINE N == X + 1
           q == n \div N
           p == n % N
           P == PerRound
           made(pl) == IF pl = 0 THEN 0 ELSE IF pl < W THEN 1 ELSE pl - W + 2
           of(pl) == IF pl = 0 THEN 1 ELSE W + pl - 1
<1>1. N \in Nat /\ N > 0 /\ N - 1 = X /\ P \in Nat /\ P > 0 /\ P = X - W + 3
  BY Sizes DEF PerRound
<1>2. q \in Int /\ p \in 0..X /\ n = N * q + p
  BY <1>1, Remainder
<1>3. /\ StencilsMade(n) = q * P + made(p)
      /\ StencilsMade(n + 1) = ((n + 1) \div N) * P + made((n + 1) % N)
  BY DEF StencilsMade
<1>4. /\ (n + 1) % N = IF p = X THEN 0 ELSE p + 1
      /\ (n + 1) \div N = IF p = X THEN q + 1 ELSE q
  BY <1>1, Successor
<1>5. ASSUME NEW m \in 0..(P - 1) PROVE StencilSlice(q * P + m + 1) = q * N + of(m)
  <2> DEFINE k == q * P + m + 1
  <2>1. k - 1 = q * P + m
    BY <1>1, <1>2
  <2>2. (q * P + m) \div P = q /\ (q * P + m) % P = m
    BY <1>1, <1>2, DivMod
  <2>3. (k - 1) \div PerRound = q /\ (k - 1) % PerRound = m
    BY <2>1, <2>2
  <2> HIDE DEF k, q
  <2>4. StencilSlice(k) = q * N + of(m)
    BY <2>3 DEF StencilSlice
  <2> QED
    BY <2>4 DEF k
<1> DEFINE c == q * P
           e == q * N
<1>6. c \in Int /\ e \in Int /\ n = e + p /\ (q + 1) * P = c + P
  BY <1>1, <1>2
<1>7. /\ StencilsMade(n) = c + made(p)
      /\ StencilsMade(n + 1) = IF p = X THEN c + P ELSE c + made(p + 1)
  BY <1>1, <1>3, <1>4, <1>6
<1>8. ASSUME NEW m \in 0..(P - 1) PROVE StencilSlice(c + m + 1) = e + of(m)
  BY <1>5
<1> HIDE DEF c, e, q, p, P, N
<1>9. CASE 0 < p /\ p < W - 1
  <2>1. made(p) = 1 /\ made(p + 1) = 1 /\ p # X
    BY <1>2, <1>9, Sizes
  <2>2. StencilsMade(n + 1) = StencilsMade(n)
    BY <1>7, <2>1
  <2> QED
    BY <1>9, <2>2 DEF p, N
<1>10. CASE ~(0 < p /\ p < W - 1)
  <2>1. p = 0 \/ (p >= W - 1 /\ p > 0)
    BY <1>2, <1>10, Sizes
  <2>2. /\ made(p) \in 0..(P - 1) /\ of(made(p)) = p + 1
        /\ IF p = X THEN P = made(p) + 1 ELSE made(p + 1) = made(p) + 1
    BY <1>1, <1>2, <2>1, Sizes
  <2>3. StencilsMade(n + 1) = StencilsMade(n) + 1
    BY <1>6, <1>7, <2>2
  <2>4. StencilSlice(c + made(p) + 1) = e + (p + 1)
    BY <1>8, <2>2
  <2>5. StencilSlice(StencilsMade(n) + 1) = n + 1
    BY <1>2, <1>6, <1>7, <2>4
  <2> QED
    BY <1>10, <2>3, <2>5 DEF p, N
<1> QED
  BY <1>9, <1>10

(* There are no more stencils than slices.                                 *)
LEMMA StencilBound ==
  ASSUME NEW n \in Nat
  PROVE  StencilsMade(n) \in Nat /\ StencilsMade(n) <= n /\ StencilsMade(0) = 0
<1> DEFINE N == X + 1
           q == n \div N
           p == n % N
           made == IF p = 0 THEN 0 ELSE IF p < W THEN 1 ELSE p - W + 2
<1>1. N \in Nat /\ N > 0 /\ N - 1 = X /\ PerRound \in Nat /\ PerRound <= N
  BY Sizes DEF PerRound
<1>2. q \in Int /\ p \in 0..X /\ n = N * q + p
  BY <1>1, Remainder
<1>3. q \in Nat
  <2>1. ASSUME q < 0 PROVE FALSE
    <3> DEFINE u == 0 - q - 1
    <3>1. u \in Nat /\ q = 0 - u - 1
      BY <1>2, <2>1
    <3> HIDE DEF u, q, p
    <3>2. N * u \in Nat
      BY <1>1, <3>1
    <3>3. N * q = 0 - N * u - N
      BY <1>1, <3>1
    <3> QED
      BY <1>1, <1>2, <3>2, <3>3, Sizes
  <2> QED
    BY <1>2, <2>1
<1>4. q * PerRound \in Nat /\ N * q \in Nat /\ q * PerRound <= N * q
  BY <1>1, <1>3
<1>5. made \in Nat /\ made <= p
  BY <1>2, Sizes
<1>6. StencilsMade(n) = q * PerRound + made
  BY DEF StencilsMade
<1>7. StencilsMade(0) = 0
  <2>1. 0 = 0 * N + 0 /\ 0 \in 0..(N - 1)
    BY <1>1
  <2>2. 0 \div N = 0 /\ 0 % N = 0
    BY <1>1, <2>1, DivMod
  <2> QED
    BY <1>1, <2>2 DEF StencilsMade
<1> HIDE DEF q, p, N, made
<1> QED
  BY <1>2, <1>4, <1>5, <1>6, <1>7
(* U3 pushes the next stencil, or none at the beginning of a row.          *)
LEMMA U3Stencils == ASSUME RegType, SliceInv, ShiftInv, StencilInv, U3 PROVE StencilInv'
<1> DEFINE p == shifted % (X + 1)
           v == Oldest(slice_stream)
           w == Append(LB2D_shift, v)
           h == Held(stencil_stream)
<1>1. /\ shifted \in Nat /\ shown \in Nat /\ shifted' = shifted + 1 /\ shown' = shown
      /\ h \in 0..2
  BY HeldType DEF RegType, U3
<1>2. SkipsStencil <=> 0 < p /\ p < W - 1
  BY DEF SkipsStencil, ShiftInv
<1>3. w = Window(shifted + 1) /\ w \in StencilType
  <2>1. v \in SliceType /\ v = ImageSlice(shifted + 1)
    BY U3Slices, PopStream DEF RegType, U3, U3Decode
  <2> QED
    BY <2>1, StencilIsWindow, AppendStencil DEF RegType
<1>4. CASE SkipsStencil
  <2>1. stencil_stream' = stencil_stream
    BY <1>4 DEF U3
  <2>2. StencilsMade(shifted') = StencilsMade(shifted)
    BY <1>1, <1>2, <1>4, NextStencil
  <2> QED
    BY <1>1, <2>1, <2>2 DEF StencilInv
<1>5. CASE ~SkipsStencil
  <2>1. /\ StencilsMade(shifted') = StencilsMade(shifted) + 1
        /\ StencilSlice(StencilsMade(shifted) + 1) = shifted + 1
    BY <1>1, <1>2, <1>5, NextStencil
  <2>2. stencil_stream' = Push(stencil_stream, w) /\ ~stencil_stream.full
    BY <1>5 DEF U3, U3Decode
  <2>3. StreamOK(stencil_stream, StencilType) /\ shown + h = StencilsMade(shifted)
    BY DEF RegType, StencilInv
  <2> HIDE DEF p, v, w
  <2>4. /\ Held(stencil_stream') = h + 1
        /\ Oldest(stencil_stream') = IF stencil_stream.empty THEN w ELSE Oldest(stencil_stream)
        /\ stencil_stream'.slot0 = w
        /\ stencil_stream'.full <=> ~stencil_stream.empty
    BY <1>3, <2>2, <2>3, PushStream
  <2>5. /\ stencil_stream.empty => h = 0
        /\ ~stencil_stream.empty => h = 1
    BY <2>2 DEF Held
  <2> HIDE DEF h
  <2>6. w = Window(StencilSlice(shown + h + 1))
    BY <1>3, <2>1, <2>3
  <2>7. shown' + Held(stencil_stream') = StencilsMade(shifted')
    BY <1>1, <2>1, <2>3, <2>4
  <2>8. Oldest(stencil_stream') = Window(StencilSlice(shown' + 1))
    <3>1. CASE stencil_stream.empty
      <4>1. shown + h + 1 = shown' + 1
        BY <1>1, <2>5, <3>1
      <4> QED
        BY <2>4, <2>6, <3>1, <4>1
    <3>2. CASE ~stencil_stream.empty
      BY <1>1, <2>4, <3>2 DEF StencilInv
    <3> QED
      BY <3>1, <3>2
  <2>9. stencil_stream'.full => stencil_stream'.slot0 = Window(StencilSlice(shown' + 2))
    <3>1. ~stencil_stream.empty => shown + h + 1 = shown' + 2
      BY <1>1, <2>5
    <3> QED
      BY <2>4, <2>6, <3>1
  <2> QED
    BY <2>7, <2>8, <2>9 DEF StencilInv
<1> QED
  BY <1>4, <1>5

(* U4 takes a stencil if one waits.                                        *)
LEMMA U4Stencils == ASSUME RegType, StencilInv, U4 PROVE StencilInv'
<1>1. /\ stencil_stream' = Pop(stencil_stream) /\ shifted' = shifted
      /\ shown' = IF stencil_stream.empty THEN shown ELSE shown + 1
  BY DEF U4
<1>2. StreamOK(stencil_stream, StencilType) /\ shifted \in Nat /\ shown \in Nat
  BY DEF RegType
<1>3. CASE stencil_stream.empty
  <2>1. stencil_stream' = stencil_stream /\ shown' = shown
    BY <1>1, <1>2, <1>3, EmptyStream
  <2> QED
    BY <1>1, <2>1 DEF StencilInv
<1>4. CASE ~stencil_stream.empty
  <2>1. /\ Held(stencil_stream') = Held(stencil_stream) - 1
        /\ Oldest(stencil_stream') = stencil_stream.slot0
        /\ ~stencil_stream'.full
        /\ stencil_stream'.empty <=> ~stencil_stream.full
    BY <1>1, <1>2, <1>4, PopStream
  <2>2. Held(stencil_stream) \in 0..2 /\ shown' = shown + 1
    BY <1>1, <1>2, <1>4, HeldType
  <2>3. shown + 2 = shown' + 1
    BY <1>2, <2>2
  <2>4. shown' + Held(stencil_stream') = StencilsMade(shifted')
    BY <1>1, <1>2, <2>1, <2>2 DEF StencilInv
  <2>5. ~stencil_stream'.empty => Oldest(stencil_stream') = Window(StencilSlice(shown' + 1))
    BY <2>1, <2>3 DEF StencilInv
  <2> QED
    BY <2>1, <2>4, <2>5 DEF StencilInv
<1> QED
  BY <1>3, <1>4

------------------------------------------------------------------------------
(* The kernel's pipeline: a step of U4 is the next of KernelAt, a read     *)
(* leaves it where it is.                                                  *)

LEMMA KernelAdvances ==
  ASSUME RegType, NEW f \in Nat, KernelAt(f), U4, NEW g, g = f + 1
  PROVE  KernelAt(g)'
<1>1. KernelAt(f)
  OBVIOUS
<1>2. Stages \in Nat /\ Stages >= 2 /\ ResultTotal \in Nat /\ ResultTotal > 0
  BY Sizes
<1>3. /\ gb_p_cnt = IF f < ResultTotal THEN f ELSE ResultTotal
      /\ \A i \in 1..(Stages + 1) : gb_pp_it[i] <=> f >= i - 1
      /\ \A i \in 1..Stages : gb_exit_it[i] <=> f >= ResultTotal + i
  BY <1>1 DEF KernelAt
<1>4. gb_p_cnt' = IF f + 1 < ResultTotal THEN f + 1 ELSE ResultTotal
  <2>1. gb_p_cnt' = IF gb_p_cnt < ResultTotal THEN gb_p_cnt + 1 ELSE ResultTotal
    BY DEF U4
  <2> QED
    BY <1>2, <1>3, <2>1
<1>5. ASSUME NEW i \in 1..(Stages + 1) PROVE gb_pp_it'[i] <=> f + 1 >= i - 1
  <2>1. gb_pp_it'[i] = (i = 1 \/ gb_pp_it[i - 1])
    BY DEF U4
  <2>2. CASE i = 1
    <3>1. gb_pp_it'[i]
      BY <2>1, <2>2
    <3>2. f + 1 >= i - 1
      BY <2>2
    <3> QED
      BY <3>1, <3>2
  <2>3. CASE i # 1
    <3>1. i - 1 \in 1..(Stages + 1)
      BY <1>2, <2>3
    <3>2. gb_pp_it[i - 1] <=> f >= i - 2
      BY <1>2, <1>3, <3>1
    <3>3. gb_pp_it'[i] <=> gb_pp_it[i - 1]
      BY <2>1, <2>3
    <3> QED
      BY <1>2, <3>2, <3>3
  <2> QED
    BY <2>2, <2>3
<1>6. ASSUME NEW i \in 1..Stages PROVE gb_exit_it'[i] <=> f + 1 >= ResultTotal + i
  <2>1. gb_exit_it'[i] = IF i = 1 THEN gb_p_cnt = ResultTotal ELSE gb_exit_it[i - 1]
    BY DEF U4
  <2>2. CASE i = 1
    <3>1. gb_exit_it'[i] <=> gb_p_cnt = ResultTotal
      BY <2>1, <2>2
    <3>2. gb_p_cnt = ResultTotal <=> f >= ResultTotal
      BY <1>2, <1>3
    <3> QED
      BY <1>2, <2>2, <3>1, <3>2
  <2>3. CASE i # 1
    <3>1. i - 1 \in 1..Stages
      BY <1>2, <2>3
    <3>2. gb_exit_it[i - 1] <=> f >= ResultTotal + (i - 1)
      BY <1>3, <3>1
    <3>3. gb_exit_it'[i] <=> gb_exit_it[i - 1]
      BY <2>1, <2>3
    <3> QED
      BY <1>2, <3>2, <3>3
  <2> QED
    BY <2>2, <2>3
<1>7. Delivers <=> f >= Stages - 1 /\ f < ResultTotal + Stages - 1
  <2>1. gb_pp_it[Stages] <=> f >= Stages - 1
    BY <1>2, <1>3
  <2>2. gb_exit_it[Stages - 1] <=> f >= ResultTotal + (Stages - 1)
    BY <1>2, <1>3
  <2>3. f < ResultTotal + Stages - 1 <=> ~(f >= ResultTotal + (Stages - 1))
    BY <1>2
  <2> QED
    BY <2>1, <2>2, <2>3 DEF Delivers
<1>8. Delivered' = IF Delivers THEN Delivered + 1 ELSE Delivered
  <2>1. ~TVALID /\ TVALID' = Delivers /\ read' = read /\ read \in Nat
    BY DEF U4, RegType
  <2>2. Delivered = read
    BY <2>1 DEF Delivered
  <2>3. CASE Delivers
    BY <2>1, <2>2, <2>3 DEF Delivered
  <2>4. CASE ~Delivers
    BY <2>1, <2>2, <2>4 DEF Delivered
  <2> QED
    BY <2>3, <2>4
<1>9. Delivered = IF f < Stages - 1 THEN 0
                  ELSE IF f < ResultTotal + Stages - 1 THEN f - (Stages - 1)
                  ELSE ResultTotal
  BY <1>1 DEF KernelAt
<1>10. Delivered' = IF f + 1 < Stages - 1 THEN 0
                    ELSE IF f + 1 < ResultTotal + Stages - 1 THEN (f + 1) - (Stages - 1)
                    ELSE ResultTotal
  <2>1. CASE Delivers
    BY <1>2, <1>7, <1>8, <1>9, <2>1
  <2>2. CASE ~Delivers
    BY <1>2, <1>7, <1>8, <1>9, <2>2
  <2> QED
    BY <2>1, <2>2
<1>12. gb_p_cnt' = IF g < ResultTotal THEN g ELSE ResultTotal
  BY <1>4
<1>13. ASSUME NEW i \in 1..(Stages + 1) PROVE gb_pp_it'[i] <=> g >= i - 1
  BY <1>5
<1>14. ASSUME NEW i \in 1..Stages PROVE gb_exit_it'[i] <=> g >= ResultTotal + i
  BY <1>6
<1>15. Delivered' = IF g < Stages - 1 THEN 0
                    ELSE IF g < ResultTotal + Stages - 1 THEN g - (Stages - 1)
                    ELSE ResultTotal
  BY <1>10
<1> QED
  BY <1>12, <1>13, <1>14, <1>15 DEF KernelAt

LEMMA U4Kernel == ASSUME RegType, KernelInv, U4 PROVE KernelInv'
<1>1. PICK f \in Nat : KernelAt(f)
  BY DEF KernelInv
<1> DEFINE g == f + 1
<1>2. g \in Nat
  OBVIOUS
<1> HIDE DEF g
<1>3. KernelAt(g)'
  BY <1>1, KernelAdvances DEF g
<1> QED
  BY <1>2, <1>3 DEF KernelInv

(* A result that the host reads has left the pipeline already.             *)
LEMMA KernelRests ==
  ASSUME NEW f \in Nat, KernelAt(f), UNCHANGED kernel, Delivered' = Delivered
  PROVE  KernelAt(f)'
  BY DEF KernelAt, kernel

LEMMA RdiKernel == ASSUME RegType, KernelInv, RDI PROVE KernelInv'
<1>1. PICK f \in Nat : KernelAt(f)
  BY DEF KernelInv
<1>2. Delivered' = Delivered
  BY DEF RDI, Delivered, RegType
<1>3. KernelAt(f)'
  BY <1>1, <1>2, KernelRests DEF RDI
<1> QED
  BY <1>3 DEF KernelInv

------------------------------------------------------------------------------
(* The invariant of the whole pipeline.                                    *)

(* The invariant holds after reset.                                        *)
LEMMA PipeInit == Init => PipeInv
<1> SUFFICES ASSUME Init PROVE PipeInv
  OBVIOUS
<1>1. RegType
  BY InitType
<1>2. /\ in_stream.empty /\ ~in_stream.full /\ slice_stream.empty /\ ~slice_stream.full
      /\ stencil_stream.empty /\ ~stencil_stream.full
      /\ Held(in_stream) = 0 /\ Held(slice_stream) = 0 /\ Held(stencil_stream) = 0
  <2>1. in_stream.empty /\ slice_stream.empty /\ stencil_stream.empty
    BY DEF Init, NewStream
  <2> QED
    BY <1>1, <2>1, EmptyStream DEF RegType
<1>3. /\ TREADY /\ LB1D_in = 0 /\ LB1D_uIn = 0 /\ LB2D_proc_x = 0 /\ LB2D_proc_y = 0
      /\ LB2D_shift_x = 0 /\ written = 0 /\ taken = 0 /\ shifted = 0 /\ shown = 0 /\ read = 0
  BY DEF Init
<1>4. InInv
  BY <1>2, <1>3 DEF InInv, PassedOn
<1>5. PlaceInv
  BY <1>3, Sizes DEF PlaceInv
<1>6. LinesInv
  <2>1. ASSUME NEW i \in Lines, NEW c \in 1..X PROVE ~(RowAt(i, c) >= 0)
    BY <1>3, Sizes DEF RowAt, Lines
  <2> QED
    BY <2>1 DEF LinesInv
<1>7. SliceInv
  <2>1. SlicesMade = 0
    <3>1. (W - 1) * X \in Nat
      BY Sizes
    <3> QED
      BY <1>3, <3>1 DEF SlicesMade
  <2> QED
    BY <1>2, <1>3, <2>1 DEF SliceInv
<1>8. ShiftInv
  <2>1. 0 % (X + 1) = 0
    BY Sizes
  <2>2. ASSUME NEW j \in 1..(W - 1) PROVE LB2D_shift[j] = SliceOrNone(0 - (W - 1) + j)
    <3>1. ~(0 - (W - 1) + j >= 1) /\ LB2D_shift[j] = NoSlice
      BY Sizes DEF Init
    <3> QED
      BY <3>1 DEF SliceOrNone
  <2> QED
    BY <1>3, <2>1, <2>2 DEF ShiftInv
<1>9. StencilInv
  BY <1>2, <1>3, StencilBound DEF StencilInv
<1>10. KernelInv
  <2>1. gb_p_cnt = 0 /\ ~TVALID
    BY DEF Init
  <2>2. ASSUME NEW i \in 1..(Stages + 1) PROVE gb_pp_it[i] <=> 0 >= i - 1
    <3>1. gb_pp_it[i] = (i = 1)
      BY DEF Init
    <3>2. i = 1 <=> 0 >= i - 1
      OBVIOUS
    <3> QED
      BY <3>1, <3>2
  <2>3. ASSUME NEW i \in 1..Stages PROVE gb_exit_it[i] <=> 0 >= ResultTotal + i
    <3>1. gb_exit_it[i] = FALSE
      BY DEF Init
    <3>2. ~(0 >= ResultTotal + i)
      BY Sizes
    <3> QED
      BY <3>1, <3>2
  <2>4. Delivered = 0
    BY <1>3, <2>1 DEF Delivered
  <2>5. KernelAt(0)
    BY <2>1, <2>2, <2>3, <2>4, Sizes DEF KernelAt
  <2> QED
    BY <2>5 DEF KernelInv
<1> QED
  BY <1>1, <1>4, <1>5, <1>6, <1>7, <1>8, <1>9, <1>10 DEF PipeInv

(* What the parts of the invariant do not read, they do not notice.        *)
LEMMA InKept ==
  ASSUME InInv, UNCHANGED <<TREADY, LB1D_in, LB1D_uIn, in_stream, written, taken>>
  PROVE  InInv'
  BY DEF InInv, PassedOn

LEMMA LinesKept == ASSUME LinesInv, UNCHANGED proc PROVE LinesInv'
  BY DEF LinesInv, RowAt, proc

LEMMA SliceKept == ASSUME SliceInv, UNCHANGED <<slice_stream, taken, shifted>> PROVE SliceInv'
  BY DEF SliceInv, SlicesMade

LEMMA ShiftKept == ASSUME ShiftInv, UNCHANGED <<shift, shifted>> PROVE ShiftInv'
  BY DEF ShiftInv, shift

LEMMA StencilKept ==
  ASSUME StencilInv, UNCHANGED <<stencil_stream, shifted, shown>> PROVE StencilInv'
  BY DEF StencilInv

LEMMA KernelKept == ASSUME KernelInv, UNCHANGED <<kernel, TVALID, read>> PROVE KernelInv'
<1>1. PICK f \in Nat : KernelAt(f)
  BY DEF KernelInv
<1>2. Delivered' = Delivered
  BY DEF Delivered
<1>3. KernelAt(f)'
  BY <1>1, <1>2, KernelRests
<1> QED
  BY <1>3 DEF KernelInv

(* Every step of every unit keeps every part of the invariant.             *)
LEMMA PipeStep == PipeInv /\ [Next]_vars => PipeInv'
<1> SUFFICES ASSUME PipeInv, [Next]_vars PROVE PipeInv'
  OBVIOUS
<1> USE DEF PipeInv
<1>1. CASE WRI
  <2>1. RegType' /\ InInv'
    BY <1>1, WriType, WriIn
  <2>2. PlaceInv'
    BY <1>1 DEF PlaceInv, WRI, proc
  <2>3. LinesInv' /\ SliceInv' /\ ShiftInv' /\ StencilInv' /\ KernelInv'
    BY <1>1, LinesKept, SliceKept, ShiftKept, StencilKept, KernelKept DEF WRI
  <2> QED
    BY <2>1, <2>2, <2>3
<1>2. CASE U1
  <2>1. RegType' /\ InInv'
    BY <1>2, U1Type, U1In
  <2>2. PlaceInv'
    BY <1>2 DEF PlaceInv, U1, proc
  <2>3. LinesInv' /\ SliceInv' /\ ShiftInv' /\ StencilInv' /\ KernelInv'
    BY <1>2, LinesKept, SliceKept, ShiftKept, StencilKept, KernelKept DEF U1
  <2> QED
    BY <2>1, <2>2, <2>3
<1>3. CASE U2
  <2>1. RegType' /\ InInv' /\ PlaceInv'
    BY <1>3, U2Type, U2In, U2Place
  <2>2. LinesInv' /\ SliceInv'
    BY <1>3, U2Lines, U2Slices
  <2>3. ShiftInv' /\ StencilInv' /\ KernelInv'
    BY <1>3, ShiftKept, StencilKept, KernelKept DEF U2, ports
  <2> QED
    BY <2>1, <2>2, <2>3
<1>4. CASE U3
  <2>1. RegType' /\ SliceInv' /\ ShiftInv' /\ StencilInv'
    BY <1>4, U3Type, U3Slices, U3Shift, U3Stencils
  <2>2. InInv'
    BY <1>4, InKept DEF U3, ports, lb1d
  <2>3. PlaceInv'
    BY <1>4 DEF PlaceInv, U3, proc
  <2>4. LinesInv' /\ KernelInv'
    BY <1>4, LinesKept, KernelKept DEF U3, ports
  <2> QED
    BY <2>1, <2>2, <2>3, <2>4
<1>5. CASE U4
  <2>1. RegType' /\ StencilInv' /\ KernelInv'
    BY <1>5, U4Type, U4Stencils, U4Kernel
  <2>2. InInv'
    BY <1>5, InKept DEF U4, lb1d
  <2>3. PlaceInv'
    BY <1>5 DEF PlaceInv, U4, proc
  <2>4. LinesInv' /\ SliceInv' /\ ShiftInv'
    BY <1>5, LinesKept, SliceKept, ShiftKept DEF U4
  <2> QED
    BY <2>1, <2>2, <2>3, <2>4
<1>6. CASE RDI
  <2>1. RegType' /\ KernelInv'
    BY <1>6, RdiType, RdiKernel
  <2>2. InInv'
    BY <1>6, InKept DEF RDI, lb1d
  <2>3. PlaceInv'
    BY <1>6 DEF PlaceInv, RDI, proc
  <2>4. LinesInv' /\ SliceInv' /\ ShiftInv' /\ StencilInv'
    BY <1>6, LinesKept, SliceKept, ShiftKept, StencilKept DEF RDI
  <2> QED
    BY <2>1, <2>2, <2>3, <2>4
<1>7. CASE UNCHANGED vars
  <2>1. RegType'
    BY <1>7 DEF RegType, LineType, vars, ports, lb1d, proc, shift, kernel
  <2>2. InInv'
    BY <1>7, InKept DEF vars, ports, lb1d
  <2>3. PlaceInv'
    BY <1>7 DEF PlaceInv, vars, proc
  <2>4. LinesInv' /\ SliceInv' /\ ShiftInv' /\ StencilInv' /\ KernelInv'
    BY <1>7, LinesKept, SliceKept, ShiftKept, StencilKept, KernelKept DEF vars, ports
  <2> QED
    BY <2>1, <2>2, <2>3, <2>4
<1> QED
  BY <1>1, <1>2, <1>3, <1>4, <1>5, <1>6, <1>7 DEF Next

(* Every reachable state satisfies the invariant: the six parts of the     *)
(* pipeline agree on which pixel, slice, stencil and result comes next.    *)
THEOREM PipeInvariant == Spec => []PipeInv
  BY PipeInit, PipeStep, PTL DEF Spec

(* The invariant contains the types of all registers, counters and streams.*)
LEMMA PipeTypes == PipeInv => TypeOK
<1> SUFFICES ASSUME PipeInv PROVE TypeOK
  OBVIOUS
<1>1. RegType
  BY DEF PipeInv
<1>2. taken <= Pixels
  BY TakenBound, HeldType, Sizes DEF PipeInv, RegType
<1>3. shifted <= taken
  <2>1. SlicesMade <= taken
    <3>1. (W - 1) * X \in Nat
      BY Sizes
    <3> QED
      BY <1>1, <3>1 DEF SlicesMade, RegType
  <2>2. Held(slice_stream) \in Nat /\ SlicesMade \in Int /\ shifted + Held(slice_stream) = SlicesMade
    <3>1. Held(slice_stream) \in Nat
      BY DEF Held
    <3> QED
      BY <1>1, <3>1 DEF PipeInv, SliceInv, RegType
  <2> QED
    BY <1>1, <2>1, <2>2 DEF RegType
<1>4. shown <= shifted
  <2>1. Held(stencil_stream) \in Nat
    BY DEF Held
  <2>2. shown + Held(stencil_stream) <= shifted
    BY <1>1, StencilBound DEF PipeInv, StencilInv, RegType
  <2> QED
    BY <1>1, <2>1, <2>2 DEF RegType
<1>5. read <= ResultTotal
  <2>1. PICK f \in Nat : KernelAt(f)
    BY DEF PipeInv, KernelInv
  <2>2. Delivered <= ResultTotal
    BY <2>1, Sizes DEF KernelAt
  <2> QED
    BY <1>1, <2>2, Sizes DEF Delivered, RegType
<1> QED
  BY <1>1, <1>2, <1>3, <1>4, <1>5, Sizes DEF TypeOK, RegType, LineType, StreamOK

(* In every reachable state all registers of the accelerator have their    *)
(* types, counters and streams included.                                   *)
THEOREM TypeCorrect == Spec => []TypeOK
  BY PipeInvariant, PipeTypes, PTL

(* However WRI, U1 and U2 interleave, the pixels between U1 and U2 are the *)
(* next ones the host wrote, in order.                                     *)
THEOREM PixelsStayInOrder == Spec => []PixelsInOrder
<1>1. ASSUME PipeInv PROVE PixelsInOrder
  <2> DEFINE n == PassedOn - taken
             g == [k \in 1..n |-> taken + k - 1]
  <2>1. StreamOK(in_stream, Pixel) /\ taken \in Nat
    BY <1>1 DEF PipeInv, RegType
  <2>2. n = Held(in_stream)
    <3>1. Held(in_stream) \in Nat /\ taken + Held(in_stream) = PassedOn
      BY <1>1, <2>1, HeldType DEF PipeInv, InInv
    <3> QED
      BY <2>1, <3>1
  <2>3. g = [k \in 1..n |-> g[k]]
    OBVIOUS
  <2>4. ~in_stream.empty => g[1] = Oldest(in_stream)
    <3>1. ~in_stream.empty => 1 \in 1..n
      BY <2>2 DEF Held
    <3> QED
      BY <1>1, <2>1, <3>1 DEF PipeInv, InInv
  <2>5. in_stream.full => g[2] = in_stream.slot0
    <3>1. in_stream.full => 2 \in 1..n
      BY <2>1, <2>2, HeldType
    <3> QED
      BY <1>1, <2>1, <3>1 DEF PipeInv, InInv
  <2> HIDE DEF g, n
  <2>6. Waiting(in_stream) = g
    BY <2>1, <2>2, <2>3, <2>4, <2>5, WaitingIs
  <2> QED
    BY <2>6 DEF PixelsInOrder, g, n
<1> QED
  BY <1>1, PipeInvariant, PTL

(* However U2 and U3 interleave, the slices between them are the next      *)
(* columns of the image: the rotating line buffers never mix rows.         *)
THEOREM SlicesStayInOrder == Spec => []SlicesInOrder
<1>1. ASSUME PipeInv PROVE SlicesInOrder
  <2> DEFINE n == SlicesMade - shifted
             g == [k \in 1..n |-> ImageSlice(shifted + k)]
  <2>1. StreamOK(slice_stream, SliceType) /\ shifted \in Nat
    BY <1>1 DEF PipeInv, RegType
  <2>2. n = Held(slice_stream)
    <3>1. Held(slice_stream) \in Nat /\ shifted + Held(slice_stream) = SlicesMade
      BY <1>1, <2>1, HeldType DEF PipeInv, SliceInv
    <3> QED
      BY <2>1, <3>1
  <2>3. g = [k \in 1..n |-> g[k]]
    OBVIOUS
  <2>4. ~slice_stream.empty => g[1] = Oldest(slice_stream)
    <3>1. ~slice_stream.empty => 1 \in 1..n
      BY <2>2 DEF Held
    <3> QED
      BY <1>1, <2>1, <3>1 DEF PipeInv, SliceInv
  <2>5. slice_stream.full => g[2] = slice_stream.slot0
    <3>1. slice_stream.full => 2 \in 1..n
      BY <2>1, <2>2, HeldType
    <3> QED
      BY <1>1, <2>1, <3>1 DEF PipeInv, SliceInv
  <2> HIDE DEF g, n
  <2>6. Waiting(slice_stream) = g
    BY <2>1, <2>2, <2>3, <2>4, <2>5, WaitingIs
  <2> QED
    BY <2>6 DEF SlicesInOrder, g, n
<1> QED
  BY <1>1, PipeInvariant, PTL

(* However U3 and U4 interleave, the stencils between them are the next    *)
(* ones, and each is a window of consecutive slices of the image.          *)
THEOREM StencilsStayInOrder == Spec => []StencilsInOrder
<1>1. ASSUME PipeInv PROVE StencilsInOrder
  <2> DEFINE n == StencilsMade(shifted) - shown
             g == [k \in 1..n |-> Window(StencilSlice(shown + k))]
  <2>1. StreamOK(stencil_stream, StencilType) /\ shown \in Nat
    BY <1>1 DEF PipeInv, RegType
  <2>2. n = Held(stencil_stream)
    <3>1. Held(stencil_stream) \in Nat /\ shown + Held(stencil_stream) = StencilsMade(shifted)
      BY <1>1, <2>1, HeldType DEF PipeInv, StencilInv
    <3> QED
      BY <2>1, <3>1
  <2>3. g = [k \in 1..n |-> g[k]]
    OBVIOUS
  <2>4. ~stencil_stream.empty => g[1] = Oldest(stencil_stream)
    <3>1. ~stencil_stream.empty => 1 \in 1..n
      BY <2>2 DEF Held
    <3> QED
      BY <1>1, <2>1, <3>1 DEF PipeInv, StencilInv
  <2>5. stencil_stream.full => g[2] = stencil_stream.slot0
    <3>1. stencil_stream.full => 2 \in 1..n
      BY <2>1, <2>2, HeldType
    <3> QED
      BY <1>1, <2>1, <3>1 DEF PipeInv, StencilInv
  <2> HIDE DEF g, n
  <2>6. Waiting(stencil_stream) = g
    BY <2>1, <2>2, <2>3, <2>4, <2>5, WaitingIs
  <2> QED
    BY <2>6 DEF StencilsInOrder, g, n
<1> QED
  BY <1>1, PipeInvariant, PTL

(* An image never yields more results than it should, and has yielded all  *)
(* of them when the last stage of the kernel knows of the end.             *)
THEOREM ResultsStayCounted == Spec => []ResultsCounted
<1>1. ASSUME PipeInv PROVE ResultsCounted
  <2>1. PICK f \in Nat : KernelAt(f)
    BY <1>1 DEF PipeInv, KernelInv
  <2>2. gb_exit_it[Stages] <=> f >= ResultTotal + Stages
    BY <2>1, Sizes DEF KernelAt
  <2> QED
    BY <2>1, <2>2, Sizes DEF KernelAt, ResultsCounted
<1> QED
  BY <1>1, PipeInvariant, PTL

------------------------------------------------------------------------------
(* Progress: while the host writes enough pixels, the pipeline never stops *)
(* before the image has left it, and every step of a unit counts.          *)

(* The slices that the host's pixels make when U2 has taken all of them.   *)
(* The kernel is drained by a stencil that follows those of the image, so  *)
(* there must be one more of them than there are results.                  *)
LastSlices == IF Pixels > (W - 1) * X + 1 THEN Pixels - (W - 1) * X - 1 ELSE 0
EnoughPixels == StencilsMade(LastSlices) > ResultTotal

(* Some unit or the host can go on: the guards of the six instructions.    *)
UnitReady ==
  \/ TREADY /\ written < Pixels
  \/ U1Decode
  \/ ~in_stream.empty /\ (~slice_stream.full \/ LB2D_proc_y < W - 1)
  \/ U3Decode
  \/ ~TVALID /\ IF gb_exit_it[1] THEN ~gb_exit_it[Stages] ELSE ~stencil_stream.empty
  \/ TVALID
NeverStuck == read < ResultTotal => UnitReady

(* Until the kernel knows of the end, each of its steps takes a stencil.   *)
KernelRange == 0..(ResultTotal + Stages)
StepsAt(f) ==
  KernelAt(f) /\ (f <= ResultTotal => shown = f) /\ (f > ResultTotal => shown > ResultTotal)
StepsInv == \E f \in KernelRange : StepsAt(f)

(* The steps of the kernel, and those of all units and of the host.        *)
KernelSteps == CHOOSE f \in KernelRange : KernelAt(f)
Effort == written + PassedOn + taken + shifted + KernelSteps + read

ProgressInv == PipeInv /\ StepsInv

(* A unit whose turn it is comes to run, whichever it is.                  *)
UnitsRun == []<>~UnitReady \/ []<><<Next>>_vars

(* The kernel's registers tell how many steps it has taken.                *)
LEMMA StepsUnique ==
  \A f, g \in KernelRange : KernelAt(f) /\ KernelAt(g) => f = g
<1>1. ASSUME NEW f \in KernelRange, NEW g \in KernelRange, KernelAt(f), KernelAt(g), f < g
      PROVE  FALSE
  <2>1. f \in Nat /\ g \in Nat /\ g <= ResultTotal + Stages /\ Stages \in Nat /\ ResultTotal \in Nat
    BY Sizes DEF KernelRange
  <2>2. CASE f < ResultTotal
    <3>1. gb_p_cnt = f
      BY <1>1, <2>2 DEF KernelAt
    <3>2. gb_p_cnt = IF g < ResultTotal THEN g ELSE ResultTotal
      BY <1>1 DEF KernelAt
    <3> QED
      BY <1>1, <2>1, <2>2, <3>1, <3>2
  <2>3. CASE f >= ResultTotal
    <3> DEFINE i == g - ResultTotal
    <3>1. i \in 1..Stages /\ g >= ResultTotal + i /\ ~(f >= ResultTotal + i)
      BY <1>1, <2>1, <2>3
    <3> HIDE DEF i
    <3>2. (gb_exit_it[i] <=> g >= ResultTotal + i) /\ (gb_exit_it[i] <=> f >= ResultTotal + i)
      BY <1>1, <3>1 DEF KernelAt
    <3> QED
      BY <3>1, <3>2
  <2> QED
    BY <2>1, <2>2, <2>3
<1>2. ASSUME NEW f \in KernelRange, NEW g \in KernelRange PROVE f \in Int /\ g \in Int
  BY Sizes DEF KernelRange
<1>3. SUFFICES ASSUME NEW f \in KernelRange, NEW g \in KernelRange, KernelAt(f), KernelAt(g), f # g
               PROVE  FALSE
  OBVIOUS
<1>4. f < g \/ g < f
  BY <1>2, <1>3
<1> QED
  BY <1>1, <1>3, <1>4

LEMMA StepsAre == \A f \in KernelRange : KernelAt(f) => KernelSteps = f
<1> SUFFICES ASSUME NEW f \in KernelRange, KernelAt(f) PROVE KernelSteps = f
  OBVIOUS
<1>1. KernelSteps \in KernelRange /\ KernelAt(KernelSteps)
  BY DEF KernelSteps
<1> QED
  BY <1>1, StepsUnique

LEMMA StepsAreNext == (\A f \in KernelRange : KernelAt(f) => KernelSteps = f)'
  BY StepsAre, PTL

(* The kernel starts before its first step.                                *)
LEMMA StepsInit == Init => StepsInv
<1> SUFFICES ASSUME Init PROVE StepsInv
  OBVIOUS
<1>1. PipeInv
  BY PipeInit
<1>2. PICK f \in Nat : KernelAt(f)
  BY <1>1 DEF PipeInv, KernelInv
<1>3. gb_p_cnt = 0
  BY DEF Init
<1>4. f = 0
  BY <1>2, <1>3, Sizes DEF KernelAt
<1>5. KernelAt(0) /\ 0 \in KernelRange /\ ~(0 > ResultTotal)
  BY <1>2, <1>4, Sizes DEF KernelRange
<1>6. shown = 0
  BY DEF Init
<1> QED
  BY <1>5, <1>6 DEF StepsInv, StepsAt

(* A step of the kernel counts, every other one leaves it where it is.     *)
LEMMA U4Counts ==
  ASSUME RegType, NEW f \in KernelRange, StepsAt(f), U4, NEW g, g = f + 1
  PROVE  g \in KernelRange /\ StepsAt(g)'
<1>1. f \in Nat /\ f <= ResultTotal + Stages /\ Stages \in Nat /\ Stages >= 2 /\ ResultTotal \in Nat
  BY Sizes DEF KernelRange
<1>2. KernelAt(g)'
  BY <1>1, KernelAdvances DEF StepsAt
<1>3. /\ gb_exit_it[1] <=> f >= ResultTotal + 1
      /\ gb_exit_it[Stages] <=> f >= ResultTotal + Stages
  BY <1>1 DEF StepsAt, KernelAt
<1>4. shown \in Nat /\ shown' = IF stencil_stream.empty THEN shown ELSE shown + 1
  BY DEF U4, RegType
<1>5. CASE gb_exit_it[1]
  <2>1. ~gb_exit_it[Stages]
    BY <1>5 DEF U4
  <2>2. f < ResultTotal + Stages /\ f > ResultTotal
    BY <1>1, <1>3, <1>5, <2>1
  <2>3. shown > ResultTotal
    BY <2>2 DEF StepsAt
  <2>4. shown' > ResultTotal
    BY <1>1, <1>4, <2>3
  <2>5. g \in KernelRange /\ g > ResultTotal
    BY <1>1, <2>2 DEF KernelRange
  <2> QED
    BY <1>1, <1>2, <2>4, <2>5 DEF StepsAt
<1>6. CASE ~gb_exit_it[1]
  <2>1. ~stencil_stream.empty
    BY <1>6 DEF U4
  <2>2. f <= ResultTotal
    BY <1>1, <1>3, <1>6
  <2>3. shown = f
    BY <2>2 DEF StepsAt
  <2>4. shown' = g
    BY <1>4, <2>1, <2>3
  <2>5. g \in KernelRange
    BY <1>1, <2>2 DEF KernelRange
  <2> QED
    BY <1>1, <1>2, <2>2, <2>4, <2>5 DEF StepsAt
<1> QED
  BY <1>5, <1>6

LEMMA OthersRest ==
  ASSUME NEW f \in KernelRange, StepsAt(f), UNCHANGED <<kernel, shown>>, Delivered' = Delivered
  PROVE  StepsAt(f)'
<1>1. f \in Nat
  BY Sizes DEF KernelRange
<1> QED
  BY <1>1, KernelRests DEF StepsAt

(* What each instruction does to the counts: it raises one of them.        *)
LEMMA InstructionCounts ==
  ASSUME PipeInv, NEW f \in KernelRange, StepsAt(f), Next
  PROVE  \E g \in KernelRange :
           /\ StepsAt(g)'
           /\ written' + PassedOn' + taken' + shifted' + g + read' =
              written + PassedOn + taken + shifted + f + read + 1
<1>1. /\ RegType
      /\ written \in Nat /\ taken \in Nat /\ shifted \in Nat /\ read \in Nat
      /\ f \in Nat /\ PassedOn \in Int
  BY Sizes DEF PipeInv, RegType, KernelRange, PassedOn
<1>2. ASSUME NEW w \in Int, NEW p \in Int, NEW t \in Int, NEW s \in Int, NEW r \in Int,
             <<written', PassedOn', taken', shifted', read'>> = <<w, p, t, s, r>>,
             w + p + t + s + r = written + PassedOn + taken + shifted + read + 1,
             UNCHANGED <<kernel, shown>>, Delivered' = Delivered
      PROVE  \E g \in KernelRange :
               /\ StepsAt(g)'
               /\ written' + PassedOn' + taken' + shifted' + g + read' =
                  written + PassedOn + taken + shifted + f + read + 1
  <2>1. StepsAt(f)'
    BY <1>2, OthersRest
  <2>2. w + p + t + s + f + r = written + PassedOn + taken + shifted + f + read + 1
    BY <1>1, <1>2
  <2> QED
    BY <1>2, <2>1, <2>2
<1>3. CASE WRI
  <2>1. /\ written' = written + 1 /\ taken' = taken /\ shifted' = shifted /\ read' = read
        /\ TVALID' = TVALID /\ UNCHANGED <<kernel, shown>>
    BY <1>3 DEF WRI
  <2>2. PassedOn' = PassedOn
    BY <1>1, <1>3 DEF WRI, PassedOn
  <2>3. Delivered' = Delivered
    BY <2>1 DEF Delivered
  <2> QED
    BY <1>1, <1>2, <2>1, <2>2, <2>3
<1>4. CASE U1
  <2>1. /\ written' = written /\ taken' = taken /\ shifted' = shifted /\ read' = read
        /\ TVALID' = TVALID /\ UNCHANGED <<kernel, shown>>
    BY <1>4 DEF U1
  <2>2. PassedOn' = PassedOn + 1
    BY <1>1, <1>4 DEF U1, U1Decode, PassedOn
  <2>3. Delivered' = Delivered
    BY <2>1 DEF Delivered
  <2> QED
    BY <1>1, <1>2, <2>1, <2>2, <2>3
<1>5. CASE U2
  <2>1. /\ written' = written /\ taken' = taken + 1 /\ shifted' = shifted /\ read' = read
        /\ TVALID' = TVALID /\ TREADY' = TREADY /\ UNCHANGED <<kernel, shown>>
    BY <1>5 DEF U2, ports
  <2>2. PassedOn' = PassedOn /\ Delivered' = Delivered
    BY <2>1 DEF PassedOn, Delivered
  <2> QED
    BY <1>1, <1>2, <2>1, <2>2
<1>6. CASE U3
  <2>1. /\ written' = written /\ taken' = taken /\ shifted' = shifted + 1 /\ read' = read
        /\ TVALID' = TVALID /\ TREADY' = TREADY /\ UNCHANGED <<kernel, shown>>
    BY <1>6 DEF U3, ports
  <2>2. PassedOn' = PassedOn /\ Delivered' = Delivered
    BY <2>1 DEF PassedOn, Delivered
  <2> QED
    BY <1>1, <1>2, <2>1, <2>2
<1>7. CASE U4
  <2> DEFINE g == f + 1
  <2>1. g \in KernelRange /\ StepsAt(g)'
    BY <1>1, <1>7, U4Counts
  <2>2. /\ written' = written /\ taken' = taken /\ shifted' = shifted /\ read' = read
        /\ TREADY' = TREADY
    BY <1>7 DEF U4
  <2>3. PassedOn' = PassedOn
    BY <2>2 DEF PassedOn
  <2>4. written' + PassedOn' + taken' + shifted' + g + read' =
        written + PassedOn + taken + shifted + f + read + 1
    BY <1>1, <2>2, <2>3
  <2> HIDE DEF g
  <2> QED
    BY <2>1, <2>4
<1>8. CASE RDI
  <2>1. /\ written' = written /\ taken' = taken /\ shifted' = shifted /\ read' = read + 1
        /\ TREADY' = TREADY /\ UNCHANGED <<kernel, shown>> /\ TVALID /\ ~TVALID'
    BY <1>8 DEF RDI
  <2>2. PassedOn' = PassedOn /\ Delivered' = Delivered
    BY <1>1, <2>1 DEF PassedOn, Delivered
  <2> QED
    BY <1>1, <1>2, <2>1, <2>2
<1> QED
  BY <1>3, <1>4, <1>5, <1>6, <1>7, <1>8 DEF Next

LEMMA EffortIs ==
  \A f \in KernelRange :
    KernelAt(f) => Effort = written + PassedOn + taken + shifted + f + read
  BY StepsAre DEF Effort

LEMMA EffortIsNext ==
  (\A f \in KernelRange :
     KernelAt(f) => Effort = written + PassedOn + taken + shifted + f + read)'
  BY EffortIs, PTL

LEMMA EachStep == ProgressInv /\ Next => StepsInv' /\ Effort' = Effort + 1
<1> SUFFICES ASSUME ProgressInv, Next PROVE StepsInv' /\ Effort' = Effort + 1
  OBVIOUS
<1>1. PICK f \in KernelRange : StepsAt(f)
  BY DEF ProgressInv, StepsInv
<1>2. PICK g \in KernelRange :
        /\ StepsAt(g)'
        /\ written' + PassedOn' + taken' + shifted' + g + read' =
           written + PassedOn + taken + shifted + f + read + 1
  BY <1>1, InstructionCounts DEF ProgressInv
<1>3. Effort = written + PassedOn + taken + shifted + f + read
  BY <1>1, EffortIs DEF StepsAt
<1>4. KernelAt(g)'
  BY <1>2 DEF StepsAt
<1>5. Effort' = written' + PassedOn' + taken' + shifted' + g + read'
  BY <1>4, EffortIsNext
<1>6. KernelRange' = KernelRange
  BY DEF KernelRange
<1> QED
  BY <1>2, <1>3, <1>5 DEF StepsInv, KernelRange

LEMMA RestStep == ProgressInv /\ UNCHANGED vars => StepsInv' /\ UNCHANGED <<Effort, UnitReady, read>>
<1> SUFFICES ASSUME ProgressInv, UNCHANGED vars
             PROVE  StepsInv' /\ UNCHANGED <<Effort, UnitReady, read>>
  OBVIOUS
<1>1. PICK f \in KernelRange : StepsAt(f)
  BY DEF ProgressInv, StepsInv
<1>2. UNCHANGED <<kernel, shown, TVALID, TREADY, written, taken, shifted, read>>
  BY DEF vars, ports
<1>3. Delivered' = Delivered /\ PassedOn' = PassedOn
  BY <1>2 DEF Delivered, PassedOn
<1>4. StepsAt(f)'
  BY <1>1, <1>2, <1>3, OthersRest
<1>5. StepsInv'
  BY <1>4 DEF StepsInv, KernelRange
<1>6. Effort' = Effort
  <2>1. Effort = written + PassedOn + taken + shifted + f + read
    BY <1>1, EffortIs DEF StepsAt
  <2>2. Effort' = written' + PassedOn' + taken' + shifted' + f + read'
    BY <1>4, EffortIsNext DEF StepsAt
  <2> QED
    BY <1>2, <1>3, <2>1, <2>2
<1>7. UnitReady' = UnitReady
  BY DEF UnitReady, U1Decode, U3Decode, SkipsStencil, vars, ports, lb1d, proc, shift, kernel
<1> QED
  BY <1>2, <1>5, <1>6, <1>7

(* The kernel's steps are known in every reachable state.                  *)
LEMMA ProgressInvariant == Spec => []ProgressInv
<1>1. Init => ProgressInv
  BY PipeInit, StepsInit DEF ProgressInv
<1>2. ProgressInv /\ [Next]_vars => ProgressInv'
  BY PipeStep, EachStep, RestStep DEF ProgressInv
<1> QED
  BY <1>1, <1>2, PTL DEF Spec

(* If no unit is ready, every pixel has been written and has gone all the  *)
(* way to the kernel, which then has more stencils than results: the last  *)
(* result has been read.                                                   *)
LEMMA ReadyUntilTheEnd == EnoughPixels /\ ProgressInv => NeverStuck
<1> SUFFICES ASSUME EnoughPixels, ProgressInv, read < ResultTotal, ~UnitReady PROVE FALSE
  BY DEF NeverStuck
<1>1. /\ RegType /\ InInv /\ SliceInv /\ StencilInv
      /\ Stages \in Nat /\ Stages >= 2 /\ ResultTotal \in Nat /\ W \in Nat
      /\ read \in Nat /\ taken \in Nat /\ shifted \in Nat /\ shown \in Nat
      /\ written \in 0..Pixels /\ Pixels \in Nat
  BY Sizes DEF ProgressInv, PipeInv, RegType
<1>2. PICK f \in KernelRange : StepsAt(f)
  BY DEF ProgressInv, StepsInv
<1>3. f \in Nat
  BY Sizes DEF KernelRange
<1>4. ~TVALID
  BY DEF UnitReady
<1>5. f < ResultTotal + Stages - 1
  <2>1. Delivered < ResultTotal
    BY <1>1, <1>4 DEF Delivered
  <2> QED
    BY <1>1, <1>2, <1>3, <2>1 DEF StepsAt, KernelAt
<1>6. ~gb_exit_it[Stages]
  <2>1. gb_exit_it[Stages] <=> f >= ResultTotal + Stages
    BY <1>1, <1>2 DEF StepsAt, KernelAt
  <2> QED
    BY <1>1, <1>3, <1>5, <2>1
<1>7. ~gb_exit_it[1] /\ stencil_stream.empty
  BY <1>4, <1>6 DEF UnitReady
<1>8. shown = f /\ f <= ResultTotal
  <2>1. gb_exit_it[1] <=> f >= ResultTotal + 1
    BY <1>1, <1>2 DEF StepsAt, KernelAt
  <2>2. f <= ResultTotal
    BY <1>1, <1>3, <1>7, <2>1
  <2> QED
    BY <1>2, <2>2 DEF StepsAt
<1>9. StreamOK(in_stream, Pixel) /\ StreamOK(slice_stream, SliceType) /\ StreamOK(stencil_stream, StencilType)
  BY <1>1 DEF RegType
<1>10. ~stencil_stream.full /\ Held(stencil_stream) = 0
  BY <1>7, <1>9, EmptyStream
<1>11. slice_stream.empty
  BY <1>10 DEF UnitReady, U3Decode
<1>12. ~slice_stream.full /\ Held(slice_stream) = 0
  BY <1>9, <1>11, EmptyStream
<1>13. in_stream.empty
  BY <1>12 DEF UnitReady
<1>14. ~in_stream.full /\ Held(in_stream) = 0
  BY <1>9, <1>13, EmptyStream
<1>15. TREADY /\ written = Pixels
  <2>1. TREADY
    BY <1>14 DEF UnitReady, U1Decode
  <2> QED
    BY <1>1, <2>1 DEF UnitReady
<1>16. taken = Pixels
  BY <1>1, <1>14, <1>15 DEF InInv, PassedOn
<1>17. shifted = LastSlices
  <2>1. SlicesMade = LastSlices
    BY <1>16 DEF SlicesMade, LastSlices
  <2> QED
    BY <1>1, <1>12, <2>1 DEF SliceInv
<1>18. shown = StencilsMade(LastSlices)
  BY <1>1, <1>10, <1>17 DEF StencilInv
<1> QED
  BY <1>1, <1>3, <1>8, <1>18 DEF EnoughPixels

(* No count passes its limit: a pixel is written, passed on, taken and     *)
(* shifted at most once, the kernel stops after it is drained.             *)
EffortLimit == 4 * Pixels + 2 * ResultTotal + Stages
LEMMA EffortRange == ProgressInv => Effort \in Int /\ Effort <= EffortLimit
<1> SUFFICES ASSUME ProgressInv PROVE Effort \in Int /\ Effort <= EffortLimit
  OBVIOUS
<1>1. PICK f \in KernelRange : StepsAt(f)
  BY DEF ProgressInv, StepsInv
<1>2. PipeInv
  BY DEF ProgressInv
<1>3. TypeOK
  BY <1>2, PipeTypes
<1>4. /\ written \in 0..Pixels /\ taken \in 0..Pixels /\ shifted \in 0..Pixels
      /\ read \in 0..ResultTotal /\ f \in 0..(ResultTotal + Stages)
      /\ Pixels \in Nat /\ ResultTotal \in Nat /\ Stages \in Nat
  BY <1>3, Sizes DEF TypeOK, KernelRange
<1>5. PassedOn \in Int /\ PassedOn <= Pixels
  BY <1>4 DEF PassedOn
<1>6. Effort = written + PassedOn + taken + shifted + f + read
  BY <1>1, EffortIs DEF StepsAt
<1> QED
  BY <1>4, <1>5, <1>6 DEF EffortLimit

(* The streams and handshakes between the host and the six units never     *)
(* block one another before the last result has been read, if the host     *)
(* has pixels enough to push the image out of the kernel's pipeline.       *)
THEOREM PipelineNeverStuck == ASSUME EnoughPixels PROVE Spec => []NeverStuck
<1>1. ProgressInv => NeverStuck
  BY ReadyUntilTheEnd
<1> QED
  BY <1>1, ProgressInvariant, PTL

(* Every instruction brings the image one step nearer its end and there    *)
(* is a last step: no unit ever works on without effect.                   *)
WorkCounts == [][Effort' = Effort + 1]_vars
WorkEnds == Effort <= EffortLimit
THEOREM WorkIsBounded == Spec => WorkCounts /\ []WorkEnds
<1>1. ProgressInv /\ [Next]_vars => [Effort' = Effort + 1]_vars
  BY EachStep
<1>2. ProgressInv => WorkEnds
  BY EffortRange DEF WorkEnds
<1> QED
  BY <1>1, <1>2, ProgressInvariant, PTL DEF Spec, WorkCounts

(* Unless the image has left the pipeline, a unit takes a further step:    *)
(* with WorkIsBounded, which lets this happen only EffortLimit times, all  *)
(* results are read in the end (the step of ImageLeaves).                  *)
THEOREM ImageComesNearer ==
  ASSUME NEW n \in Nat, EnoughPixels
  PROVE  Spec /\ UnitsRun => ((Effort = n /\ read < ResultTotal) ~> (Effort = n + 1))
<1> DEFINE P == ProgressInv /\ Effort = n /\ read < ResultTotal
           Q == Effort = n + 1
<1>1. P /\ [Next]_vars => P' \/ Q'
  BY EachStep, RestStep, PipeStep DEF ProgressInv
<1>2. P /\ <<Next>>_vars => Q'
  BY EachStep
<1>3. P => UnitReady
  BY ReadyUntilTheEnd DEF NeverStuck
<1>4. ProgressInv /\ Effort = n /\ read < ResultTotal => P
  OBVIOUS
<1>5. Q <=> Effort = n + 1
  OBVIOUS
<1> HIDE DEF P, Q
<1> QED
  BY <1>1, <1>2, <1>3, <1>4, <1>5, ProgressInvariant, PTL DEF Spec, UnitsRun
===============================================================================
