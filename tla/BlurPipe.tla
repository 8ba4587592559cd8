------------------------------ MODULE BlurPipe ------------------------------
(***************************************************************************)
(* The low-level ILA of the Gaussian blur accelerator,                     *)
(* accls/GB-Halide/ila_spec_b: two instructions at the ports (WRI, RDI)    *)
(* and four child instructions (U1 .. U4) that move a pixel through the    *)
(* streams, the line buffers and the shift register to the kernel. Each    *)
(* instruction is atomic; they interleave as their decode functions allow. *)
(* A pixel is its number in the order the host writes it; 0 is a pixel     *)
(* nobody wrote. The kernel is uninterpreted: a result is its stencil.     *)
(***************************************************************************)
EXTENDS Integers, Sequences

CONSTANTS
  X,      \* IMG_X_SIZE: columns of the image (488)
  Y,      \* IMG_Y_SIZE: rows of the image (648)
  W,      \* X_EXTEND and Y_EXTEND: the kernel covers W x W pixels (9)
  Cols,   \* 2^COL_ADDR_SIZE: words of one line buffer (512)
  Stages, \* depth of the kernel's pipeline (8)
  Pixels  \* bound: pixels the host has to write

ASSUME SizeAssumption ==
  /\ {X, Y, W, Cols, Stages, Pixels} \subseteq Nat
  /\ 2 <= W /\ W <= X /\ W <= Y /\ X < Cols /\ 2 <= Stages
  /\ Pixels <= X * (Y + 1) \* LB2D_proc_y counts to Y before it starts again

PixelTotal  == X * Y                     \* LB1D_p_cnt_M
ResultTotal == (X - W + 1) * (Y - W + 1) \* gb_p_cnt_M

Lines == 0..(W - 2)                      \* the line buffers LB2D_proc
NoSlice == [i \in 0..(W - 1) |-> 0]
NoStencil == [j \in 1..W |-> NoSlice]

VARIABLES
  TREADY,      \* arg_1_TREADY: the next pixel may be written
  TVALID,      \* arg_0_TVALID: a result may be read
  TDATA,       \* arg_0_TDATA
  LB1D_in,     \* the pixel last written
  LB1D_uIn,    \* the pixel U1 took before
  LB1D_it,     \* LB1D_it_1
  LB1D_p_cnt,  \* pixels U1 has taken
  in_stream,   \* the stream from U1 to U2
  LB2D_proc,   \* the line buffers, with ...
  LB2D_proc_x, \* ... the column of the next pixel, counted from 1,
  LB2D_proc_y, \* ... its row
  LB2D_proc_w, \* ... and the buffer that is overwritten next
  slice_stream,
  LB2D_shift,  \* the last W - 1 slices
  LB2D_shift_x,
  LB2D_shift_y,
  stencil_stream,
  gb_p_cnt,
  gb_pp_it,    \* stages of the kernel that hold a result
  gb_exit_it,  \* stages that know of the end of the image
  written,     \* history: pixels the host wrote
  taken,       \* history: pixels U2 took
  shifted,     \* history: slices U3 took
  shown,       \* history: stencils U4 took
  read         \* history: results the host read

ports  == <<TREADY, TVALID, TDATA>>
lb1d   == <<LB1D_in, LB1D_uIn, LB1D_it, LB1D_p_cnt>>
proc   == <<LB2D_proc, LB2D_proc_x, LB2D_proc_y, LB2D_proc_w>>
shift  == <<LB2D_shift, LB2D_shift_x, LB2D_shift_y>>
kernel == <<gb_p_cnt, gb_pp_it, gb_exit_it>>
vars == <<ports, lb1d, in_stream, proc, slice_stream, shift, stencil_stream, kernel,
          written, taken, shifted, shown, read>>

------------------------------------------------------------------------------
(* A stream has two slots. A new value goes to slot 0 and moves the old    *)
(* one to slot 1; what leaves is in slot 1 when the stream is full.        *)

NewStream(v) == [full |-> FALSE, empty |-> TRUE, slot0 |-> v, slot1 |-> v]
Push(s, v) == [full |-> ~s.empty, empty |-> FALSE, slot0 |-> v, slot1 |-> s.slot0]
Pop(s)     == [s EXCEPT !.full = FALSE, !.empty = ~s.full]
Oldest(s)  == IF s.full THEN s.slot1 ELSE s.slot0
Clear(s)   == [s EXCEPT !.full = FALSE, !.empty = TRUE]

(* The state after reset. Which line buffer comes first does not matter.   *)
Init ==
  /\ TREADY = TRUE /\ TVALID = FALSE /\ TDATA = NoStencil
  /\ LB1D_in = 0 /\ LB1D_uIn = 0 /\ LB1D_it \in BOOLEAN /\ LB1D_p_cnt = 0
  /\ in_stream = NewStream(0)
  /\ LB2D_proc = [l \in Lines |-> [c \in 0..(Cols - 1) |-> 0]]
  /\ LB2D_proc_x = 0 /\ LB2D_proc_y = 0 /\ LB2D_proc_w \in Lines
  /\ slice_stream = NewStream(NoSlice)
  /\ LB2D_shift = [j \in 1..(W - 1) |-> NoSlice]
  /\ LB2D_shift_x = 0 /\ LB2D_shift_y = 0
  /\ stencil_stream = NewStream(NoStencil)
  /\ gb_p_cnt = 0
  /\ gb_pp_it = [i \in 1..(Stages + 1) |-> i = 1]
  /\ gb_exit_it = [i \in 1..Stages |-> FALSE]
  /\ written = 0 /\ taken = 0 /\ shifted = 0 /\ shown = 0 /\ read = 0

------------------------------------------------------------------------------
(* WRI: the host writes a pixel.                                           *)
WRI ==
  /\ TREADY /\ written < Pixels
  /\ TREADY' = FALSE
  /\ LB1D_in' = written + 1
  /\ written' = written + 1
  /\ UNCHANGED <<TVALID, TDATA, LB1D_uIn, LB1D_it, LB1D_p_cnt, in_stream, proc,
                 slice_stream, shift, stencil_stream, kernel, taken, shifted, shown, read>>

(* mutant: U1 accepts the next pixel although it could not pass this on *)
U1DecodeFull == ~TREADY
U1Decode == ~TREADY /\ ~in_stream.full

(* U1: pass on the pixel before, keep the new one.                         *)
U1 ==
  /\ U1Decode
  /\ LET last == LB1D_it /\ LB1D_p_cnt = PixelTotal
     IN  /\ LB1D_it' = ~last
         /\ LB1D_p_cnt' = IF last THEN 0 ELSE LB1D_p_cnt + 1
  /\ TREADY' = TRUE
  /\ LB1D_uIn' = LB1D_in
  /\ in_stream' = Push(in_stream, LB1D_uIn)
  /\ UNCHANGED <<TVALID, TDATA, LB1D_in, proc, slice_stream, shift, stencil_stream, kernel,
                 written, taken, shifted, shown, read>>

(* Columns are counted from 1; the pixel of column 0, which nobody wrote,  *)
(* goes to the last word of the line buffer.                               *)
Column(x) == (x + Cols - 1) % Cols

(* The pixels above and at the current one: the buffer that is overwritten *)
(* next holds the oldest row.                                              *)
SliceShifted(new) == \* mutant: starts at the buffer after the oldest
  [i \in 0..(W - 1) |->
     IF i = W - 1 THEN new
     ELSE LB2D_proc[(LB2D_proc_w + i + 1) % (W - 1)][Column(LB2D_proc_x)]]
Slice(new) ==
  [i \in 0..(W - 1) |->
     IF i = W - 1 THEN new
     ELSE LB2D_proc[(LB2D_proc_w + i) % (W - 1)][Column(LB2D_proc_x)]]

Following(n, last, first) == IF n = last THEN first ELSE n + 1

(* U2: store the pixel in its line buffer and, from row W - 1 on, pass on  *)
(* its slice. In earlier rows the flags of the slice stream are cleared.   *)
U2 ==
  /\ ~in_stream.empty
  /\ ~slice_stream.full \/ LB2D_proc_y < W - 1
  /\ LET pixel  == Oldest(in_stream)
         rowEnd == LB2D_proc_x = X
     IN  /\ LB2D_proc' = [LB2D_proc EXCEPT ![LB2D_proc_w][Column(LB2D_proc_x)] = pixel]
         /\ LB2D_proc_x' = Following(LB2D_proc_x, X, 1)
         /\ LB2D_proc_y' = IF rowEnd THEN Following(LB2D_proc_y, Y, 0) ELSE LB2D_proc_y
         /\ LB2D_proc_w' = IF rowEnd THEN Following(LB2D_proc_w, W - 2, 0) ELSE LB2D_proc_w
         /\ slice_stream' = IF LB2D_proc_y < W - 1 THEN Clear(slice_stream)
                            ELSE Push(slice_stream, Slice(pixel))
  /\ in_stream' = Pop(in_stream)
  /\ taken' = taken + 1
  /\ UNCHANGED <<ports, lb1d, shift, stencil_stream, kernel, written, shifted, shown, read>>

SkipsStencil == 0 < LB2D_shift_x /\ LB2D_shift_x < W - 1

(* mutant: a stencil is pushed onto a full stream *)
U3DecodeFull == ~slice_stream.empty
U3Decode == ~slice_stream.empty /\ (~stencil_stream.full \/ SkipsStencil)

(* U3: shift the slice in and, unless the row has only begun, pass on the  *)
(* last W slices as a stencil.                                             *)
U3 ==
  /\ U3Decode
  /\ LET slice == Oldest(slice_stream)
     IN  /\ LB2D_shift' = [j \in 1..(W - 1) |-> IF j = W - 1 THEN slice ELSE LB2D_shift[j + 1]]
         /\ stencil_stream' = IF SkipsStencil THEN stencil_stream
                              ELSE Push(stencil_stream, Append(LB2D_shift, slice))
  /\ LB2D_shift_x' = Following(LB2D_shift_x, X, 0)
  /\ LB2D_shift_y' = IF LB2D_shift_y >= Y - W + 1 THEN Y - W + 1
                     ELSE IF LB2D_shift_x < X THEN LB2D_shift_y ELSE LB2D_shift_y + 1
  /\ slice_stream' = Pop(slice_stream)
  /\ shifted' = shifted + 1
  /\ UNCHANGED <<ports, lb1d, in_stream, proc, kernel, written, taken, shown, read>>

(* mutant: the last stage still delivers when it knows of the end *)
DeliversLate == gb_pp_it[Stages] /\ ~gb_exit_it[Stages]
Delivers == gb_pp_it[Stages] /\ ~gb_exit_it[Stages - 1]

(* U4: one step of the kernel's pipeline. At the end of the image it is    *)
(* drained, whether a stencil waits or not.                                *)
U4 ==
  /\ ~TVALID
  /\ IF gb_exit_it[1] THEN ~gb_exit_it[Stages] ELSE ~stencil_stream.empty
  /\ TVALID' = Delivers
  /\ TDATA' = Oldest(stencil_stream)
  /\ stencil_stream' = Pop(stencil_stream)
  /\ gb_p_cnt' = IF gb_p_cnt < ResultTotal THEN gb_p_cnt + 1 ELSE ResultTotal
  /\ gb_pp_it' = [i \in 1..(Stages + 1) |-> i = 1 \/ gb_pp_it[i - 1]]
  /\ gb_exit_it' = [i \in 1..Stages |-> IF i = 1 THEN gb_p_cnt = ResultTotal ELSE gb_exit_it[i - 1]]
  /\ shown' = IF stencil_stream.empty THEN shown ELSE shown + 1
  /\ UNCHANGED <<TREADY, lb1d, in_stream, proc, slice_stream, shift, written, taken,
                 shifted, read>>

(* RDI: the host reads a result.                                           *)
RDI ==
  /\ TVALID
  /\ TVALID' = FALSE
  /\ read' = read + 1
  /\ UNCHANGED <<TREADY, TDATA, lb1d, in_stream, proc, slice_stream, shift, stencil_stream,
                 kernel, written, taken, shifted, shown>>

Next == WRI \/ U1 \/ U2 \/ U3 \/ U4 \/ RDI

Spec == Init /\ [][Next]_vars

(* Every unit of the accelerator runs again and again, and the host writes *)
(* its image and reads the results.                                        *)
FairSpec ==
  /\ Spec
  /\ WF_vars(WRI) /\ WF_vars(U1) /\ WF_vars(U2) /\ WF_vars(U3) /\ WF_vars(U4) /\ WF_vars(RDI)

------------------------------------------------------------------------------
(* Properties                                                              *)

Pixel == 0..Pixels
SliceType == [0..(W - 1) -> Pixel]
StencilType == [1..W -> SliceType]
Stream(T) == [full : BOOLEAN, empty : BOOLEAN, slot0 : T, slot1 : T]

(* Every register keeps its type: counters stay within the limits the code *)
(* compares them with, and a stream is never full and empty at once.       *)
TypeOK ==
  /\ TREADY \in BOOLEAN /\ TVALID \in BOOLEAN /\ TDATA \in StencilType
  /\ LB1D_in \in Pixel /\ LB1D_uIn \in Pixel /\ LB1D_it \in BOOLEAN
  /\ LB1D_p_cnt \in 0..PixelTotal
  /\ in_stream \in Stream(Pixel) /\ ~(in_stream.full /\ in_stream.empty)
  /\ LB2D_proc \in [Lines -> [0..(Cols - 1) -> Pixel]]
  /\ LB2D_proc_x \in 0..X /\ LB2D_proc_y \in 0..Y /\ LB2D_proc_w \in Lines
  /\ slice_stream \in Stream(SliceType) /\ ~(slice_stream.full /\ slice_stream.empty)
  /\ LB2D_shift \in [1..(W - 1) -> SliceType]
  /\ LB2D_shift_x \in 0..X /\ LB2D_shift_y \in 0..(Y - W + 1)
  /\ stencil_stream \in Stream(StencilType) /\ ~(stencil_stream.full /\ stencil_stream.empty)
  /\ gb_p_cnt \in 0..ResultTotal
  /\ gb_pp_it \in [1..(Stages + 1) -> BOOLEAN] /\ gb_exit_it \in [1..Stages -> BOOLEAN]
  /\ written \in 0..Pixels /\ taken \in 0..Pixels /\ shifted \in 0..Pixels /\ shown \in 0..Pixels
  /\ read \in 0..ResultTotal

Waiting(s) ==
  IF s.empty THEN <<>> ELSE IF s.full THEN <<s.slot1, s.slot0>> ELSE <<s.slot0>>

(* The pixels that wait for U2 are the next ones the host wrote, in order: *)
(* a pixel is neither lost when U1 finds no room nor taken twice. U1 is    *)
(* one pixel behind, so the first it passes on is one nobody wrote.        *)
PassedOn == IF TREADY THEN written ELSE written - 1
PixelsInOrder == Waiting(in_stream) = [k \in 1..(PassedOn - taken) |-> taken + k - 1]

(* Slice s is pixel s of the image and the W - 1 pixels below it, when the *)
(* slices are numbered through all rows: the last slice of a row is        *)
(* followed by the first of the next.                                      *)
ImageSlice(s) == [i \in 0..(W - 1) |-> s + i * X]
SlicesMade == IF taken > (W - 1) * X + 1 THEN taken - (W - 1) * X - 1 ELSE 0

(* The slices that wait for U3 are the next columns of the image, one for  *)
(* every pixel from row W - 1 on: the rotating line buffers never mix      *)
(* rows, and clearing the stream's flags in the first rows loses none.     *)
SlicesInOrder == Waiting(slice_stream) = [k \in 1..(SlicesMade - shifted) |-> ImageSlice(shifted + k)]

(* The W slices that end with slice s. They need not be of one row.        *)
Window(s) == [j \in 1..W |-> IF s - W + j >= 1 THEN ImageSlice(s - W + j) ELSE NoSlice]

(* As U3 counts columns, from 0 to X, and not as U2 does, from 1 to X: of  *)
(* every X + 1 slices the first completes a stencil, and all from the W-th *)
(* on. This is the slice of stencil k, and the stencils of n slices. Since *)
(* a row has only X slices, U3's rounds begin one column later in each     *)
(* row: see ColumnsAgree.                                                  *)
PerRound == X - W + 3
StencilSlice(k) ==
  LET round == (k - 1) \div PerRound
      place == (k - 1) % PerRound
  IN  round * (X + 1) + (IF place = 0 THEN 1 ELSE W + place - 1)
StencilsMade(n) ==
  LET round == n \div (X + 1)
      place == n % (X + 1)
  IN  round * PerRound + (IF place = 0 THEN 0 ELSE IF place < W THEN 1 ELSE place - W + 2)

(* The stencils that wait for the kernel are the next ones U3 chose, each  *)
(* made of W slices that followed one another: none is pushed out,         *)
(* repeated or made of slices of different moments, although U3 and U4     *)
(* fill and empty the stream on their own. That every stencil is a window  *)
(* of the image is not said, and not so: once U3's columns have moved away *)
(* from U2's, some of them straddle two rows.                              *)
StencilsInOrder ==
  Waiting(stencil_stream) = [k \in 1..(StencilsMade(shifted) - shown) |-> Window(StencilSlice(shown + k))]

(* "pixel position (idx) should be consistent across process unit"         *)
(* (scripts_impl_b/invariant_w.tcl:118-124): U2 and U3 are at one row and  *)
(* U3 not ahead in it, or U2 has begun the next row and U3 ends this one.  *)
ColumnsAgree ==
  \/ LB2D_proc_y = LB2D_shift_y + W - 1 /\ LB2D_proc_x >= LB2D_shift_x
  \/ /\ LB2D_proc_y = LB2D_shift_y + W
     /\ LB2D_proc_x <= W - 1 /\ LB2D_shift_x >= X - (W - 1)
  \/ LB2D_proc_y < W - 1

(* However the two iterators fill and drain the pipeline, an image yields  *)
(* exactly the results it should, and none more.                           *)
Delivered == read + (IF TVALID THEN 1 ELSE 0)
ResultsCounted == Delivered <= ResultTotal /\ (gb_exit_it[Stages] => Delivered = ResultTotal)

(* All results of the image leave the accelerator.                         *)
ImageLeaves == <>(read = ResultTotal)
==============================================================================
