---------------------------- MODULE DisplayProofs ---------------------------
(***************************************************************************)
(* What the address-swapping branch of disp_flush would give: with SWM341   *)
(* defined the panel never tears, for any number of rows and pictures.      *)
(***************************************************************************)
EXTENDS Display, TLAPS

\* The rows r and s of buffer b hold the same picture.
Whole(b) == \A r, s \in Row : mem[b][r] = mem[b][s]

\* LVGL draws row by row, and hands over nothing but complete pictures.
Drawn ==
  /\ pc = "drawing" => \A r \in Row : r < row => mem[buf_act][r] = frame
  /\ pc \in {"flush", "spinning", "flushed"} => Whole(buf_act)

\* The buffer on the panel is complete and is never the one being drawn.
Apart ==
  /\ Whole(source)
  /\ pc \in {"idle", "drawing", "flush"} => source # buf_act
  /\ pc = "spinning" => IF VBPRELOAD THEN ADDR = buf_act ELSE source = buf_act
  /\ pc = "flushed" => source = buf_act
  /\ VBPRELOAD => pc = "spinning"
  /\ pc # "copying"

Scanned == \A r \in Row : r < scan => panel[r] = mem[source][r]

IInv == TypeOK /\ Drawn /\ Apart /\ Scanned

LEMMA InitIInv ==
  ASSUME Rows \in Nat, MaxFrame \in Nat, Init
  PROVE  IInv
<1>1. 0 \in Frame /\ 0 \in NextRow
  BY DEF Frame, NextRow
<1>2. \A b \in Buf, r \in Row : mem[b][r] = 0
  BY DEF Init
<1>3. TypeOK
  BY <1>1 DEF Init, TypeOK, Buf
<1>4. Drawn /\ Apart /\ Scanned
  BY <1>2 DEF Init, Drawn, Apart, Scanned, Whole, Buf, Row
<1>5. QED
  BY <1>3, <1>4 DEF IInv

\* Drawing a row leaves the buffer on the panel alone.
LEMMA DrawRowIInv ==
  ASSUME Rows \in Nat, MaxFrame \in Nat, IInv, DrawRow
  PROVE  IInv'
<1>1. /\ pc = "drawing" /\ row \in Row /\ buf_act \in Buf /\ frame \in Frame
      /\ source # buf_act
  BY DEF DrawRow, IInv, TypeOK, Apart, Buf, Row, NextRow
<1>2. /\ mem' = [mem EXCEPT ![buf_act][row] = frame]
      /\ row' = row + 1
      /\ UNCHANGED <<buf_act, flushing, pc, frame, ADDR, VBPRELOAD, source, scan, panel>>
  BY DEF DrawRow, lcd
<1>3. /\ mem' \in [Buf -> [Row -> Frame]]
      /\ \A r \in Row : mem'[source][r] = mem[source][r]
      /\ \A r \in Row : mem'[buf_act][r] = IF r = row THEN frame ELSE mem[buf_act][r]
  BY <1>1, <1>2 DEF IInv, TypeOK
<1>4. TypeOK'
  BY <1>1, <1>2, <1>3 DEF IInv, TypeOK, Row, NextRow
<1>5. Drawn'
  <2>1. ASSUME NEW r \in Row, r < row'
        PROVE  mem'[buf_act][r] = frame
    BY <1>1, <1>2, <1>3, <2>1 DEF IInv, Drawn, Row
  <2>2. QED
    BY <1>1, <1>2, <2>1 DEF Drawn
<1>6. Apart' /\ Scanned'
  BY <1>1, <1>2, <1>3 DEF IInv, Apart, Scanned, Whole
<1>7. QED
  BY <1>4, <1>5, <1>6 DEF IInv

\* The other steps of the LVGL thread write no picture.
LEMMA LvglIInv ==
  ASSUME SwapBuilt = TRUE, Rows \in Nat, MaxFrame \in Nat, IInv, Lvgl
  PROVE  IInv'
<1>1. CASE refr_area_part
  BY <1>1 DEF refr_area_part, lcd, IInv, TypeOK, Drawn, Apart, Scanned, Whole,
              Frame, NextRow, Row
<1>2. CASE DrawRow
  BY <1>2, DrawRowIInv
<1>3. CASE draw_buf_flush
  <2>1. Whole(buf_act)'
    BY <1>3 DEF draw_buf_flush, IInv, Drawn, Whole, Row
  <2>2. QED
    BY <1>3, <2>1 DEF draw_buf_flush, lcd, IInv, TypeOK, Drawn, Apart, Scanned, Whole
<1>4. CASE disp_flush
  BY <1>4 DEF disp_flush, lcd, IInv, TypeOK, Drawn, Apart, Scanned, Whole, Buf
<1>5. CASE CopyRow
  BY <1>5 DEF CopyRow, IInv, Apart
<1>6. CASE lv_disp_flush_ready
  BY <1>6 DEF lv_disp_flush_ready, lcd, IInv, TypeOK, Drawn, Apart, Scanned, Whole
<1>7. CASE SwapBuffers
  BY <1>7 DEF SwapBuffers, lcd, IInv, TypeOK, Drawn, Apart, Scanned, Whole
<1>8. QED
  BY <1>1, <1>2, <1>3, <1>4, <1>5, <1>6, <1>7 DEF Lvgl

LEMMA ControllerIInv ==
  ASSUME Rows \in Nat, MaxFrame \in Nat, IInv, Controller
  PROVE  IInv'
<1>1. CASE ScanRow
  <2>1. scan \in Row /\ source \in Buf /\ mem[source][scan] \in Frame
    BY <1>1 DEF ScanRow, IInv, TypeOK, NextRow, Row
  <2>2. TypeOK'
    BY <1>1, <2>1 DEF ScanRow, lvgl, IInv, TypeOK, NextRow, Row
  <2>3. Drawn' /\ Apart'
    BY <1>1 DEF ScanRow, lvgl, IInv, Drawn, Apart, Whole
  <2>4. Scanned'
    BY <1>1, <2>1 DEF ScanRow, lvgl, IInv, TypeOK, Scanned, Row
  <2>5. QED
    BY <2>2, <2>3, <2>4 DEF IInv
<1>2. CASE Blanking
  <2>1. Scanned'
    BY <1>2 DEF Blanking, Scanned, Row
  <2>2. TypeOK'
    <3>1. 0 \in NextRow
      BY DEF NextRow
    <3>2. source' \in Buf /\ VBPRELOAD' \in BOOLEAN
      BY <1>2 DEF Blanking, IInv, TypeOK
    <3>3. QED
      BY <1>2, <3>1, <3>2 DEF Blanking, lvgl, IInv, TypeOK
  <2>3. Drawn'
    BY <1>2 DEF Blanking, lvgl, IInv, Drawn, Whole
  <2>4. Apart'
    BY <1>2 DEF Blanking, lvgl, IInv, Drawn, Apart, Whole
  <2>5. QED
    BY <2>1, <2>2, <2>3, <2>4 DEF IInv
<1>3. QED
  BY <1>1, <1>2 DEF Controller

\* Were disp_flush built with SWM341 defined, as its comments describe it, a
\* complete scan would always show one picture: the drawn buffer is on the
\* panel before LVGL turns to the other one.
THEOREM SwapTearFree ==
  ASSUME SwapBuilt = TRUE, Rows \in Nat, MaxFrame \in Nat
  PROVE  Spec => []TearFree
<1>1. Init => IInv
  BY InitIInv
<1>2. IInv /\ [Next]_vars => IInv'
  <2>1. CASE UNCHANGED vars
    BY <2>1 DEF vars, lvgl, lcd, IInv, TypeOK, Drawn, Apart, Scanned, Whole
  <2>2. QED
    BY <2>1, LvglIInv, ControllerIInv DEF Next
<1>3. IInv => TearFree
  BY DEF IInv, TypeOK, Apart, Scanned, Whole, TearFree, Row
<1>4. QED
  BY <1>1, <1>2, <1>3, PTL DEF Spec

=============================================================================
