------------------------------- MODULE Display ------------------------------
(***************************************************************************)
(* The way of a picture to the panel: LVGL's refresh timer draws it into    *)
(* one of two screen-sized buffers (lv_refr.c), disp_flush (lv_port_disp.c) *)
(* hands it over, and the LCD controller scans a frame buffer out row by    *)
(* row, at its own pace, for ever.                                         *)
(*                                                                         *)
(* disp_flush has two ways to hand a picture over, chosen when it is        *)
(* compiled.  SwapBuilt is the way behind `#if defined(SWM341)`: the        *)
(* controller is given the address of the drawn buffer and the thread spins *)
(* until the controller has taken it.  Otherwise the picture is copied to   *)
(* lcd_fb, which the controller scans out meanwhile.  No build file of the  *)
(* repository defines SWM341, and the link map shows that the shipped image *)
(* holds the copy: SwapBuilt = FALSE.                                       *)
(*                                                                         *)
(* The data is abstracted to the number of the picture each row belongs to. *)
(***************************************************************************)
EXTENDS Integers

CONSTANTS
  SwapBuilt,  \* whether the address-swapping branch of disp_flush is built
  Rows,       \* rows of the screen (272 on this panel)
  MaxFrame    \* bound: pictures drawn

Buf    == {"lcd_fb", "fb0", "fb1"}
Frame  == 0..MaxFrame     \* 0 is what memory holds before the first picture
NextRow == 0..Rows        \* rows done so far: the next row, or Rows
Row    == 0..Rows - 1

VARIABLES
  mem,       \* the picture each row of each buffer belongs to
  buf_act,   \* the draw buffer LVGL draws into
  flushing,  \* draw_buf->flushing
  pc,        \* where the LVGL thread is
  row,       \* the next row it draws or copies
  frame,     \* the number of the picture it draws
  ADDR,      \* LCD->L[0].ADDR
  VBPRELOAD, \* LCD->CR.VBPRELOAD: take ADDR at the next vertical blanking
  source,    \* the buffer the controller is scanning out
  scan,      \* the next row it scans out
  panel      \* the picture of each row it has scanned out

lvgl == <<buf_act, flushing, pc, row, frame>>
lcd  == <<source, scan, panel>>
vars == <<mem, lvgl, ADDR, VBPRELOAD, lcd>>

TypeOK ==
  /\ mem \in [Buf -> [Row -> Frame]]
  /\ buf_act \in {"fb0", "fb1"}
  /\ flushing \in BOOLEAN
  /\ pc \in {"idle", "drawing", "flush", "copying", "spinning", "flushed"}
  /\ row \in NextRow
  /\ frame \in Frame
  /\ ADDR \in Buf
  /\ VBPRELOAD \in BOOLEAN
  /\ source \in Buf
  /\ scan \in NextRow
  /\ panel \in [Row -> Frame]

\* After lv_port_disp_init: lcd_fb is blank and on the panel.
Init ==
  /\ mem = [b \in Buf |-> [r \in Row |-> 0]]
  /\ buf_act = "fb0"
  /\ flushing = FALSE
  /\ pc = "idle"
  /\ row = 0
  /\ frame = 0
  /\ ADDR = "lcd_fb"
  /\ VBPRELOAD = FALSE
  /\ source = "lcd_fb"
  /\ scan = 0
  /\ panel = [r \in Row |-> 0]

-----------------------------------------------------------------------------
(* The LVGL thread.                                                         *)

\* The refresh timer finds the screen invalid and starts a picture, once the
\* buffer is free: with full_refresh the whole screen is redrawn.
refr_area_part ==
  /\ pc = "idle" /\ ~flushing
  /\ frame < MaxFrame
  /\ frame' = frame + 1
  /\ pc' = "drawing" /\ row' = 0
  /\ UNCHANGED <<mem, buf_act, flushing, ADDR, VBPRELOAD, lcd>>

DrawRow ==
  /\ pc = "drawing" /\ row < Rows
  /\ mem' = [mem EXCEPT ![buf_act][row] = frame]
  /\ row' = row + 1
  /\ UNCHANGED <<buf_act, flushing, pc, frame, ADDR, VBPRELOAD, lcd>>

\* draw_buf_flush marks the buffer as flushing and calls flush_cb.
draw_buf_flush ==
  /\ pc = "drawing" /\ row = Rows
  /\ flushing' = TRUE
  /\ pc' = "flush"
  /\ UNCHANGED <<mem, buf_act, row, frame, ADDR, VBPRELOAD, lcd>>

\* rgb_lcd_set_framebuffer writes the address and asks the controller for it;
\* without SWM341, memcpy starts to copy the picture to lcd_fb.
disp_flush ==
  /\ pc = "flush"
  /\ IF SwapBuilt
       THEN /\ ADDR' = buf_act /\ VBPRELOAD' = TRUE
            /\ pc' = "spinning" /\ UNCHANGED row
       ELSE /\ pc' = "copying" /\ row' = 0
            /\ UNCHANGED <<ADDR, VBPRELOAD>>
  /\ UNCHANGED <<mem, buf_act, flushing, frame, lcd>>

CopyRow ==
  /\ pc = "copying" /\ row < Rows
  /\ mem' = [mem EXCEPT !["lcd_fb"][row] = mem[buf_act][row]]
  /\ row' = row + 1
  /\ UNCHANGED <<buf_act, flushing, pc, frame, ADDR, VBPRELOAD, lcd>>

\* The copy is complete, or VBPRELOAD reads 0: disp_flush tells LVGL so.
\* (The RECT_UPDATE control after a copy is answered -RT_EINVAL and changes
\* nothing.)
lv_disp_flush_ready ==
  /\ \/ pc = "copying" /\ row = Rows
     \/ pc = "spinning" /\ ~VBPRELOAD
  /\ flushing' = FALSE
  /\ pc' = "flushed"
  /\ UNCHANGED <<mem, buf_act, row, frame, ADDR, VBPRELOAD, lcd>>

\* The end of draw_buf_flush: the other draw buffer is next.
SwapBuffers ==
  /\ pc = "flushed"
  /\ buf_act' = IF buf_act = "fb0" THEN "fb1" ELSE "fb0"
  /\ pc' = "idle"
  /\ UNCHANGED <<mem, flushing, row, frame, ADDR, VBPRELOAD, lcd>>

-----------------------------------------------------------------------------
(* The controller.                                                          *)

ScanRow ==
  /\ scan < Rows
  /\ panel' = [panel EXCEPT ![scan] = mem[source][scan]]
  /\ scan' = scan + 1
  /\ UNCHANGED <<mem, lvgl, ADDR, VBPRELOAD, source>>

\* Vertical blanking: the next scan starts, from ADDR if that was asked for.
Blanking ==
  /\ scan = Rows
  /\ scan' = 0
  /\ source' = IF VBPRELOAD THEN ADDR ELSE source
  /\ VBPRELOAD' = FALSE
  /\ UNCHANGED <<mem, lvgl, ADDR, panel>>

Lvgl == \/ refr_area_part \/ DrawRow \/ draw_buf_flush \/ disp_flush
        \/ CopyRow \/ lv_disp_flush_ready \/ SwapBuffers

Controller == ScanRow \/ Blanking

Next == Lvgl \/ Controller

Spec == Init /\ [][Next]_vars

-----------------------------------------------------------------------------
\* A complete scan shows one picture: no row of it belongs to another picture
\* than its first one.  The comments of lv_port_disp.c say that a flush only
\* changes the address the controller reads from, which is what makes it so.
TearFree == scan = Rows => \A r, s \in Row : panel[r] = panel[s]

=============================================================================
