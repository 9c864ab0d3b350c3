-------------------------------- MODULE Vga --------------------------------
(***************************************************************************)
(* The switches between text and graphic mode of k/libvga.c.  A register   *)
(* holds the value that one of the two tables gives it, or zero; the first *)
(* eight of the CRTC cannot be written while the last one's top bit, the   *)
(* lock, is set.  Of the video memory only what the window at 0xA0000      *)
(* reaches in graphic mode matters: it holds the font, or a picture, and   *)
(* the rest of it the text.                                                *)
(***************************************************************************)
EXTENDS Integers

CONSTANTS MaxSwitches       \* bound: mode switches made

VARIABLES
    locked,     \* CRTC register 0x11, bit 7: set by the BIOS
    crtc,       \* registers 0 to 7 of the CRTC: the mode they are set for
    others,     \* the other registers
    palette,    \* the DAC has the default palette
    window,     \* what is in the memory seen at 0xA0000 in graphic mode
    screen,     \* and in the rest of it, seen at 0xB8000 in text mode
    saved,      \* libvga_txt_mode_font
    switches,   \* bound
    intact      \* history: no picture was saved, nor anything restored unsaved

vars == <<locked, crtc, others, palette, window, screen, saved, switches, intact>>

Init ==
    /\ locked = TRUE
    /\ crtc = "text" /\ others = "text" /\ palette = FALSE
    /\ window = "font" /\ screen = "text" /\ saved = "zero"
    /\ switches = 0 /\ intact = TRUE

\* libvga_write_regs: the lock is taken off first, and the tables hold it off.
BugWriteRegs(mode) ==
    /\ crtc' = (IF locked THEN crtc ELSE mode)
    /\ locked' = FALSE
    /\ others' = mode /\ palette' = TRUE
libvga_write_regs(mode) ==
    /\ locked' = FALSE
    /\ crtc' = mode /\ others' = mode /\ palette' = TRUE

Switch == switches < MaxSwitches /\ switches' = switches + 1

\* The window is saved when the registers are written, before it is drawn on.
libvga_switch_mode13h ==
    /\ Switch
    /\ libvga_write_regs("graphic")
    /\ saved' = window
    /\ intact' = (intact /\ window = "font")
    /\ UNCHANGED <<window, screen>>

\* libvga_get_framebuffer asks the registers which memory is mapped: in text
\* mode what was saved goes to the text; with all registers zero no plane is
\* written.
libvga_switch_mode3h ==
    /\ Switch
    /\ window' = (IF others = "graphic" THEN saved ELSE window)
    /\ screen' = (IF others = "text" THEN saved ELSE screen)
    /\ libvga_write_regs("text")
    /\ intact' = (intact /\ others = "graphic")
    /\ UNCHANGED saved

VGA_graphics_fill_color ==
    /\ others = "graphic" /\ window' = "picture"
    /\ UNCHANGED <<locked, crtc, others, palette, screen, saved, switches, intact>>

\* All zero, in order: those locked when their turn comes are not written.
exit_VGA_graphics ==
    /\ Switch
    /\ crtc' = IF locked THEN crtc ELSE "zero"
    /\ others' = "zero" /\ locked' = FALSE
    /\ intact' = FALSE
    /\ UNCHANGED <<palette, window, screen, saved>>

Next == libvga_switch_mode13h \/ libvga_switch_mode3h \/ VGA_graphics_fill_color
        \/ exit_VGA_graphics

\* The registers are all of one mode unless they were cleared while locked, and
\* the font and the text are back in text mode as long as the two switches take
\* turns, whatever is drawn in between.
FontKept ==
    /\ palette /\ others # "zero" => crtc = others
    /\ intact /\ others = "text" => window = "font" /\ screen = "text"
=============================================================================
