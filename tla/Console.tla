------------------------------ MODULE Console ------------------------------
(***************************************************************************)
(* The text console, k/console.c: characters printed by the main flow, cut *)
(* where an interrupt can come between a load and a store, and the prints  *)
(* of the interrupt handlers, which run in one piece: the echo of a key    *)
(* (keyboard.c:157) and the pointer of the mouse (mouse.c:155-158).        *)
(* Cells may be written beyond the last one of the screen: the memory goes *)
(* on there, but nothing shows it.  The blinking cursor of the hardware is *)
(* left out.                                                               *)
(***************************************************************************)
EXTENDS Integers, Sequences, SequencesExt

CONSTANTS
    VGA_TEXT_WIDTH, VGA_TEXT_HEIGHT, MAXIMUM_PAGES,
    CursorLimit,   \* 256: cursor_pos_x and cursor_pos_y are bytes
    Strings,       \* what the main flow prints: characters or "space", "tab",
                   \* "newline"
    Keys, Pointers,\* characters echoed by the keyboard, positions of the mouse
    MaxPrints, MaxInterrupts   \* bounds

VARIABLES
    con,       \* vga_buffer (the cells written), vga_index, cursor_pos_x,
               \* cursor_pos_y, current_temp_page and temp_pages
    text, putting,  \* characters the main flow has yet to print; where it is
    loaded,    \* the value it has loaded and not stored yet
    prints, interrupts,
    \* History variables, read by the properties only.
    overlong,  \* a line of VGA_TEXT_WIDTH characters or more was printed
    torn,      \* a handler printed inside a character or a new line
    scrolled,     \* console_scroll, console_gotoxy or the mouse moved the text
    cleared       \* the screens that were cleared when they were full

vars == <<con, text, putting, loaded, prints, interrupts, overlong, torn, scrolled, cleared>>
history == <<overlong, torn, scrolled, cleared>>

W == VGA_TEXT_WIDTH
Total == W * VGA_TEXT_HEIGHT
\* What a buffer shows on the screen.
Shown(buffer) == [n \in (DOMAIN buffer \cap 0..(Total - 1)) |-> buffer[n]]
\* What is there once `new' was stored over `old'.
Over(new, old) ==
    [n \in (DOMAIN new \cup DOMAIN old) |-> IF n \in DOMAIN new THEN new[n] ELSE old[n]]
Put(n, value, old) == Over([m \in {n} |-> value], old)

-----------------------------------------------------------------------------
(* The functions of the console, from one state of `con' to the next.      *)

clear_console(c) ==
    [c EXCEPT !.vga_buffer = [n \in (DOMAIN c.vga_buffer \ 0..(Total - 1)) |->
                                 c.vga_buffer[n]],
              !.vga_index = 0, !.x = 0, !.y = 0]

Blank == <<>>
SavePage(c) ==
    [c EXCEPT !.temp_pages = Put(c.page, Shown(c.vga_buffer), @)]

BugNextLine(c) ==
    IF c.y >= VGA_TEXT_HEIGHT THEN clear_console(c)
    ELSE [c EXCEPT !.vga_index = @ + W - (@ % W), !.x = 0, !.y = @ + 1]
\* The end of console_newline.  The page is counted on without a limit; the
\* last line is the one below the screen.
NextLine(c) ==
    IF c.y >= VGA_TEXT_HEIGHT THEN clear_console([c EXCEPT !.page = @ + 1])
    ELSE [c EXCEPT !.vga_index = @ + W - (@ % W), !.x = 0, !.y = @ + 1]

Cell(c, ch) == [c EXCEPT !.vga_buffer = Put(c.vga_index, ch, @), !.vga_index = @ + 1]
StepX(x) == (x + 1) % CursorLimit

\* console_putchar: a tab is four spaces.
Character(c, ch) == [Cell(c, ch) EXCEPT !.x = StepX(@)]
Space(c) == Character(c, "space")
console_putchar(c, ch) ==
    CASE ch = "newline" -> NextLine(SavePage(c))
      [] ch = "tab" -> Space(Space(Space(Space(c))))
      [] OTHER -> Character(c, ch)

BugGotoxy(c, x, y) == [c EXCEPT !.vga_index = W * y + x, !.y = y]
console_gotoxy(c, x, y) ==
    [c EXCEPT !.vga_index = W * y + x, !.x = x % CursorLimit, !.y = y % CursorLimit]

\* Erase this cell and go back one, to the end of the line above if need be.
Back(c) ==
    [c EXCEPT !.vga_buffer = [n \in (DOMAIN @ \ {c.vga_index, c.vga_index - 1}) |-> @[n]],
              !.vga_index = @ - 1,
              !.x = IF @ > 0 THEN @ - 1 ELSE IF c.y > 0 THEN W - 1 ELSE W,
              !.y = IF c.x = 0 /\ c.y > 0 THEN @ - 1 ELSE @]
Erase(c) == [c EXCEPT !.vga_buffer = [n \in (DOMAIN @ \ {c.vga_index}) |-> @[n]]]
console_ungetchar(c) == IF c.vga_index > 0 THEN Back(c) ELSE Erase(c)

\* The same for the characters after the n-th of the line; a cursor before the
\* n-th column goes to the line above.
console_ungetchar_bound(c, n) ==
    IF ~(c.vga_index % W > n /\ n > 0) THEN Erase(c)
    ELSE IF c.x >= n THEN Back(c) ELSE Back([c EXCEPT !.x = 0])

ScrollPage(page, up) ==
    (IF ~up THEN page + 1 ELSE IF page > 0 THEN page - 1 ELSE page) % MAXIMUM_PAGES
console_scroll(c, up) ==
    LET page == ScrollPage(c.page, up)
        shown == IF page \in DOMAIN c.temp_pages THEN c.temp_pages[page] ELSE Blank
    IN  [clear_console(c) EXCEPT !.page = page, !.vga_index = c.vga_index,
                                 !.x = c.x, !.y = c.y,
                                 !.vga_buffer = Over(shown, @)]

\* What the handler of the mouse prints: the pointer, then two lines.
MouseDraws(c, x, y) ==
    LET pointer == console_putchar(console_gotoxy(clear_console(c), x, y), "X")
        line(d, ch) == console_putchar(console_putchar(d, ch), "newline")
    IN  line(line(console_gotoxy(pointer, 0, 0), "i"), "b")

-----------------------------------------------------------------------------
Init ==
    /\ con = [vga_buffer |-> Blank, vga_index |-> 0, x |-> 0, y |-> 0,
              page |-> 0, temp_pages |-> <<>>]
    /\ text = <<>> /\ putting = "idle" /\ loaded = 0
    /\ prints = 0 /\ interrupts = 0
    /\ overlong = FALSE /\ torn = FALSE /\ scrolled = FALSE /\ cleared = <<>>

\* History of one step from `con' to `next' that prints ch, or moves.
Note(ch, next) ==
    /\ overlong' = (overlong \/ (ch = "newline" /\ con.x >= W) \/ next.x < con.x - W)
    /\ cleared' = IF ch = "newline" /\ con.y >= VGA_TEXT_HEIGHT
               THEN Append(cleared, Shown(con.vga_buffer)) ELSE cleared

-----------------------------------------------------------------------------
(* The main flow.                                                          *)

\* console_putstr, which prints the tab's spaces one by one.
Cells(ch) == IF ch = "tab" THEN <<"space", "space", "space", "space">> ELSE <<ch>>
console_print(str) ==
    /\ putting = "idle" /\ text = <<>> /\ prints < MaxPrints
    /\ text' = FoldLeft(LAMBDA t, ch : t \o Cells(ch), <<>>, str)
    /\ prints' = prints + 1
    /\ UNCHANGED <<con, putting, loaded, interrupts, history>>

Goto(from, to) == putting = from /\ putting' = to
main == <<text, prints, interrupts>>

\* `vga_buffer[vga_index++] = ...': the index, then the cell and the index.
LoadIndex ==
    /\ Goto("idle", "index") /\ text # <<>> /\ Head(text) # "newline"
    /\ loaded' = con.vga_index
    /\ UNCHANGED <<con, main, history>>
StoreIndex ==
    /\ Goto("index", "stored")
    /\ con' = Cell([con EXCEPT !.vga_index = loaded], Head(text))
    /\ UNCHANGED <<main, loaded, history>>

\* `cursor_pos_x++'.
LoadX ==
    /\ Goto("stored", "x")
    /\ loaded' = con.x
    /\ UNCHANGED <<con, main, history>>
StoreX ==
    /\ Goto("x", "idle")
    /\ con' = [con EXCEPT !.x = StepX(loaded)]
    /\ text' = Tail(text)
    /\ Note(Head(text), con')
    /\ UNCHANGED <<loaded, prints, interrupts, torn, scrolled>>

Save ==
    /\ Goto("idle", "newline") /\ text # <<>> /\ Head(text) = "newline"
    /\ con' = SavePage(con)
    /\ UNCHANGED <<main, loaded, history>>

NewLine ==
    /\ Goto("newline", "idle")
    /\ con' = NextLine(con)
    /\ text' = Tail(text)
    /\ Note("newline", con')
    /\ UNCHANGED <<loaded, prints, interrupts, torn, scrolled>>

\* The calls that are not cut: nothing in the kernel makes them yet.
OtherCall(next, moves) ==
    /\ putting = "idle" /\ text = <<>> /\ prints < MaxPrints
    /\ prints' = prints + 1
    /\ con' = next
    /\ scrolled' = (scrolled \/ moves)
    /\ UNCHANGED <<text, putting, loaded, interrupts, overlong, torn, cleared>>

-----------------------------------------------------------------------------
(* The handlers.                                                           *)

Interrupt == interrupts < MaxInterrupts /\ interrupts' = interrupts + 1

\* A key is echoed.  Between the two counts of a character that is harmless,
\* but for a new line.
EchoKey(ch) ==
    /\ Interrupt
    /\ con' = console_putchar(con, ch)
    /\ Note(ch, con')
    /\ torn' = (torn \/ putting \in {"index", "x", "newline"}
                     \/ (putting = "stored" /\ ch = "newline"))
    /\ UNCHANGED <<text, putting, loaded, prints, scrolled>>

DrawMouse(x, y) ==
    /\ Interrupt
    /\ con' = MouseDraws(con, x, y)
    /\ torn' = (torn \/ putting # "idle") /\ scrolled' = TRUE
    /\ UNCHANGED <<text, putting, loaded, prints, overlong, cleared>>

-----------------------------------------------------------------------------
Main == LoadIndex \/ StoreIndex \/ LoadX \/ StoreX \/ Save \/ NewLine

Next ==
    \/ \E str \in Strings : console_print(str)
    \/ Main
    \/ OtherCall(console_ungetchar(con), FALSE)
    \/ OtherCall(console_ungetchar_bound(con, 1), FALSE)
    \/ \E up \in BOOLEAN : OtherCall(console_scroll(con, up), TRUE)
    \/ \E p \in Pointers : OtherCall(console_gotoxy(con, p[1], p[2]), TRUE)
    \/ \E ch \in Keys : EchoKey(ch)
    \/ \E p \in Pointers : DrawMouse(p[1], p[2])

Spec == Init /\ [][Next]_vars
Fairness == WF_vars(Main)

-----------------------------------------------------------------------------
(* Properties.                                                             *)

\* The type invariant.
TypeOK ==
    /\ DOMAIN con.vga_buffer \subseteq Nat /\ con.vga_index \in Nat
    /\ con.x \in 0..(CursorLimit - 1) /\ con.y \in 0..(CursorLimit - 1)
    /\ \A page \in DOMAIN con.temp_pages : DOMAIN con.temp_pages[page] \subseteq 0..(Total - 1)
    /\ putting \in {"idle", "index", "stored", "x", "newline"}

\* Between two characters the index and the cursor are at the same place, and
\* at most one line below the screen, through every function and with keys
\* echoed in between: as long as no line fills the width, no handler prints
\* inside a character (console.c:24-217) and the mouse stays on the screen.
CursorFollows ==
    putting = "idle" /\ ~overlong /\ ~torn =>
        /\ con.vga_index = W * con.y + con.x
        /\ con.y <= VGA_TEXT_HEIGHT

\* A screen cleared because it was full can be found again: its page holds all
\* that it showed (console.c:74-97), up to the last of the pages.
PagesKept ==
    ~torn /\ ~scrolled /\ con.page < MAXIMUM_PAGES =>
        \A k \in DOMAIN cleared : con.temp_pages[k - 1] = cleared[k]

\* A print ends, however the handlers interrupt it.
PrintEnds == [](text # <<>> => <>(text = <<>>))
=============================================================================
