----------------------------- MODULE Resources -----------------------------
(***************************************************************************)
(* The loaders of the ROMs' library: load_image, load_anim, clear_image    *)
(* (libk/graphic.c), load_sound, clear_sound (libk/sound.c), strdup.  Each *)
(* system call and allocation may fail, and each failure has its own way   *)
(* out.  A block is named by what it holds; `live' are the blocks malloc   *)
(* has given and not got back, `open' the descriptors.                     *)
(***************************************************************************)
EXTENDS Integers, Sequences, FiniteSets

CONSTANTS
    Height,     \* rows of an image
    Names,      \* images of an animation
    Tones,      \* tones of a melody
    MaxObjects  \* bound: images, animations and melodies begun

VARIABLES
    pc,         \* what the call does next
    caller,     \* who called load_image: "program" or "load_anim"
    id,         \* the object being loaded
    anim,       \* load_anim: [id, imgs], imgs the images loaded so far
    row,        \* index of the loop
    live, open,
    kept,       \* what the program has: id |-> its images, <<>> for a melody
    doomed,     \* history: blocks freed while not allocated
    lost        \* history: blocks no way out gave back

vars == <<pc, caller, id, anim, row, live, open, kept, doomed, lost>>
rest == <<caller, id, anim, kept, doomed, lost>>

Image(i) == {<<"image", i>>, <<"data", i>>}
Rows(i, n) == {<<"row", i, r>> : r \in 1..n}

Init ==
    /\ pc = "idle" /\ caller = "program" /\ id = 0 /\ row = 0
    /\ anim = [id |-> 0, imgs |-> <<>>]
    /\ live = {} /\ open = {} /\ kept = {} /\ doomed = {} /\ lost = {}

At(step) == pc = step
Goto(step) == pc' = step
Free(blocks) ==
    /\ live' = live \ blocks
    /\ doomed' = doomed \cup (blocks \ live)

\* A call that gives nothing to hold, and one that gives a block.
Try(step, ok, fails) ==
    /\ At(step) /\ pc' \in {ok, fails}
    /\ UNCHANGED <<rest, row, live, open>>
Allocate(step, block, ok, fails) ==
    /\ At(step)
    /\ \/ Goto(ok) /\ live' = live \cup {block}
       \/ Goto(fails) /\ UNCHANGED live
    /\ UNCHANGED <<rest, row, open>>

\* One turn of a loop that makes a call: it fails, goes on, or is over.
Loop(step, n, block, over, fails) ==
    /\ At(step)
    /\ \/ row < n /\ row' = row + 1 /\ UNCHANGED pc /\ live' = live \cup block
       \/ row < n /\ Goto(fails) /\ UNCHANGED <<row, live>>
       \/ row = n /\ Goto(over) /\ row' = 0 /\ UNCHANGED live
    /\ UNCHANGED <<rest, open>>

Open(step, ok, fails) ==
    /\ At(step)
    /\ \/ Goto(ok) /\ open' = open \cup {id}
       \/ Goto(fails) /\ UNCHANGED open
    /\ UNCHANGED <<rest, row, live>>

-----------------------------------------------------------------------------
(* load_image.                                                             *)

Begin(step) ==
    /\ At("idle") /\ id < MaxObjects
    /\ Goto(step) /\ id' = id + 1 /\ row' = 0
load_image ==
    /\ Begin("open_image") /\ caller' = "program"
    /\ UNCHANGED <<anim, live, open, kept, doomed, lost>>

ReadHeader == Open("open_image", "header", "no_image") \/ Try("header", "struct", "err_img")
NewImage == Allocate("struct", <<"image", id>>, "data", "err_img")
NewData == Allocate("data", <<"data", id>>, "rows", "err_buf")
NewRows == Loop("rows", Height, {<<"row", id, row + 1>>}, "seek", "err")
ReadRows == Try("seek", "pixels", "err") \/ Loop("pixels", Height, {}, "image", "err")

\* The ways out.  The array was cleared by calloc: the rows never reached are
\* NULL, and free takes them.
BugErr ==
    /\ At("err") /\ Goto("err_img") /\ Free(Image(id))
    /\ UNCHANGED <<caller, id, anim, row, kept, lost, open>>
Err ==
    /\ At("err") /\ Goto("err_img")
    /\ Free(Image(id) \cup (Rows(id, Height) \cap live))
    /\ UNCHANGED <<caller, id, anim, row, kept, lost, open>>
ErrBuf ==
    /\ At("err_buf") /\ Goto("err_img") /\ Free({<<"image", id>>})
    /\ UNCHANGED <<caller, id, anim, row, kept, lost, open>>
CloseImage ==
    /\ pc \in {"err_img", "image"} /\ open' = open \ {id}
    /\ Goto(IF At("image") THEN "loaded" ELSE "no_image")
    /\ UNCHANGED <<rest, row, live>>

\* Back in the program, which keeps an image; back in load_anim, whose next
\* name is loaded or whose failure is a blue screen for ever.
ImageReturned ==
    /\ pc \in {"loaded", "no_image"}
    /\ row' = 0
    /\ IF caller = "program"
       THEN /\ Goto("idle")
            /\ kept' = kept \cup (IF At("loaded") THEN {[id |-> id, imgs |-> <<id>>]} ELSE {})
            /\ UNCHANGED anim
       ELSE /\ Goto(IF At("loaded") THEN "names" ELSE "blue_screen")
            /\ anim' = [anim EXCEPT !.imgs = @ \o (IF At("loaded") THEN <<id>> ELSE <<>>)]
            /\ UNCHANGED kept
    /\ UNCHANGED <<caller, id, live, open, doomed, lost>>

-----------------------------------------------------------------------------
(* load_anim.                                                              *)

load_anim ==
    /\ Begin("anim") /\ caller' = "load_anim"
    /\ anim' = [id |-> id', imgs |-> <<>>]
    /\ UNCHANGED <<live, open, kept, doomed, lost>>

NewAnim ==
    \/ Allocate("anim", <<"anim", id>>, "imgs", "idle")
    \/ Allocate("imgs", <<"imgs", id>>, "strdup", "no_imgs")
    \/ Allocate("strdup", <<"paths", id>>, "names", "no_paths")

NoImgs ==
    /\ pc \in {"no_imgs", "no_paths"}
    /\ Goto("idle") /\ Free({<<"anim", id>>})
    /\ lost' = lost \cup ({<<"imgs", id>>} \cap live)
    /\ UNCHANGED <<caller, id, anim, row, open, kept>>

\* The next name, or the end of the names: the copy of them is freed.
NextName ==
    /\ At("names")
    /\ IF Len(anim.imgs) < Names
       THEN /\ Goto("open_image") /\ id' = id + 1
            /\ UNCHANGED <<live, doomed, kept>>
       ELSE /\ Goto("idle") /\ Free({<<"paths", anim.id>>})
            /\ kept' = kept \cup {anim} /\ UNCHANGED id
    /\ UNCHANGED <<caller, anim, row, open, lost>>

-----------------------------------------------------------------------------
(* load_sound, and giving back.                                            *)

load_sound ==
    /\ Begin("open_sound")
    /\ UNCHANGED <<caller, anim, live, open, kept, doomed, lost>>

LoadSound ==
    \/ Open("open_sound", "magic", "idle")
    \/ Try("magic", "number", "close") \/ Try("number", "melody", "close")
    \/ Allocate("melody", <<"melody", id>>, "tones", "close")
    \/ Loop("tones", 2 * Tones, {}, "sound", "no_tones")

SoundReturned ==
    /\ pc \in {"sound", "no_tones", "close"}
    /\ Goto("idle") /\ row' = 0 /\ open' = open \ {id}
    /\ Free(IF At("no_tones") THEN {<<"melody", id>>} ELSE {})
    /\ kept' = IF At("sound") THEN kept \cup {[id |-> id, imgs |-> <<>>]} ELSE kept
    /\ UNCHANGED <<caller, id, anim, lost>>

\* clear_image or clear_sound; nothing clears an animation.
Clear(object) ==
    /\ At("idle") /\ <<"anim", object.id>> \notin live
    /\ kept' = kept \ {object}
    /\ Free(IF object.imgs = <<>> THEN {<<"melody", object.id>>}
            ELSE Image(object.id) \cup Rows(object.id, Height))
    /\ UNCHANGED <<pc, caller, id, anim, row, open, lost>>

Next ==
    \/ load_image \/ ReadHeader \/ NewImage \/ NewData \/ NewRows \/ ReadRows
    \/ Err \/ ErrBuf \/ CloseImage \/ ImageReturned
    \/ load_anim \/ NewAnim \/ NoImgs \/ NextName
    \/ load_sound \/ LoadSound \/ SoundReturned
    \/ \E object \in kept : Clear(object)

Spec == Init /\ [][Next]_vars

-----------------------------------------------------------------------------
Anim(object) == {<<"anim", object.id>>, <<"imgs", object.id>>}
OfImages(object) == UNION {Image(object.imgs[n]) \cup Rows(object.imgs[n], Height) :
                              n \in DOMAIN object.imgs}
Belongs(object) ==
    IF object.imgs = <<>> THEN {<<"melody", object.id>>}
    ELSE OfImages(object) \cup (IF object.imgs = <<object.id>> THEN {} ELSE Anim(object))

\* Between two calls the program has every block of what it was given, whole,
\* and no other block is allocated but the images' array of an animation whose
\* names could not be copied; nothing is open, nothing was freed twice.
NothingLost ==
    /\ doomed = {}
    /\ pc = "idle" =>
         /\ open = {}
         /\ live = (UNION {Belongs(object) : object \in kept}) \cup lost
         /\ \A block \in lost : block[1] = "imgs"
=============================================================================
