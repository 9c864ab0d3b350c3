----------------------------- MODULE Libraries -----------------------------
(***************************************************************************)
(* What the ROMs are made and run with, side by side, one at a time: the   *)
(* loaders of images and melodies, the builder of their file systems, and  *)
(* the switches between text and graphic mode.                             *)
(***************************************************************************)
EXTENDS Integers, Sequences

CONSTANTS
    \* Resources
    Height, Names, Tones, MaxObjects,
    \* ImageFile
    DataSize, Direct, Indirect, PerIndirect, Sizes, MaxFiles,
    \* Vga
    MaxSwitches

\* An animation has an image (graphic.c:567-615).
ASSUME LoadersAssumption == Height \in Nat /\ Names \in Nat \ {0}

\* A block holds data, an inode lists blocks and so does an index block (kfs.h:10-25);
\* a file has a size.
ASSUME BuilderAssumption ==
    /\ DataSize \in Nat \ {0} /\ Direct \in Nat \ {0} /\ Indirect \in Nat
    /\ PerIndirect \in Nat \ {0} /\ Sizes \subseteq Nat

VARIABLES
    unit,   \* what runs
    \* Resources
    pc, caller, id, anim, row, live, open, kept, doomed, lost,
    \* ImageFile
    files, image, n, read, inode, iblock, blk_idx, step,
    \* Vga
    locked, crtc, others, palette, window, screen, saved, switches, intact

R == INSTANCE Resources
F == INSTANCE ImageFile
V == INSTANCE Vga

loaderVars == <<pc, caller, id, anim, row, live, open, kept, doomed, lost>>
builderVars == <<files, image, n, read, inode, iblock, blk_idx, step>>
vgaVars == <<locked, crtc, others, palette, window, screen, saved, switches, intact>>
vars == <<unit, loaderVars, builderVars, vgaVars>>

Init == R!Init /\ F!Init /\ V!Init

Load == R!Next /\ UNCHANGED <<builderVars, vgaVars>>
Build == F!Next /\ UNCHANGED <<loaderVars, vgaVars>>
Switch == V!Next /\ UNCHANGED <<loaderVars, builderVars>>

Alone(name) == unit = name /\ UNCHANGED unit
Next ==
    \/ Alone("loaders") /\ Load
    \/ Alone("mkkfs") /\ Build
    \/ Alone("vga") /\ Switch

Spec == Init /\ [][Next]_vars

-----------------------------------------------------------------------------
\* No way out of a loader keeps a block or a descriptor (graphic.c:442-615,
\* sound.c:27-80), and no pair of switches loses the text (libvga.c:156-257).
NothingLost == R!NothingLost /\ V!FontKept

\* What mkkfs writes is found again through its indices (mkkfs.c:63-277).
FoundAgain == F!FoundAgain
=============================================================================
