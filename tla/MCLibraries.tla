---------------------------- MODULE MCLibraries ----------------------------
(* The libraries of the ROMs and the tools that make their files, one of   *)
(* them in each behaviour: the allocator on a heap of five pages of eight  *)
(* units, the loaders with every call failing or not, the image builder    *)
(* with two blocks at each level, the VGA switches; and every input of a   *)
(* bounded set for the functions that print and draw.                      *)
EXTENDS Libraries

VARIABLES
    input,  \* of the functions
    \* Malloc
    heap, granted, refused

H == INSTANCE Malloc WITH
    TreeShift <- 2, NTreeBins <- 4, WordBits <- 9, Page <- 8, Base <- 6,
    Limit <- 40, TrimThreshold <- 8, Requests <- {20, 60},
    Arrays <- {<<64, 65>>, <<4, 19>>}, Alignments <- {}, Bundles <- {},
    Pads <- {0, 8}, MaxLive <- 3
\* The same heap, with aligned blocks and blocks asked for together.
A == INSTANCE Malloc WITH
    TreeShift <- 2, NTreeBins <- 4, WordBits <- 9, Page <- 8, Base <- 6,
    Limit <- 40, TrimThreshold <- 8, Requests <- {20},
    Arrays <- {}, Alignments <- {3}, Bundles <- {<<20, 9>>},
    Pads <- {0, 8}, MaxLive <- 3
P == INSTANCE Format WITH WordBits <- 8, ShortBits <- 5
D == INSTANCE Drawing WITH
    Width <- 7, Height <- 6, Half <- 64, Cell <- 3,
    Font <- [v |-> {<<0, 0>>, <<0, 2>>, <<1, 1>>}, l |-> {<<0, 0>>, <<1, 0>>}]

heapVars == <<heap, granted, refused>>

Directives ==
    [conv : {"o", "x", "u", "d"}, flags : SUBSET {"ZEROPAD", "LEFT", "PLUS", "SPECIAL"},
     width : {-6, 0, 7}, star : {TRUE}, precision : {-1, 4}, qualifier : {"h", "-"},
     arg : {0, -1, -128, 37, 127}]
Corners == (0..6) \X (0..5) \X (0..6) \X (0..5)

MCInit ==
    /\ H!Init /\ Init
    /\ \/ unit = "printf" /\ input \in Directives
       \/ unit = "draw" /\ input \in Corners
       \/ unit \in {"malloc", "memalign", "loaders", "mkkfs", "vga"} /\ input = <<>>
    /\ unit # "mkkfs" => files = <<3>>

MCNext ==
    \/ Alone("malloc") /\ H!Next /\ UNCHANGED <<input, loaderVars, builderVars, vgaVars>>
    \/ Alone("memalign") /\ A!Next /\ UNCHANGED <<input, loaderVars, builderVars, vgaVars>>
    \/ Next /\ UNCHANGED <<input, heapVars>>

MCSpec == MCInit /\ [][MCNext]_<<vars, input, heapVars>>

-----------------------------------------------------------------------------
\* The chunks, their tags, the bins and what the program holds agree, whatever
\* was asked for and given back before (malloc.c:3214-3480, the checks that a
\* debug build makes).
HeapSound == H!HeapSound
\* malloc fails only where nothing fits (malloc.c:4032-4673).
NoFitMissed == H!NoFitMissed

\* A field shows its number (printf.c:51-294, console.c:219-323), and lines,
\* rectangles, pictures and circles are theirs (graphic.c:312-565, libvga.c:340-411).
AsDefined ==
    /\ unit = "printf" =>
          /\ P!FieldRight(input)
          /\ input.conv \in {"d", "u", "x"} => P!ItoaRight(input.conv, input.arg)
    /\ unit = "draw" =>
          /\ D!LineRight(input[1], input[2], input[3], input[4])
          /\ D!RectRight(input[1], input[2], input[3], input[4])
          /\ D!PictureRight(<< <<1, 2, 2>>, <<2, 1, 3>> >>, <<"v", "l">>, input[1], input[2])
          /\ input[3] > 0 => D!CircleRight(input[1], input[2], input[3])
=============================================================================
