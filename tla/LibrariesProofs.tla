-------------------------- MODULE LibrariesProofs --------------------------
(***************************************************************************)
(* The loaders lose nothing, whichever call fails, and what the builder    *)
(* writes is found again, for files and blocks of every size.              *)
(***************************************************************************)
EXTENDS Libraries, SequenceTheorems, TLAPS

-----------------------------------------------------------------------------
(* The VGA switches.                                                       *)

\* The font is in the window or, in graphic mode, saved.
FontSomewhere ==
    /\ palette /\ others # "zero" => crtc = others
    /\ intact => screen = "text" /\ others # "zero"
    /\ intact /\ others = "text" => window = "font"
    /\ intact /\ others = "graphic" => saved = "font"

\* Every switch, and every picture drawn, leaves the font somewhere.
LEMMA SwitchNext ==
    ASSUME FontSomewhere, V!Next
    PROVE  FontSomewhere'
<1>1. CASE V!libvga_switch_mode13h
  BY <1>1 DEF FontSomewhere, V!libvga_switch_mode13h, V!libvga_write_regs
<1>2. CASE V!libvga_switch_mode3h
  <2>1. intact' => intact /\ others = "graphic"
    BY <1>2 DEF V!libvga_switch_mode3h
  <2>2. /\ crtc' = "text" /\ others' = "text"
        /\ others = "graphic" => window' = saved /\ screen' = screen
    BY <1>2 DEF V!libvga_switch_mode3h, V!libvga_write_regs
  <2> QED
    BY <2>1, <2>2 DEF FontSomewhere
<1>3. CASE V!VGA_graphics_fill_color
  BY <1>3 DEF FontSomewhere, V!VGA_graphics_fill_color
<1>4. CASE V!exit_VGA_graphics
  BY <1>4 DEF FontSomewhere, V!exit_VGA_graphics
<1> QED
  BY <1>1, <1>2, <1>3, <1>4 DEF V!Next

-----------------------------------------------------------------------------
(* The loaders.                                                            *)

ImageSteps == {"open_image", "header", "struct", "data", "rows", "seek", "pixels", "image",
               "err", "err_img", "err_buf", "loaded", "no_image"}
\* An animation has its array, and the copy of its names.
Loading == pc = "names" \/ (pc \in ImageSteps /\ caller = "load_anim")

\* The images an object has, and the object: the numbers of its blocks.
Numbers(object) == {object.id} \cup {object.imgs[k] : k \in DOMAIN object.imgs}
IsObject(object) ==
    /\ object.id \in Nat /\ object.imgs \in Seq(Nat)
    /\ \/ object.imgs = <<>>
       \/ object.imgs = <<object.id>>
       \/ object.imgs # <<>> /\ \A k \in DOMAIN object.imgs : object.imgs[k] > object.id

\* What nothing but the end of a call may touch.
Finished == UNION {R!Belongs(object) : object \in kept}
Partial == IF Loading THEN R!OfImages(anim) \cup R!Anim(anim) \cup {<<"paths", anim.id>>} ELSE {}
\* What has been allocated for the image, animation or melody being loaded.
Current ==
    IF pc \in {"data", "err_buf"} THEN {<<"image", id>>}
    ELSE IF pc = "rows" THEN R!Image(id) \cup R!Rows(id, row)
    ELSE IF pc \in {"seek", "pixels", "image", "loaded"} THEN R!Image(id) \cup R!Rows(id, Height)
    ELSE IF pc \in {"imgs", "no_imgs"} THEN {<<"anim", id>>}
    ELSE IF pc \in {"strdup", "no_paths"} THEN {<<"anim", id>>, <<"imgs", id>>}
    ELSE IF pc \in {"tones", "no_tones", "sound"} THEN {<<"melody", id>>}
    ELSE {}
\* The last number that an object the program has may bear.
Last == IF Loading THEN anim.id - 1 ELSE IF pc = "idle" THEN id ELSE id - 1

\* Where the loaders are: their counters, and the object they make.
LoadersAt ==
    /\ id \in Nat /\ (pc = "idle" \/ id > 0)
    /\ pc \in {"open_image", "header", "struct", "data", "anim", "imgs", "strdup", "names"} => row = 0
    /\ pc = "rows" => row \in 0..Height
    /\ pc = "names" => caller = "load_anim"
    /\ pc \in {"anim", "imgs", "strdup", "no_imgs", "no_paths"} =>
          caller = "load_anim" /\ anim = [id |-> id, imgs |-> <<>>]
    /\ pc \in ImageSteps => caller \in {"program", "load_anim"}
    /\ Loading =>
          /\ DOMAIN anim = {"id", "imgs"} /\ anim.id \in Nat /\ anim.imgs \in Seq(Nat)
          /\ \A k \in DOMAIN anim.imgs : anim.imgs[k] > anim.id
          /\ \A i \in Numbers(anim) : i <= id /\ (pc # "names" => i < id)

\* The objects that the program has share no number, and bear none that is to come.
KeptApart ==
    \A object \in kept :
        /\ IsObject(object)
        /\ \A i \in Numbers(object) : i <= Last
        /\ \A other \in kept : Numbers(object) \cap Numbers(other) # {} => object = other

\* Every block allocated is someone's.
NoneStray ==
    /\ \A block \in lost : block[1] = "imgs"
    /\ IF pc = "err"
       THEN \E done \in SUBSET R!Rows(id, Height) :
               live = Finished \cup lost \cup Partial \cup R!Image(id) \cup done
       ELSE live = Finished \cup lost \cup Partial \cup Current

Descriptors == IF pc \in {"header", "struct", "data", "rows", "seek", "pixels", "image", "err",
                          "err_img", "err_buf", "magic", "number", "melody", "tones", "sound",
                          "no_tones", "close"} THEN {id} ELSE {}

LoadersSound ==
    /\ doomed = {}
    /\ pc # "blue_screen" => LoadersAt /\ KeptApart /\ NoneStray /\ open = Descriptors

\* What a block is tells its number apart.
LEMMA ImageTags ==
    ASSUME NEW i, NEW b
    PROVE  /\ b \in R!Image(i) => b[2] = i /\ b[1] \in {"image", "data"}
           /\ \A m : b \in R!Rows(i, m) => b[2] = i /\ b[1] = "row"
<1>1. b \in R!Image(i) => b[2] = i /\ b[1] \in {"image", "data"}
  BY DEF R!Image
<1>2. ASSUME NEW m, b \in R!Rows(i, m)
      PROVE  b[2] = i /\ b[1] = "row"
  <2>1. PICK r : b = <<"row", i, r>>
    BY <1>2 DEF R!Rows
  <2> QED
    BY <2>1
<1> QED
  BY <1>1, <1>2

\* The blocks of an object bear its numbers.
LEMMA ObjectTags ==
    ASSUME NEW object, NEW b
    PROVE  /\ b \in R!OfImages(object) =>
                 /\ b[2] \in {object.imgs[k] : k \in DOMAIN object.imgs}
                 /\ b[1] \in {"image", "data", "row"}
           /\ b \in R!Anim(object) => b[2] = object.id /\ b[1] \in {"anim", "imgs"}
           /\ b \in R!Belongs(object) =>
                 /\ b[2] \in Numbers(object)
                 /\ b[1] \in {"image", "data", "row", "anim", "imgs", "melody"}
<1>1. ASSUME b \in R!OfImages(object)
      PROVE  /\ b[2] \in {object.imgs[k] : k \in DOMAIN object.imgs}
             /\ b[1] \in {"image", "data", "row"}
  <2>1. PICK k \in DOMAIN object.imgs :
            b \in R!Image(object.imgs[k]) \cup R!Rows(object.imgs[k], Height)
    BY <1>1 DEF R!OfImages
  <2>2. b[2] = object.imgs[k] /\ b[1] \in {"image", "data", "row"}
    BY <2>1, ImageTags
  <2> QED
    BY <2>2
<1>2. b \in R!Anim(object) => b[2] = object.id /\ b[1] \in {"anim", "imgs"}
  BY DEF R!Anim
<1>3. ASSUME b \in R!Belongs(object)
      PROVE  /\ b[2] \in Numbers(object)
             /\ b[1] \in {"image", "data", "row", "anim", "imgs", "melody"}
  <2>1. \/ b = <<"melody", object.id>>
        \/ b \in R!OfImages(object)
        \/ b \in R!Anim(object)
    BY <1>3 DEF R!Belongs
  <2>2. CASE b = <<"melody", object.id>>
    BY <2>2 DEF Numbers
  <2>3. CASE b \in R!OfImages(object)
    BY <2>3, <1>1 DEF Numbers
  <2>4. CASE b \in R!Anim(object)
    BY <2>4, <1>2 DEF Numbers
  <2> QED
    BY <2>1, <2>2, <2>3, <2>4
<1> QED
  BY <1>1, <1>2, <1>3

\* The blocks of what is finished bear old numbers.
LEMMA FinishedTags ==
    ASSUME KeptApart, NEW b \in Finished
    PROVE  /\ b[2] <= Last
           /\ b[1] \in {"image", "data", "row", "anim", "imgs", "melody"}
<1>1. PICK object \in kept : b \in R!Belongs(object)
  BY DEF Finished
<1>2. b[2] \in Numbers(object) /\ b[1] \in {"image", "data", "row", "anim", "imgs", "melody"}
  BY <1>1, ObjectTags
<1> QED
  BY <1>2 DEF KeptApart

\* So do those of an animation whose next image is loaded.
LEMMA PartialTags ==
    ASSUME LoadersAt, NEW b \in Partial
    PROVE  /\ Loading
           /\ b[2] \in Numbers(anim)
           /\ b[1] \in {"image", "data", "row", "anim", "imgs", "paths"}
<1>1. Loading /\ b \in R!OfImages(anim) \cup R!Anim(anim) \cup {<<"paths", anim.id>>}
  BY DEF Partial
<1>2. CASE b \in R!OfImages(anim)
  BY <1>1, <1>2, ObjectTags DEF Numbers
<1>3. CASE b \in R!Anim(anim)
  BY <1>1, <1>3, ObjectTags DEF Numbers
<1>4. CASE b = <<"paths", anim.id>>
  BY <1>1, <1>4 DEF Numbers
<1> QED
  BY <1>1, <1>2, <1>3, <1>4

\* While something is loaded its number is on no other block, but for the arrays
\* that are lost.
LEMMA Fresh ==
    ASSUME LoadersAt, KeptApart, NoneStray, pc \notin {"idle", "names"},
           NEW b \in Finished \cup lost \cup Partial, b[1] # "imgs"
    PROVE  b[2] # id
<1>1. CASE b \in Finished
  <2>1. b[2] <= Last
    BY <1>1, FinishedTags
  <2>2. Last < id
    <3>1. CASE Loading
      <4>1. anim.id \in Numbers(anim)
        BY DEF Numbers
      <4>2. anim.id < id /\ anim.id \in Nat /\ id \in Nat
        BY <3>1, <4>1 DEF LoadersAt
      <4> QED
        BY <3>1, <4>2 DEF Last
    <3>2. CASE ~Loading
      BY <3>2 DEF Last, LoadersAt
    <3> QED
      BY <3>1, <3>2
  <2>3. b[2] \in Int
    <3>1. PICK object \in kept : b \in R!Belongs(object)
      BY <1>1 DEF Finished
    <3>2. b[2] \in Numbers(object) /\ IsObject(object)
      BY <3>1, ObjectTags DEF KeptApart
    <3>3. CASE b[2] = object.id
      BY <3>2, <3>3 DEF IsObject
    <3>4. CASE b[2] # object.id
      <4>1. PICK k \in DOMAIN object.imgs : b[2] = object.imgs[k]
        BY <3>2, <3>4 DEF Numbers
      <4>2. object.imgs \in Seq(Nat)
        BY <3>2 DEF IsObject
      <4> QED
        BY <4>1, <4>2
    <3> QED
      BY <3>3, <3>4
  <2>4. Last \in Int
    BY DEF Last, LoadersAt
  <2> QED
    BY <2>1, <2>2, <2>3, <2>4 DEF LoadersAt
<1>2. CASE b \in lost
  BY <1>2 DEF NoneStray
<1>3. CASE b \in Partial
  <2>1. Loading /\ b[2] \in Numbers(anim)
    BY <1>3, PartialTags
  <2>2. \A i \in Numbers(anim) : i < id
    BY <2>1 DEF LoadersAt
  <2>3. b[2] < id /\ id \in Nat
    BY <2>1, <2>2 DEF LoadersAt
  <2> QED
    BY <2>3
<1> QED
  BY <1>1, <1>2, <1>3

Calm == LoadersSound /\ pc # "blue_screen"

\* A step of one call leaves what is finished as it is.
LEMMA SameBase ==
    ASSUME Calm, UNCHANGED <<caller, id, anim, kept>>, Loading' <=> Loading,
           pc' = "idle" <=> pc = "idle"
    PROVE  /\ Last' = Last /\ Finished' = Finished /\ Partial' = Partial
           /\ KeptApart'
<1>1. Last' = Last
  BY DEF Last
<1>2. Finished' = Finished /\ Partial' = Partial
  BY DEF Finished, Partial
<1>3. KeptApart
  BY DEF Calm, LoadersSound
<1>4. \A object \in kept' :
          /\ IsObject(object)
          /\ \A i \in Numbers(object) : i <= Last'
          /\ \A other \in kept' : Numbers(object) \cap Numbers(other) # {} => object = other
  BY <1>1, <1>3 DEF KeptApart
<1> QED
  BY <1>1, <1>2, <1>4 DEF KeptApart

\* The parts of the invariant, at a step that reaches no blue screen.
LEMMA SoundAgain ==
    ASSUME doomed' = {}, LoadersAt', KeptApart', NoneStray', open' = Descriptors'
    PROVE  LoadersSound'
  BY DEF LoadersSound

\* The rows that are allocated, one more.
LEMMA OneMoreRow ==
    ASSUME NEW i, NEW r \in Nat
    PROVE  /\ R!Rows(i, r + 1) = R!Rows(i, r) \cup {<<"row", i, r + 1>>}
           /\ R!Rows(i, 0) = {}
<1>1. 1..(r + 1) = (1..r) \cup {r + 1} /\ 1..0 = {}
  OBVIOUS
<1> QED
  BY <1>1 DEF R!Rows

\* The calls of load_image, each of which may fail.
LEMMA ReadHeaderSound ==
    ASSUME Calm, R!ReadHeader \/ R!NewImage \/ R!NewData
    PROVE  LoadersSound'
<1> USE DEF Calm
<1>1. /\ pc \in {"open_image", "header", "struct", "data"}
      /\ pc' \in {"header", "struct", "data", "no_image", "err_img", "err_buf", "rows"}
      /\ UNCHANGED <<caller, id, anim, kept, doomed, lost, row>>
  BY DEF R!ReadHeader, R!NewImage, R!NewData, R!Open, R!Try, R!Allocate, R!At, R!Goto, R!rest
<1>2. (Loading' <=> Loading) /\ (pc' = "idle" <=> pc = "idle")
  BY <1>1 DEF Loading, ImageSteps
<1>3. /\ Finished' = Finished /\ Partial' = Partial
      /\ KeptApart'
  BY <1>1, <1>2, SameBase
<1>4. LoadersAt /\ NoneStray /\ open = Descriptors /\ doomed = {} /\ pc # "blue_screen"
  BY DEF LoadersSound
<1>5. row = 0 /\ Height \in Nat
  BY <1>1, <1>4, LoadersAssumption DEF LoadersAt
<1>6. LoadersAt'
  <2>1. /\ caller' = caller /\ anim' = anim /\ id' = id /\ row' = 0
        /\ pc' \in ImageSteps /\ pc \in ImageSteps
        /\ pc # "names" /\ pc' # "names" /\ 0 \in 0..Height
    BY <1>1, <1>5 DEF ImageSteps
  <2>2. Numbers(anim)' = Numbers(anim)
    BY <2>1 DEF Numbers
  <2> QED
    BY <1>1, <1>2, <1>4, <2>1, <2>2 DEF LoadersAt
<1>7. live = Finished \cup lost \cup Partial \cup Current
  BY <1>1, <1>4 DEF NoneStray
<1>8. open' = Descriptors' /\ live' = Finished \cup lost \cup Partial \cup Current'
  <2>1. CASE R!Open("open_image", "header", "no_image")
    BY <1>4, <1>7, <2>1 DEF R!Open, R!At, R!Goto, R!rest, Current, Descriptors
  <2>2. CASE R!Try("header", "struct", "err_img")
    BY <1>4, <1>7, <2>2 DEF R!Try, R!At, R!Goto, R!rest, Current, Descriptors
  <2>3. CASE R!NewImage
    BY <1>4, <1>7, <2>3 DEF R!NewImage, R!Allocate, R!At, R!Goto, R!rest, Current, Descriptors
  <2>4. CASE R!NewData
    <3>1. R!Rows(id, 0) = {}
      BY OneMoreRow
    <3>2. CASE pc' = "rows"
      <4>1. /\ Current = {<<"image", id>>} /\ Current' = {<<"image", id>>, <<"data", id>>}
            /\ live' = live \cup {<<"data", id>>}
        BY <1>1, <1>5, <2>4, <3>1, <3>2
           DEF R!NewData, R!Allocate, R!At, R!Goto, Current, R!Image
      <4>2. open' = Descriptors'
        BY <1>1, <1>4, <2>4, <3>2 DEF R!NewData, R!Allocate, R!At, R!Goto, Descriptors
      <4> QED
        BY <1>7, <4>1, <4>2
    <3>3. CASE pc' # "rows"
      BY <1>4, <1>7, <2>4, <3>3 DEF R!NewData, R!Allocate, R!At, R!Goto, R!rest, Current, Descriptors
    <3> QED
      BY <3>2, <3>3
  <2> QED
    BY <2>1, <2>2, <2>3, <2>4 DEF R!ReadHeader
<1>9. NoneStray'
  BY <1>1, <1>3, <1>4, <1>8 DEF NoneStray
<1> QED
  BY <1>1, <1>3, <1>4, <1>6, <1>8, <1>9, SoundAgain

\* A step within load_image.
LEMMA WithinImage ==
    ASSUME Calm, UNCHANGED <<caller, id, anim, kept>>, pc \in ImageSteps, pc' \in ImageSteps,
           pc' \notin {"open_image", "header", "struct", "data"},
           pc' = "rows" => row' \in 0..Height
    PROVE  LoadersAt' /\ KeptApart' /\ Finished' = Finished /\ Partial' = Partial
<1>1. (Loading' <=> Loading) /\ (pc' = "idle" <=> pc = "idle")
  BY DEF Loading, ImageSteps
<1>2. KeptApart' /\ Finished' = Finished /\ Partial' = Partial
  BY <1>1, SameBase
<1>3. LoadersAt
  BY DEF Calm, LoadersSound
<1>4. Numbers(anim)' = Numbers(anim)
  BY DEF Numbers
<1>5. pc # "names" /\ pc' # "names" /\ pc \notin {"idle", "anim", "imgs", "strdup", "no_imgs", "no_paths"}
      /\ pc' \notin {"anim", "imgs", "strdup", "no_imgs", "no_paths"}
  BY DEF ImageSteps
<1>6. LoadersAt'
  BY <1>1, <1>3, <1>4, <1>5 DEF LoadersAt
<1> QED
  BY <1>2, <1>6

\* The loops over the rows.
LEMMA RowsSound ==
    ASSUME Calm, R!NewRows \/ R!ReadRows
    PROVE  LoadersSound'
<1> USE DEF Calm
<1>1. /\ pc \in {"rows", "seek", "pixels"} /\ pc' \in {"rows", "seek", "pixels", "image", "err"}
      /\ UNCHANGED <<caller, id, anim, kept, doomed, lost, open>>
  BY DEF R!NewRows, R!ReadRows, R!Loop, R!Try, R!At, R!Goto, R!rest
<1>2. LoadersAt /\ NoneStray /\ open = Descriptors /\ doomed = {} /\ Height \in Nat
  BY LoadersAssumption DEF LoadersSound
<1>3. open' = Descriptors'
  BY <1>1, <1>2 DEF Descriptors
<1>4. pc' = "rows" => row' \in 0..Height
  <2>1. CASE R!NewRows
    BY <1>2, <2>1 DEF R!NewRows, R!Loop, R!At, R!Goto, LoadersAt
  <2>2. CASE R!ReadRows
    BY <2>2 DEF R!ReadRows, R!Loop, R!Try, R!At, R!Goto
  <2> QED
    BY <2>1, <2>2
<1>5. LoadersAt' /\ KeptApart' /\ Finished' = Finished /\ Partial' = Partial
  BY <1>1, <1>4, WithinImage DEF ImageSteps
<1>6. live = Finished \cup lost \cup Partial \cup Current
  BY <1>1, <1>2 DEF NoneStray
<1>7. NoneStray'
  <2>1. CASE R!NewRows
    <3>1. row \in 0..Height /\ pc = "rows" /\ Current = R!Image(id) \cup R!Rows(id, row)
      BY <1>2, <2>1 DEF R!NewRows, R!Loop, R!At, LoadersAt, Current
    <3>2. CASE pc' = "rows"
      <4>1. live' = live \cup {<<"row", id, row + 1>>} /\ row' = row + 1
        BY <2>1, <3>2 DEF R!NewRows, R!Loop, R!Goto
      <4>2. Current' = R!Image(id) \cup R!Rows(id, row + 1)
        BY <1>1, <3>2, <4>1 DEF Current
      <4>3. R!Rows(id, row + 1) = R!Rows(id, row) \cup {<<"row", id, row + 1>>}
        BY <3>1, OneMoreRow
      <4>4. live' = Finished \cup lost \cup Partial \cup Current'
        BY <1>6, <3>1, <4>1, <4>2, <4>3
      <4> QED
        BY <1>1, <1>2, <1>5, <3>2, <4>4 DEF NoneStray
    <3>3. CASE pc' = "err"
      <4>1. live' = live
        BY <2>1, <3>1, <3>3 DEF R!NewRows, R!Loop, R!Goto
      <4>2. R!Rows(id, row) \subseteq R!Rows(id, Height)
        BY <1>2, <3>1 DEF R!Rows
      <4>3. R!Rows(id, row) \in SUBSET R!Rows(id, Height)
        BY <4>2
      <4>4. live' = Finished \cup lost \cup Partial \cup R!Image(id) \cup R!Rows(id, row)
        BY <1>6, <3>1, <4>1
      <4>5. \E done \in SUBSET R!Rows(id, Height) :
                live' = Finished \cup lost \cup Partial \cup R!Image(id) \cup done
        BY <4>3, <4>4
      <4> QED
        BY <1>1, <1>2, <1>5, <3>3, <4>5 DEF NoneStray
    <3>4. CASE pc' = "seek"
      <4>1. live' = live /\ row = Height
        BY <2>1, <3>1, <3>4 DEF R!NewRows, R!Loop, R!Goto
      <4>2. Current' = R!Image(id) \cup R!Rows(id, Height)
        BY <1>1, <3>4 DEF Current
      <4>3. live' = Finished \cup lost \cup Partial \cup Current'
        BY <1>6, <3>1, <4>1, <4>2
      <4> QED
        BY <1>1, <1>2, <1>5, <3>4, <4>3 DEF NoneStray
    <3> QED
      BY <2>1, <3>1, <3>2, <3>3, <3>4 DEF R!NewRows, R!Loop, R!Goto
  <2>2. CASE R!ReadRows
    <3>1. /\ pc \in {"seek", "pixels"} /\ pc' \in {"pixels", "image", "err"} /\ live' = live
      BY <2>2 DEF R!ReadRows, R!Loop, R!Try, R!At, R!Goto
    <3>2. Current = R!Image(id) \cup R!Rows(id, Height)
      BY <3>1 DEF Current
    <3>3. CASE pc' = "err"
      <4>1. live' = Finished \cup lost \cup Partial \cup R!Image(id) \cup R!Rows(id, Height)
        BY <1>6, <3>1, <3>2
      <4>2. \E done \in SUBSET R!Rows(id, Height) :
                live' = Finished \cup lost \cup Partial \cup R!Image(id) \cup done
        BY <4>1
      <4> QED
        BY <1>1, <1>2, <1>5, <3>3, <4>2 DEF NoneStray
    <3>4. CASE pc' # "err"
      <4>1. Current' = R!Image(id) \cup R!Rows(id, Height)
        BY <1>1, <3>1, <3>4 DEF Current
      <4>2. live' = Finished \cup lost \cup Partial \cup Current'
        BY <1>6, <3>1, <3>2, <4>1
      <4> QED
        BY <1>1, <1>2, <1>5, <3>4, <4>2 DEF NoneStray
    <3> QED
      BY <3>3, <3>4
  <2> QED
    BY <2>1, <2>2
<1> QED
  BY <1>1, <1>2, <1>3, <1>5, <1>7, SoundAgain

\* The ways out of load_image give back what it had.
LEMMA ErrSound ==
    ASSUME Calm, R!Err \/ R!ErrBuf
    PROVE  LoadersSound'
<1> USE DEF Calm
<1>1. /\ pc \in {"err", "err_buf"} /\ pc' = "err_img"
      /\ UNCHANGED <<caller, id, anim, kept, lost, open>>
  BY DEF R!Err, R!ErrBuf, R!At, R!Goto
<1>2. LoadersAt /\ KeptApart /\ NoneStray /\ open = Descriptors /\ doomed = {}
  BY DEF LoadersSound
<1>3. open' = Descriptors'
  BY <1>1, <1>2 DEF Descriptors
<1>4. LoadersAt' /\ KeptApart' /\ Finished' = Finished /\ Partial' = Partial
  BY <1>1, WithinImage DEF ImageSteps
<1> DEFINE old == Finished \cup lost \cup Partial
<1>5. PICK mine \in SUBSET (R!Image(id) \cup R!Rows(id, Height)) :
          live = old \cup mine /\ live' = live \ mine /\ doomed' = doomed \cup (mine \ live)
  <2>1. CASE R!Err
    <3>1. PICK done \in SUBSET R!Rows(id, Height) : live = old \cup R!Image(id) \cup done
      BY <1>2, <2>1 DEF R!Err, R!At, NoneStray
    <3>2. PICK blocks : blocks = R!Image(id) \cup (R!Rows(id, Height) \cap live)
      OBVIOUS
    <3>3. live' = live \ blocks /\ doomed' = doomed \cup (blocks \ live)
      BY <2>1, <3>2 DEF R!Err, R!Free
    <3>4. live = old \cup blocks
      BY <3>1, <3>2
    <3> QED
      BY <3>2, <3>3, <3>4
  <2>2. CASE R!ErrBuf
    <3>1. pc = "err_buf" /\ live' = live \ {<<"image", id>>}
          /\ doomed' = doomed \cup ({<<"image", id>>} \ live)
      BY <2>2 DEF R!ErrBuf, R!At, R!Free
    <3>2. live = old \cup {<<"image", id>>}
      BY <1>2, <3>1 DEF NoneStray, Current
    <3>3. {<<"image", id>>} \in SUBSET (R!Image(id) \cup R!Rows(id, Height))
      BY DEF R!Image
    <3> QED
      BY <3>1, <3>2, <3>3
  <2> QED
    BY <2>1, <2>2
<1>6. \A b \in old : b \notin mine
  <2> SUFFICES ASSUME NEW b \in old, b \in mine
               PROVE  FALSE
    OBVIOUS
  <2>1. b[2] = id /\ b[1] # "imgs"
    BY <1>5, ImageTags
  <2>2. b[2] # id
    BY <1>1, <1>2, <2>1, Fresh
  <2> QED
    BY <2>1, <2>2
<1>7. live' = old /\ doomed' = {}
  BY <1>2, <1>5, <1>6
<1>8. Current' = {}
  BY <1>1 DEF Current
<1>9. NoneStray'
  BY <1>1, <1>2, <1>4, <1>7, <1>8 DEF NoneStray
<1> QED
  BY <1>3, <1>4, <1>7, <1>9, SoundAgain

\* The descriptor of an image is closed, whether it is loaded or not.
LEMMA CloseImageSound ==
    ASSUME Calm, R!CloseImage
    PROVE  LoadersSound'
<1> USE DEF Calm
<1>1. /\ pc \in {"err_img", "image"} /\ pc' = (IF pc = "image" THEN "loaded" ELSE "no_image")
      /\ open' = open \ {id}
      /\ UNCHANGED <<caller, id, anim, kept, doomed, lost, row, live>>
  BY DEF R!CloseImage, R!At, R!Goto, R!rest
<1>2. NoneStray /\ open = Descriptors /\ doomed = {}
  BY DEF LoadersSound
<1>3. open' = Descriptors'
  BY <1>1, <1>2 DEF Descriptors
<1>4. LoadersAt' /\ KeptApart' /\ Finished' = Finished /\ Partial' = Partial
  BY <1>1, WithinImage DEF ImageSteps
<1>5. Current' = Current
  BY <1>1 DEF Current
<1>6. NoneStray'
  BY <1>1, <1>2, <1>4, <1>5 DEF NoneStray
<1> QED
  BY <1>1, <1>2, <1>3, <1>4, <1>6, SoundAgain

\* Numbers are numbers.
LEMMA NumbersNat ==
    ASSUME NEW object, IsObject(object)
    PROVE  Numbers(object) \subseteq Nat
<1>1. object.imgs \in Seq(Nat) /\ object.id \in Nat
  BY DEF IsObject
<1>2. \A k \in DOMAIN object.imgs : object.imgs[k] \in Nat
  BY <1>1
<1> QED
  BY <1>1, <1>2 DEF Numbers

\* What the program has stays apart while later objects begin.
LEMMA KeptLater ==
    ASSUME KeptApart, kept' = kept, Last \in Int, Last' \in Int, Last <= Last'
    PROVE  KeptApart' /\ Finished' = Finished
<1>1. Finished' = Finished
  BY DEF Finished
<1>2. \A object \in kept' :
          /\ IsObject(object)
          /\ \A i \in Numbers(object) : i <= Last'
          /\ \A other \in kept' : Numbers(object) \cap Numbers(other) # {} => object = other
  <2> SUFFICES ASSUME NEW object \in kept
               PROVE  /\ IsObject(object)
                      /\ \A i \in Numbers(object) : i <= Last'
                      /\ \A other \in kept : Numbers(object) \cap Numbers(other) # {} => object = other
    OBVIOUS
  <2>1. /\ IsObject(object)
        /\ \A i \in Numbers(object) : i <= Last
        /\ \A other \in kept : Numbers(object) \cap Numbers(other) # {} => object = other
    BY DEF KeptApart
  <2>2. ASSUME NEW i \in Numbers(object)
        PROVE  i <= Last'
    <3>1. i \in Int /\ i <= Last
      BY <2>1, NumbersNat
    <3> QED
      BY <3>1
  <2> QED
    BY <2>1, <2>2
<1> QED
  BY <1>1, <1>2 DEF KeptApart

\* The program is given one object more, with later numbers.
LEMMA KeptMore ==
    ASSUME KeptApart, NEW new, kept' = kept \cup {new}, IsObject(new),
           Last \in Int, Last' \in Int, Last <= Last',
           \A i \in Numbers(new) : Last < i /\ i <= Last'
    PROVE  KeptApart' /\ Finished' = Finished \cup R!Belongs(new)
<1>1. Finished' = Finished \cup R!Belongs(new)
  BY DEF Finished
<1>2. ASSUME NEW object \in kept
      PROVE  /\ IsObject(object)
             /\ \A i \in Numbers(object) : i <= Last'
             /\ \A other \in kept : Numbers(object) \cap Numbers(other) # {} => object = other
             /\ Numbers(object) \cap Numbers(new) = {}
  <2>1. /\ IsObject(object)
        /\ \A i \in Numbers(object) : i <= Last
        /\ \A other \in kept : Numbers(object) \cap Numbers(other) # {} => object = other
    BY DEF KeptApart
  <2>2. ASSUME NEW i \in Numbers(object)
        PROVE  i <= Last' /\ i \notin Numbers(new)
    <3>1. i \in Int /\ i <= Last
      BY <2>1, NumbersNat
    <3>2. i \in Numbers(new) => Last < i
      OBVIOUS
    <3> QED
      BY <3>1, <3>2
  <2> QED
    BY <2>1, <2>2
<1>3. \A object \in kept' :
          /\ IsObject(object)
          /\ \A i \in Numbers(object) : i <= Last'
          /\ \A other \in kept' : Numbers(object) \cap Numbers(other) # {} => object = other
  <2> SUFFICES ASSUME NEW object \in kept'
               PROVE  /\ IsObject(object)
                      /\ \A i \in Numbers(object) : i <= Last'
                      /\ \A other \in kept' : Numbers(object) \cap Numbers(other) # {} => object = other
    OBVIOUS
  <2>1. CASE object \in kept
    BY <1>2, <2>1
  <2>2. CASE object = new
    <3>1. \A other \in kept : Numbers(object) \cap Numbers(other) = {}
      BY <1>2, <2>2
    <3> QED
      BY <2>2, <3>1
  <2> QED
    BY <2>1, <2>2
<1> QED
  BY <1>1, <1>3 DEF KeptApart

\* A call begins.
LEMMA BeginSound ==
    ASSUME Calm, R!load_image \/ R!load_anim \/ R!load_sound
    PROVE  LoadersSound'
<1> USE DEF Calm
<1>1. /\ pc = "idle" /\ id' = id + 1 /\ row' = 0
      /\ UNCHANGED <<live, open, kept, doomed, lost>>
      /\ \/ pc' = "open_image" /\ caller' = "program"
         \/ pc' = "anim" /\ caller' = "load_anim" /\ anim' = [id |-> id', imgs |-> <<>>]
         \/ pc' = "open_sound"
  BY DEF R!load_image, R!load_anim, R!load_sound, R!Begin, R!At, R!Goto
<1>2. LoadersAt /\ KeptApart /\ NoneStray /\ open = Descriptors /\ doomed = {}
  BY <1>1 DEF LoadersSound
<1>3. ~Loading /\ ~Loading'
  BY <1>1 DEF Loading, ImageSteps
<1>4. id \in Nat /\ Last = id /\ Last' = id' - 1
  BY <1>1, <1>2, <1>3 DEF Last, LoadersAt
<1>5. KeptApart' /\ Finished' = Finished
  BY <1>1, <1>2, <1>4, KeptLater
<1>6. Partial = {} /\ Partial' = {} /\ Current = {} /\ Current' = {}
  BY <1>1, <1>3 DEF Partial, Current
<1>7. NoneStray'
  BY <1>1, <1>2, <1>5, <1>6 DEF NoneStray
<1>8. LoadersAt'
  BY <1>1, <1>2, <1>3, <1>4 DEF LoadersAt, ImageSteps
<1>9. open' = Descriptors'
  BY <1>1, <1>2 DEF Descriptors
<1> QED
  BY <1>1, <1>2, <1>5, <1>7, <1>8, <1>9, SoundAgain

\* The arrays of an animation are allocated; the failure of the last two loses at
\* most the array of images.
LEMMA NewAnimSound ==
    ASSUME Calm, R!NewAnim
    PROVE  LoadersSound'
<1> USE DEF Calm
<1>1. /\ pc \in {"anim", "imgs", "strdup"}
      /\ pc' \in {"imgs", "strdup", "names", "idle", "no_imgs", "no_paths"}
      /\ UNCHANGED <<caller, id, anim, kept, doomed, lost, row, open>>
      /\ pc = "anim" => \/ pc' = "imgs" /\ live' = live \cup {<<"anim", id>>}
                        \/ pc' = "idle" /\ live' = live
      /\ pc = "imgs" => \/ pc' = "strdup" /\ live' = live \cup {<<"imgs", id>>}
                        \/ pc' = "no_imgs" /\ live' = live
      /\ pc = "strdup" => \/ pc' = "names" /\ live' = live \cup {<<"paths", id>>}
                          \/ pc' = "no_paths" /\ live' = live
  BY DEF R!NewAnim, R!Allocate, R!At, R!Goto, R!rest
<1>2. LoadersAt /\ KeptApart /\ NoneStray /\ open = Descriptors /\ doomed = {}
  BY <1>1 DEF LoadersSound
<1>3. /\ anim = [id |-> id, imgs |-> <<>>] /\ caller = "load_anim" /\ row = 0
      /\ id \in Nat /\ id > 0
  BY <1>1, <1>2 DEF LoadersAt
<1>4. ~Loading /\ (Loading' <=> pc' = "names")
  BY <1>1 DEF Loading, ImageSteps
<1>5. Last = id - 1 /\ Last' = (IF pc' = "idle" THEN id ELSE id - 1)
  <2>1. anim'.id = id
    BY <1>1, <1>3
  <2> QED
    BY <1>1, <1>4, <2>1 DEF Last
<1>6. KeptApart' /\ Finished' = Finished
  BY <1>1, <1>2, <1>3, <1>5, KeptLater
<1>7. live = Finished \cup lost \cup Current /\ Partial = {}
  BY <1>1, <1>2, <1>4 DEF NoneStray, Partial
<1>8. pc' = "names" => Partial' = {<<"anim", id>>, <<"imgs", id>>, <<"paths", id>>}
  <2>1. anim'.id = id /\ DOMAIN anim'.imgs = {}
    BY <1>1, <1>3
  <2>2. R!OfImages(anim)' = {} /\ R!Anim(anim)' = {<<"anim", id>>, <<"imgs", id>>}
    BY <2>1 DEF R!OfImages, R!Anim
  <2> QED
    BY <1>4, <2>1, <2>2 DEF Partial
<1>9. pc' # "names" => Partial' = {}
  BY <1>4 DEF Partial
<1>10. live' = Finished \cup lost \cup Partial' \cup Current'
  <2>1. CASE pc = "anim"
    BY <1>1, <1>7, <1>9, <2>1 DEF Current
  <2>2. CASE pc = "imgs"
    BY <1>1, <1>7, <1>9, <2>2 DEF Current
  <2>3. CASE pc = "strdup"
    <3>1. Current = {<<"anim", id>>, <<"imgs", id>>}
      BY <2>3 DEF Current
    <3>2. CASE pc' = "names"
      BY <1>1, <1>7, <1>8, <2>3, <3>1, <3>2 DEF Current
    <3>3. CASE pc' = "no_paths"
      BY <1>1, <1>7, <1>9, <2>3, <3>1, <3>3 DEF Current
    <3> QED
      BY <1>1, <2>3, <3>2, <3>3
  <2> QED
    BY <1>1, <2>1, <2>2, <2>3
<1>11. NoneStray'
  BY <1>1, <1>2, <1>6, <1>10 DEF NoneStray
<1>12. LoadersAt'
  <2>1. Loading' => /\ DOMAIN anim' = {"id", "imgs"} /\ anim'.id \in Nat /\ anim'.imgs \in Seq(Nat)
                    /\ \A k \in DOMAIN anim'.imgs : anim'.imgs[k] > anim'.id
                    /\ Numbers(anim)' = {id} /\ pc' = "names"
    BY <1>1, <1>3, <1>4 DEF Numbers
  <2>2. pc' \notin ImageSteps
    BY <1>1 DEF ImageSteps
  <2>3. /\ anim' = [id |-> id', imgs |-> <<>>] /\ caller' = "load_anim" /\ row' = 0
        /\ id' \in Nat /\ id' > 0 /\ id' = id
    BY <1>1, <1>3
  <2>4. Loading' => \A i \in Numbers(anim)' : i <= id' /\ (pc' # "names" => i < id')
    BY <2>1, <2>3
  <2> QED
    BY <1>1, <2>1, <2>2, <2>3, <2>4 DEF LoadersAt
<1>13. open' = Descriptors'
  BY <1>1, <1>2 DEF Descriptors
<1> QED
  BY <1>1, <1>2, <1>6, <1>11, <1>12, <1>13, SoundAgain

\* An image is given to the program, or to the animation that it is part of.
LEMMA ImageReturnedSound ==
    ASSUME Calm, R!ImageReturned
    PROVE  LoadersSound'
<1> USE DEF Calm
<1>1. /\ pc \in {"loaded", "no_image"} /\ row' = 0
      /\ UNCHANGED <<caller, id, live, open, doomed, lost>>
  BY DEF R!ImageReturned
<1>2. LoadersAt /\ KeptApart /\ NoneStray /\ open = Descriptors /\ doomed = {}
  BY <1>1 DEF LoadersSound
<1>3. /\ caller \in {"program", "load_anim"} /\ id \in Nat /\ id > 0
      /\ pc \in ImageSteps
      /\ Loading <=> caller = "load_anim"
  BY <1>1, <1>2 DEF LoadersAt, Loading, ImageSteps
<1>4. live = Finished \cup lost \cup Partial \cup Current
  BY <1>1, <1>2 DEF NoneStray
<1>5. /\ pc = "loaded" => Current = R!Image(id) \cup R!Rows(id, Height)
      /\ pc = "no_image" => Current = {}
  BY <1>1 DEF Current
<1>6. CASE caller = "program"
  <2>1. /\ pc' = "idle"
        /\ pc = "loaded" => kept' = kept \cup {[id |-> id, imgs |-> <<id>>]}
        /\ pc = "no_image" => kept' = kept
    BY <1>1, <1>6 DEF R!ImageReturned, R!At, R!Goto
  <2>2. ~Loading /\ ~Loading' /\ Partial = {} /\ Partial' = {} /\ Current' = {}
    BY <1>3, <1>6, <2>1 DEF Loading, ImageSteps, Partial, Current
  <2>3. Last = id - 1 /\ Last' = id
    BY <1>1, <2>1, <2>2 DEF Last
  <2>4. KeptApart' /\ Finished' = Finished \cup Current
    <3>1. CASE pc = "loaded"
      <4>1. PICK new : new = [id |-> id, imgs |-> <<id>>]
        OBVIOUS
      <4>2. new.id = id /\ new.imgs = <<id>> /\ DOMAIN new.imgs = {1} /\ new.imgs[1] = id
            /\ new.imgs \in Seq(Nat) /\ new.imgs # <<>>
        BY <1>3, <4>1
      <4>3. IsObject(new) /\ Numbers(new) = {id}
        BY <1>3, <4>2 DEF IsObject, Numbers
      <4>4. R!OfImages(new) = R!Image(id) \cup R!Rows(id, Height)
        BY <4>2 DEF R!OfImages
      <4>5. R!Belongs(new) = R!Image(id) \cup R!Rows(id, Height)
        BY <4>2, <4>4 DEF R!Belongs
      <4>6. KeptApart' /\ Finished' = Finished \cup R!Belongs(new)
        BY <1>2, <1>3, <2>1, <2>3, <3>1, <4>1, <4>3, KeptMore
      <4> QED
        BY <1>5, <3>1, <4>5, <4>6
    <3>2. CASE pc = "no_image"
      BY <1>2, <1>3, <1>5, <2>1, <2>3, <3>2, KeptLater
    <3> QED
      BY <1>1, <3>1, <3>2
  <2>5. NoneStray'
    BY <1>1, <1>2, <1>4, <2>1, <2>2, <2>4 DEF NoneStray
  <2>6. LoadersAt'
    BY <1>1, <1>3, <2>1, <2>2 DEF LoadersAt, ImageSteps
  <2>7. open' = Descriptors'
    BY <1>1, <1>2, <2>1 DEF Descriptors
  <2> QED
    BY <1>1, <1>2, <2>4, <2>5, <2>6, <2>7, SoundAgain
<1>7. CASE caller = "load_anim" /\ pc = "loaded"
  <2>1. /\ pc' = "names" /\ kept' = kept
        /\ anim' = [anim EXCEPT !.imgs = @ \o <<id>>]
    BY <1>7 DEF R!ImageReturned, R!At, R!Goto
  <2>2. Loading /\ Loading'
    BY <1>3, <1>7, <2>1 DEF Loading
  <2>3. /\ DOMAIN anim = {"id", "imgs"} /\ anim.id \in Nat /\ anim.imgs \in Seq(Nat)
        /\ \A k \in DOMAIN anim.imgs : anim.imgs[k] > anim.id
        /\ \A i \in Numbers(anim) : i < id
    BY <1>1, <1>2, <2>2 DEF LoadersAt
  <2>4. /\ DOMAIN anim' = {"id", "imgs"} /\ anim'.id = anim.id
        /\ anim'.imgs = anim.imgs \o <<id>>
    BY <2>1, <2>3
  <2>5. PICK m \in Nat : m = Len(anim.imgs)
    BY <2>3
  <2>6. /\ anim'.imgs \in Seq(Nat)
        /\ DOMAIN anim.imgs = 1..m /\ DOMAIN anim'.imgs = 1..(m + 1)
        /\ \A k \in 1..m : anim'.imgs[k] = anim.imgs[k]
        /\ anim'.imgs[m + 1] = id
    BY <1>3, <2>3, <2>4, <2>5
  <2>7. 1..(m + 1) = (1..m) \cup {m + 1}
    BY <2>5
  <2>8. Numbers(anim)' = Numbers(anim) \cup {id}
    <3>1. {anim'.imgs[k] : k \in DOMAIN anim'.imgs} = {anim.imgs[k] : k \in DOMAIN anim.imgs} \cup {id}
      BY <2>6, <2>7
    <3> QED
      BY <2>4, <3>1 DEF Numbers
  <2>9. anim.id < id
    BY <2>3 DEF Numbers
  <2>10. /\ \A k \in DOMAIN anim'.imgs : anim'.imgs[k] > anim'.id
         /\ \A i \in Numbers(anim)' : i <= id
    <3>1. \A k \in DOMAIN anim'.imgs : anim'.imgs[k] > anim'.id
      <4> SUFFICES ASSUME NEW k \in 1..(m + 1)
                   PROVE  anim'.imgs[k] > anim.id
        BY <2>4, <2>6
      <4> QED
        BY <1>3, <2>3, <2>6, <2>7, <2>9
    <3>2. \A i \in Numbers(anim) : i <= id
      <4> SUFFICES ASSUME NEW i \in Numbers(anim)
                   PROVE  i <= id
        OBVIOUS
      <4>1. i \in Nat
        BY <2>3 DEF Numbers
      <4> QED
        BY <1>3, <2>3, <4>1
    <3> QED
      BY <1>3, <2>8, <3>1, <3>2
  <2>11. LoadersAt'
    <3>1. /\ pc' \notin ImageSteps /\ anim'.id \in Nat /\ anim'.imgs \in Seq(Nat) /\ id' = id
      BY <1>1, <2>1, <2>3, <2>4, <2>6 DEF ImageSteps
    <3> QED
      BY <1>1, <1>3, <1>7, <2>1, <2>4, <2>10, <3>1 DEF LoadersAt
  <2>12. R!OfImages(anim)' = R!OfImages(anim) \cup R!Image(id) \cup R!Rows(id, Height)
    BY <2>6, <2>7 DEF R!OfImages
  <2>13. Partial' = Partial \cup Current /\ Current' = {}
    <3>1. R!Anim(anim)' = R!Anim(anim)
      BY <2>4 DEF R!Anim
    <3> QED
      BY <1>5, <1>7, <2>1, <2>2, <2>4, <2>12, <3>1 DEF Partial, Current
  <2>14. Last = anim.id - 1 /\ Last' = anim.id - 1
    BY <2>2, <2>4 DEF Last
  <2>15. KeptApart' /\ Finished' = Finished
    BY <1>2, <2>1, <2>3, <2>14, KeptLater
  <2>16. NoneStray'
    BY <1>1, <1>2, <1>4, <2>1, <2>13, <2>15 DEF NoneStray
  <2>17. open' = Descriptors'
    BY <1>1, <1>2, <2>1 DEF Descriptors
  <2> QED
    BY <1>1, <1>2, <2>11, <2>15, <2>16, <2>17, SoundAgain
<1>8. CASE caller = "load_anim" /\ pc = "no_image"
  <2>1. pc' = "blue_screen"
    BY <1>8 DEF R!ImageReturned, R!At, R!Goto
  <2> QED
    BY <1>1, <1>2, <2>1 DEF LoadersSound
<1> QED
  BY <1>1, <1>3, <1>6, <1>7, <1>8

\* The end of an animation that has no array for its images, or no copy of its names.
LEMMA NoImgsSound ==
    ASSUME Calm, R!NoImgs
    PROVE  LoadersSound'
<1> USE DEF Calm
<1>1. /\ pc \in {"no_imgs", "no_paths"} /\ pc' = "idle"
      /\ UNCHANGED <<caller, id, anim, row, open, kept>>
      /\ live' = live \ {<<"anim", id>>} /\ doomed' = doomed \cup ({<<"anim", id>>} \ live)
      /\ lost' = lost \cup ({<<"imgs", id>>} \cap live)
  BY DEF R!NoImgs, R!Free, R!Goto
<1>2. LoadersAt /\ KeptApart /\ NoneStray /\ open = Descriptors /\ doomed = {}
  BY <1>1 DEF LoadersSound
<1>3. ~Loading /\ ~Loading' /\ Partial = {} /\ Partial' = {} /\ Current' = {}
  BY <1>1 DEF Loading, ImageSteps, Partial, Current
<1>4. id \in Nat /\ id > 0 /\ Last = id - 1 /\ Last' = id
  BY <1>1, <1>2, <1>3 DEF Last, LoadersAt
<1>5. KeptApart' /\ Finished' = Finished
  BY <1>1, <1>2, <1>4, KeptLater
<1>6. /\ live = Finished \cup lost \cup Current
      /\ <<"anim", id>> \in Current /\ Current \subseteq {<<"anim", id>>, <<"imgs", id>>}
  BY <1>1, <1>2, <1>3 DEF NoneStray, Current
<1>7. <<"anim", id>> \notin Finished \cup lost
  <2>1. PICK b : b = <<"anim", id>>
    OBVIOUS
  <2>2. b[1] # "imgs" /\ b[2] = id
    BY <2>1
  <2>3. b \in Finished \cup lost => b[2] # id
    BY <1>1, <1>2, <2>2, Fresh
  <2> QED
    BY <2>1, <2>2, <2>3
<1>8. live' = Finished \cup lost' /\ doomed' = {}
  BY <1>1, <1>2, <1>6, <1>7
<1>9. \A block \in lost' : block[1] = "imgs"
  <2>1. \A block \in {<<"imgs", id>>} : block[1] = "imgs"
    OBVIOUS
  <2> QED
    BY <1>1, <1>2, <2>1 DEF NoneStray
<1>10. NoneStray'
  BY <1>1, <1>3, <1>5, <1>8, <1>9 DEF NoneStray
<1>11. LoadersAt'
  BY <1>1, <1>3, <1>4 DEF LoadersAt, ImageSteps
<1>12. open' = Descriptors'
  BY <1>1, <1>2 DEF Descriptors
<1> QED
  BY <1>5, <1>8, <1>10, <1>11, <1>12, SoundAgain

\* The next image of an animation, or its end.
LEMMA NextNameSound ==
    ASSUME Calm, R!NextName
    PROVE  LoadersSound'
<1> USE DEF Calm
<1>1. pc = "names" /\ UNCHANGED <<caller, anim, row, open, lost>>
  BY DEF R!NextName, R!At
<1>2. LoadersAt /\ KeptApart /\ NoneStray /\ open = Descriptors /\ doomed = {}
  BY <1>1 DEF LoadersSound
<1>3. Loading /\ Current = {} /\ open = {}
  BY <1>1, <1>2 DEF Loading, Current, Descriptors
<1>4. /\ DOMAIN anim = {"id", "imgs"} /\ anim.id \in Nat /\ anim.imgs \in Seq(Nat)
      /\ \A k \in DOMAIN anim.imgs : anim.imgs[k] > anim.id
      /\ \A i \in Numbers(anim) : i <= id
      /\ id \in Nat /\ id > 0 /\ row = 0
  BY <1>1, <1>2, <1>3 DEF LoadersAt
<1>5. \A i \in Numbers(anim) : i \in Nat
  BY <1>4 DEF Numbers
<1>6. live = Finished \cup lost \cup Partial
  BY <1>1, <1>2, <1>3 DEF NoneStray
<1>7. CASE Len(anim.imgs) < Names
  <2>1. pc' = "open_image" /\ id' = id + 1 /\ UNCHANGED <<live, doomed, kept>>
    BY <1>7 DEF R!NextName, R!Goto
  <2>2. CASE caller = "load_anim"
    <3>1. Loading' /\ pc' # "names" /\ Current' = {}
      BY <1>1, <2>1, <2>2 DEF Loading, ImageSteps, Current
    <3>2. Numbers(anim)' = Numbers(anim) /\ \A i \in Numbers(anim) : i <= id' /\ i < id'
      <4>1. \A i \in Numbers(anim) : i <= id + 1 /\ i < id + 1
        BY <1>4, <1>5
      <4> QED
        BY <1>1, <2>1, <4>1 DEF Numbers
    <3>3. Last' = Last /\ Last \in Int
      BY <1>1, <1>3, <1>4, <3>1 DEF Last
    <3>4. KeptApart' /\ Finished' = Finished
      BY <1>2, <2>1, <3>3, KeptLater
    <3>5. Partial' = Partial
      BY <1>1, <1>3, <3>1 DEF Partial
    <3>6. NoneStray'
      BY <1>1, <1>2, <1>6, <2>1, <3>1, <3>4, <3>5 DEF NoneStray
    <3>7. LoadersAt'
      BY <1>1, <1>4, <2>1, <2>2, <3>1, <3>2 DEF LoadersAt
    <3>8. open' = Descriptors'
      BY <1>1, <1>3, <2>1 DEF Descriptors
    <3> QED
      BY <1>2, <2>1, <3>4, <3>6, <3>7, <3>8, SoundAgain
  <2> QED
    BY <1>1, <1>2, <2>2 DEF LoadersAt
<1>8. CASE ~(Len(anim.imgs) < Names)
  <2>1. /\ pc' = "idle" /\ live' = live \ {<<"paths", anim.id>>}
        /\ doomed' = doomed \cup ({<<"paths", anim.id>>} \ live)
        /\ kept' = kept \cup {anim} /\ id' = id
    BY <1>8 DEF R!NextName, R!Goto, R!Free
  <2>2. ~Loading' /\ Current' = {} /\ Partial' = {}
    BY <2>1 DEF Loading, ImageSteps, Current, Partial
  <2>3. anim.imgs # <<>>
    <3>1. Names \in Nat \ {0}
      BY LoadersAssumption
    <3>2. PICK m \in Nat : m = Len(anim.imgs)
      BY <1>4
    <3>3. m # 0
      BY <1>8, <3>1, <3>2
    <3> QED
      BY <3>2, <3>3
  <2>4. anim.imgs # <<anim.id>>
    <3>1. anim.imgs = <<anim.id>> => 1 \in DOMAIN anim.imgs /\ anim.imgs[1] = anim.id
      OBVIOUS
    <3>2. 1 \in DOMAIN anim.imgs => anim.imgs[1] > anim.id
      BY <1>4
    <3> QED
      BY <1>4, <3>1, <3>2
  <2>5. IsObject(anim)
    BY <1>4, <2>3 DEF IsObject
  <2>6. Last = anim.id - 1 /\ Last' = id /\ anim.id <= id
    <3>1. anim.id \in Numbers(anim)
      BY DEF Numbers
    <3>2. anim.id <= id
      BY <1>4, <3>1
    <3> QED
      BY <1>3, <2>1, <2>2, <3>2 DEF Last
  <2>7. \A i \in Numbers(anim) : Last < i /\ i <= Last'
    <3> SUFFICES ASSUME NEW i \in Numbers(anim)
                 PROVE  anim.id - 1 < i /\ i <= id
      BY <2>6
    <3>1. CASE i = anim.id
      BY <1>4, <3>1
    <3>2. CASE i # anim.id
      <4>1. PICK k \in DOMAIN anim.imgs : i = anim.imgs[k]
        BY <3>2 DEF Numbers
      <4>2. i > anim.id /\ i \in Nat
        BY <1>4, <1>5, <4>1
      <4> QED
        BY <1>4, <4>2
    <3> QED
      BY <3>1, <3>2
  <2>8. KeptApart' /\ Finished' = Finished \cup R!Belongs(anim)
    BY <1>2, <1>4, <2>1, <2>5, <2>6, <2>7, KeptMore
  <2>9. R!Belongs(anim) = R!OfImages(anim) \cup R!Anim(anim)
    BY <2>3, <2>4 DEF R!Belongs
  <2>10. PICK b : b = <<"paths", anim.id>>
    OBVIOUS
  <2>11. live = Finished \cup lost \cup R!Belongs(anim) \cup {b}
    BY <1>3, <1>6, <2>9, <2>10 DEF Partial
  <2>12. b \notin Finished \cup lost \cup R!Belongs(anim)
    <3>1. b[1] = "paths"
      BY <2>10
    <3>2. b \notin Finished
      BY <1>2, <3>1, FinishedTags
    <3>3. b \notin lost
      BY <1>2, <3>1 DEF NoneStray
    <3>4. b \notin R!Belongs(anim)
      BY <3>1, ObjectTags
    <3> QED
      BY <3>2, <3>3, <3>4
  <2>13. live' = Finished' \cup lost /\ doomed' = {}
    BY <1>2, <2>1, <2>8, <2>10, <2>11, <2>12
  <2>14. NoneStray'
    BY <1>1, <1>2, <2>1, <2>2, <2>13 DEF NoneStray
  <2>15. LoadersAt'
    BY <1>4, <2>1, <2>2 DEF LoadersAt, ImageSteps
  <2>16. open' = Descriptors'
    BY <1>1, <1>3, <2>1 DEF Descriptors
  <2> QED
    BY <2>8, <2>13, <2>14, <2>15, <2>16, SoundAgain
<1> QED
  BY <1>7, <1>8

\* The calls of load_sound, each of which may fail.
LEMMA LoadSoundSound ==
    ASSUME Calm, R!LoadSound
    PROVE  LoadersSound'
<1> USE DEF Calm
<1>1. /\ pc \in {"open_sound", "magic", "number", "melody", "tones"}
      /\ pc' \in {"magic", "number", "melody", "tones", "sound", "no_tones", "close", "idle"}
      /\ pc' = "idle" <=> pc = "open_sound" /\ pc' # "magic"
      /\ UNCHANGED <<caller, id, anim, kept, doomed, lost>>
      /\ pc = "open_sound" => \/ pc' = "magic" /\ open' = open \cup {id} /\ live' = live
                              \/ pc' = "idle" /\ open' = open /\ live' = live
      /\ pc # "open_sound" => open' = open
      /\ pc \in {"magic", "number"} => pc' \in {"number", "melody", "close"} /\ live' = live
      /\ pc = "melody" => \/ pc' = "tones" /\ live' = live \cup {<<"melody", id>>}
                          \/ pc' = "close" /\ live' = live
      /\ pc = "tones" => /\ pc' \in {"tones", "sound", "no_tones"}
                         /\ live' = live \cup {} \/ live' = live
  BY DEF R!LoadSound, R!Open, R!Try, R!Loop, R!Allocate, R!At, R!Goto, R!rest
<1>2. LoadersAt /\ KeptApart /\ NoneStray /\ open = Descriptors /\ doomed = {}
  BY <1>1 DEF LoadersSound
<1>3. ~Loading /\ ~Loading' /\ Partial = {} /\ Partial' = {}
  BY <1>1 DEF Loading, ImageSteps, Partial
<1>4. id \in Nat /\ id > 0 /\ Last = id - 1 /\ Last' = (IF pc' = "idle" THEN id ELSE id - 1)
  BY <1>1, <1>2, <1>3 DEF Last, LoadersAt
<1>5. KeptApart' /\ Finished' = Finished
  BY <1>1, <1>2, <1>4, KeptLater
<1>6. live = Finished \cup lost \cup Current
  BY <1>1, <1>2, <1>3 DEF NoneStray
<1>7. live' = Finished \cup lost \cup Current'
  BY <1>1, <1>6 DEF Current
<1>8. NoneStray'
  BY <1>1, <1>2, <1>3, <1>5, <1>7 DEF NoneStray
<1>9. LoadersAt'
  BY <1>1, <1>3, <1>4 DEF LoadersAt, ImageSteps
<1>10. open' = Descriptors'
  BY <1>1, <1>2 DEF Descriptors
<1> QED
  BY <1>1, <1>2, <1>5, <1>8, <1>9, <1>10, SoundAgain

\* A melody is given to the program, or given back.
LEMMA SoundReturnedSound ==
    ASSUME Calm, R!SoundReturned
    PROVE  LoadersSound'
<1> USE DEF Calm
<1>1. /\ pc \in {"sound", "no_tones", "close"} /\ pc' = "idle"
      /\ UNCHANGED <<caller, id, anim, lost>> /\ open' = open \ {id}
      /\ pc = "no_tones" => /\ live' = live \ {<<"melody", id>>} /\ kept' = kept
                            /\ doomed' = doomed \cup ({<<"melody", id>>} \ live)
      /\ pc = "close" => live' = live \ {} /\ kept' = kept /\ doomed' = doomed \cup ({} \ live)
      /\ pc = "sound" => /\ live' = live \ {} /\ doomed' = doomed \cup ({} \ live)
                         /\ kept' = kept \cup {[id |-> id, imgs |-> <<>>]}
  BY DEF R!SoundReturned, R!Goto, R!At, R!Free
<1>2. LoadersAt /\ KeptApart /\ NoneStray /\ open = Descriptors /\ doomed = {}
  BY <1>1 DEF LoadersSound
<1>3. ~Loading /\ ~Loading' /\ Partial = {} /\ Partial' = {} /\ Current' = {}
  BY <1>1 DEF Loading, ImageSteps, Partial, Current
<1>4. id \in Nat /\ id > 0 /\ Last = id - 1 /\ Last' = id
  BY <1>1, <1>2, <1>3 DEF Last, LoadersAt
<1>5. /\ live = Finished \cup lost \cup Current
      /\ pc \in {"no_tones", "sound"} => Current = {<<"melody", id>>}
      /\ pc = "close" => Current = {}
  BY <1>1, <1>2, <1>3 DEF NoneStray, Current
<1>6. <<"melody", id>> \notin Finished \cup lost
  <2>1. PICK b : b = <<"melody", id>>
    OBVIOUS
  <2>2. b[1] # "imgs" /\ b[2] = id
    BY <2>1
  <2>3. b \in Finished \cup lost => b[2] # id
    BY <1>1, <1>2, <2>2, Fresh
  <2> QED
    BY <2>1, <2>2, <2>3
<1>7. KeptApart' /\ live' = Finished' \cup lost /\ doomed' = {}
  <2>1. CASE pc = "sound"
    <3>1. PICK new : new = [id |-> id, imgs |-> <<>>]
      OBVIOUS
    <3>2. IsObject(new) /\ Numbers(new) = {id} /\ R!Belongs(new) = {<<"melody", id>>}
      BY <1>4, <3>1 DEF IsObject, Numbers, R!Belongs
    <3>3. kept' = kept \cup {new}
      BY <1>1, <2>1, <3>1
    <3>4. KeptApart' /\ Finished' = Finished \cup R!Belongs(new)
      BY <1>2, <1>4, <3>2, <3>3, KeptMore
    <3> QED
      BY <1>1, <1>2, <1>5, <2>1, <3>2, <3>4
  <2>2. CASE pc # "sound"
    <3>1. KeptApart' /\ Finished' = Finished
      BY <1>1, <1>2, <1>4, <2>2, KeptLater
    <3> QED
      BY <1>1, <1>2, <1>5, <1>6, <2>2, <3>1
  <2> QED
    BY <2>1, <2>2
<1>8. NoneStray'
  BY <1>1, <1>2, <1>3, <1>7 DEF NoneStray
<1>9. LoadersAt'
  BY <1>1, <1>3, <1>4 DEF LoadersAt, ImageSteps
<1>10. open' = Descriptors'
  BY <1>1, <1>2 DEF Descriptors
<1> QED
  BY <1>7, <1>8, <1>9, <1>10, SoundAgain

\* An image or a melody is given back.
LEMMA ClearSound ==
    ASSUME Calm, NEW object \in kept, R!Clear(object)
    PROVE  LoadersSound'
<1> USE DEF Calm
<1> DEFINE blocks == IF object.imgs = <<>> THEN {<<"melody", object.id>>}
                     ELSE R!Image(object.id) \cup R!Rows(object.id, Height)
<1>1. /\ pc = "idle" /\ <<"anim", object.id>> \notin live
      /\ kept' = kept \ {object}
      /\ live' = live \ blocks /\ doomed' = doomed \cup (blocks \ live)
      /\ UNCHANGED <<pc, caller, id, anim, row, open, lost>>
  BY DEF R!Clear, R!At, R!Free
<1>2. LoadersAt /\ KeptApart /\ NoneStray /\ open = Descriptors /\ doomed = {}
  BY <1>1 DEF LoadersSound
<1>3. ~Loading /\ ~Loading' /\ Partial = {} /\ Partial' = {} /\ Current = {} /\ Current' = {}
  BY <1>1 DEF Loading, ImageSteps, Partial, Current
<1>4. Last' = Last
  BY <1>1, <1>3 DEF Last
<1>5. live = Finished \cup lost
  BY <1>1, <1>2, <1>3 DEF NoneStray
<1>6. IsObject(object) /\ R!Belongs(object) \subseteq Finished
  BY <1>2 DEF KeptApart, Finished
<1>7. R!Belongs(object) = blocks
  <2>1. CASE object.imgs = <<>>
    BY <2>1 DEF R!Belongs
  <2>2. CASE object.imgs # <<>>
    <3>1. object.imgs = <<object.id>>
      <4>1. object.imgs # <<object.id>> => <<"anim", object.id>> \in R!Belongs(object)
        BY <2>2 DEF R!Belongs, R!Anim
      <4> QED
        BY <1>1, <1>5, <1>6, <4>1
    <3>2. DOMAIN object.imgs = {1} /\ object.imgs[1] = object.id
      BY <3>1
    <3>3. R!OfImages(object) = R!Image(object.id) \cup R!Rows(object.id, Height)
      BY <3>2 DEF R!OfImages
    <3> QED
      BY <2>2, <3>1, <3>3 DEF R!Belongs
  <2> QED
    BY <2>1, <2>2
<1>8. \A b \in blocks : b[2] \in Numbers(object) /\ b[1] # "imgs"
  <2>1. ASSUME NEW b \in blocks
        PROVE  b[2] \in Numbers(object) /\ b[1] # "imgs"
    <3>1. b[2] \in Numbers(object)
      BY <1>7, <2>1, ObjectTags
    <3>2. b[1] # "imgs"
      <4>1. CASE b = <<"melody", object.id>>
        BY <4>1
      <4>2. CASE b \in R!Image(object.id) \cup R!Rows(object.id, Height)
        BY <4>2, ImageTags
      <4> QED
        BY <2>1, <4>1, <4>2
    <3> QED
      BY <3>1, <3>2
  <2> QED
    BY <2>1
<1>9. \A other \in kept \ {object} : R!Belongs(other) \cap blocks = {}
  <2> SUFFICES ASSUME NEW other \in kept, other # object, NEW b \in R!Belongs(other), b \in blocks
               PROVE  FALSE
    OBVIOUS
  <2>1. b[2] \in Numbers(object) /\ b[2] \in Numbers(other)
    BY <1>8, ObjectTags
  <2>2. Numbers(object) \cap Numbers(other) # {}
    BY <2>1
  <2> QED
    BY <1>2, <2>2 DEF KeptApart
<1>10. Finished' = Finished \ blocks
  <2>1. \A b : b \in Finished <=> \E other \in kept : b \in R!Belongs(other)
    BY DEF Finished
  <2>2. \A b : b \in Finished' <=> \E other \in kept \ {object} : b \in R!Belongs(other)
    BY <1>1 DEF Finished
  <2>3. \A b : b \in Finished' <=> b \in Finished /\ b \notin blocks
    <3>1. ASSUME NEW b, b \in Finished'
          PROVE  b \in Finished /\ b \notin blocks
      <4>1. PICK other \in kept \ {object} : b \in R!Belongs(other)
        BY <2>2, <3>1
      <4>2. b \notin blocks
        BY <1>9, <4>1
      <4> QED
        BY <2>1, <4>1, <4>2
    <3>2. ASSUME NEW b, b \in Finished, b \notin blocks
          PROVE  b \in Finished'
      <4>1. PICK other \in kept : b \in R!Belongs(other)
        BY <2>1, <3>2
      <4>2. other # object
        BY <1>7, <3>2, <4>1
      <4> QED
        BY <2>2, <4>1, <4>2
    <3> QED
      BY <3>1, <3>2
  <2> QED
    BY <2>3
<1>11. \A b \in lost : b \notin blocks
  BY <1>2, <1>8 DEF NoneStray
<1>12. live' = Finished' \cup lost /\ doomed' = {}
  <2> HIDE DEF blocks
  <2>1. blocks \subseteq live
    BY <1>5, <1>6, <1>7
  <2> QED
    BY <1>1, <1>2, <1>5, <1>10, <1>11, <2>1
<1>13. NoneStray'
  BY <1>1, <1>2, <1>3, <1>12 DEF NoneStray
<1>14. KeptApart'
  BY <1>1, <1>2, <1>4 DEF KeptApart
<1>15. LoadersAt'
  BY <1>1, <1>2, <1>3 DEF LoadersAt, ImageSteps
<1>16. open' = Descriptors'
  BY <1>1, <1>2 DEF Descriptors
<1> QED
  BY <1>12, <1>13, <1>14, <1>15, <1>16, SoundAgain

\* Every step of the loaders keeps their invariant.
LEMMA LoadNext ==
    ASSUME LoadersSound, R!Next
    PROVE  LoadersSound'
<1>1. pc # "blue_screen"
  BY DEF R!Next, R!load_image, R!load_anim, R!load_sound, R!Begin, R!ReadHeader, R!NewImage,
         R!NewData, R!NewRows, R!ReadRows, R!Err, R!ErrBuf, R!CloseImage, R!ImageReturned,
         R!NewAnim, R!NoImgs, R!NextName, R!LoadSound, R!SoundReturned, R!Clear,
         R!Open, R!Try, R!Allocate, R!Loop, R!At
<1>2. Calm
  BY <1>1 DEF Calm
<1> QED
  BY <1>2, BeginSound, ReadHeaderSound, RowsSound, ErrSound, CloseImageSound,
     ImageReturnedSound, NewAnimSound, NoImgsSound, NextNameSound, LoadSoundSound,
     SoundReturnedSound, ClearSound DEF R!Next

\* No way out of a loader, whichever of its calls fails, for images of any height and
\* animations of any length, keeps a block or a descriptor or frees one twice, and no
\* switch of the VGA loses the font or the text (graphic.c:442-615, sound.c:27-80,
\* libvga.c:156-257).
THEOREM LoadersLoseNothing == Spec => []NothingLost
<1>1. Init => LoadersSound /\ FontSomewhere
  <2> SUFFICES ASSUME Init
               PROVE  LoadersSound /\ FontSomewhere
    OBVIOUS
  <2>1. FontSomewhere
    BY DEF Init, V!Init, FontSomewhere
  <2>2. /\ pc = "idle" /\ id = 0 /\ live = {} /\ open = {} /\ kept = {} /\ doomed = {} /\ lost = {}
    BY DEF Init, R!Init
  <2>3. ~Loading /\ Finished = {} /\ Partial = {} /\ Current = {} /\ Descriptors = {}
    BY <2>2 DEF Loading, ImageSteps, Finished, Partial, Current, Descriptors
  <2>4. LoadersAt
    BY <2>2, <2>3 DEF LoadersAt, ImageSteps
  <2> QED
    BY <2>1, <2>2, <2>3, <2>4 DEF LoadersSound, KeptApart, NoneStray
<1>2. LoadersSound /\ FontSomewhere /\ [Next]_vars => (LoadersSound /\ FontSomewhere)'
  <2> SUFFICES ASSUME LoadersSound, FontSomewhere, [Next]_vars
               PROVE  (LoadersSound /\ FontSomewhere)'
    OBVIOUS
  <2>1. UNCHANGED loaderVars => LoadersSound'
    <3> SUFFICES ASSUME UNCHANGED loaderVars
                 PROVE  LoadersSound'
      OBVIOUS
    <3>1. UNCHANGED <<pc, caller, id, anim, row, live, open, kept, doomed, lost>>
      BY DEF loaderVars
    <3>2. Loading' = Loading /\ Numbers(anim)' = Numbers(anim)
      BY <3>1 DEF Loading, Numbers
    <3>3. Finished' = Finished /\ Partial' = Partial /\ Current' = Current /\ Last' = Last
          /\ Descriptors' = Descriptors
      BY <3>1, <3>2 DEF Finished, Partial, Current, Last, Descriptors, R!OfImages, R!Anim
    <3>4. CASE pc = "blue_screen"
      BY <3>1, <3>4 DEF LoadersSound
    <3>5. CASE pc # "blue_screen"
      <4>1. LoadersAt'
        BY <3>1, <3>2, <3>5 DEF LoadersSound, LoadersAt
      <4>2. KeptApart'
        BY <3>1, <3>3, <3>5 DEF LoadersSound, KeptApart
      <4>3. NoneStray'
        BY <3>1, <3>3, <3>5 DEF LoadersSound, NoneStray
      <4> QED
        BY <3>1, <3>3, <3>5, <4>1, <4>2, <4>3 DEF LoadersSound
    <3> QED
      BY <3>4, <3>5
  <2>2. UNCHANGED vgaVars => FontSomewhere'
    BY DEF vgaVars, FontSomewhere
  <2>3. CASE Load
    BY <2>2, <2>3, LoadNext DEF Load
  <2>4. CASE Build
    BY <2>1, <2>2, <2>4 DEF Build
  <2>5. CASE Switch
    BY <2>1, <2>5, SwitchNext DEF Switch
  <2>6. CASE UNCHANGED vars
    BY <2>1, <2>2, <2>6 DEF vars
  <2> QED
    BY <2>3, <2>4, <2>5, <2>6 DEF Next
<1>3. LoadersSound /\ FontSomewhere => NothingLost
  <2> SUFFICES ASSUME LoadersSound, FontSomewhere
               PROVE  R!NothingLost /\ V!FontKept
    BY DEF NothingLost
  <2>1. V!FontKept
    BY DEF FontSomewhere, V!FontKept
  <2>2. ASSUME pc = "idle"
        PROVE  /\ open = {}
               /\ live = (UNION {R!Belongs(object) : object \in kept}) \cup lost
               /\ \A block \in lost : block[1] = "imgs"
    <3>1. Partial = {} /\ Current = {} /\ Descriptors = {}
      BY <2>2 DEF Loading, ImageSteps, Partial, Current, Descriptors
    <3> QED
      BY <2>2, <3>1 DEF LoadersSound, NoneStray, Finished
  <2> QED
    BY <2>1, <2>2 DEF LoadersSound, R!NothingLost
<1> QED
  BY <1>1, <1>2, <1>3, PTL DEF Spec

-----------------------------------------------------------------------------
(* The builder of file system images.                                      *)

\* What block number `num' of file f holds, the files having these sizes.
PartOf(sizes, f, num) ==
    SubSeq(F!Content(f, sizes[f]), (num - 1) * DataSize + 1,
           IF num * DataSize < sizes[f] THEN num * DataSize ELSE sizes[f])
Holds(img, sizes, b, f, num) ==
    /\ b \in DOMAIN img /\ b \in Nat /\ b > Len(sizes)
    /\ \E bytes \in Nat : img[b] = [idx |-> b, usage |-> bytes, data |-> PartOf(sizes, f, num)]
IsIndex(img, sizes, b) ==
    /\ b \in DOMAIN img /\ b \in Nat /\ b > Len(sizes)
    /\ img[b] = [idx |-> b, blks |-> img[b].blks]
    /\ img[b].blks \in Seq(Nat) /\ img[b].blks # <<>> /\ Len(img[b].blks) <= PerIndirect

\* The lists of blocks of an inode and of the index block being filled: the direct
\* ones, those of each index block, and those that are in none yet.
Lists(img, ino, ib) ==
    [j \in 0..(Len(ino.i_blks) + 1) |->
        IF j = 0 THEN ino.d_blks ELSE IF j <= Len(ino.i_blks) THEN img[ino.i_blks[j]].blks ELSE ib]
NumberOf(j, k) == IF j = 0 THEN k ELSE Direct + (j - 1) * PerIndirect + k
\* They hold the first blocks of the file, each at its place.
Covers(img, sizes, f, lists, count) ==
    /\ \A j \in DOMAIN lists : \A k \in DOMAIN lists[j] :
          Holds(img, sizes, lists[j][k], f, NumberOf(j, k)) /\ NumberOf(j, k) \in 1..count
    /\ \A num \in 1..count : \E j \in DOMAIN lists : \E k \in DOMAIN lists[j] : NumberOf(j, k) = num

Fields == {"idx", "inumber", "file_sz", "next_inode", "blk_cnt", "d_blks", "i_blks"}
IsInode(img, sizes, f, ino) ==
    /\ DOMAIN ino = Fields
    /\ ino.idx = f /\ ino.file_sz = sizes[f]
    /\ ino.next_inode = (IF f = Len(sizes) THEN 0 ELSE f + 1)
    /\ ino.blk_cnt = (sizes[f] + DataSize - 1) \div DataSize
    /\ ino.d_blks \in Seq(Nat) /\ Len(ino.d_blks) <= Direct
    /\ ino.i_blks \in Seq(Nat)
    /\ \A j \in DOMAIN ino.i_blks : IsIndex(img, sizes, ino.i_blks[j])
Listed(lists, b) == \E j \in DOMAIN lists : \E k \in DOMAIN lists[j] : lists[j][k] = b
Owns(img, ino, ib, b) ==
    \/ Listed(Lists(img, ino, ib), b)
    \/ \E j \in DOMAIN ino.i_blks : ino.i_blks[j] = b

\* `count' blocks are all that a file of this size needs.
Whole(size, count) ==
    size \in Nat /\ size <= count * DataSize /\ (count = 0 \/ (count - 1) * DataSize < size)
InImage(img, sizes, f) ==
    /\ IsInode(img, sizes, f, img[f])
    /\ \E count \in Nat :
          Whole(sizes[f], count) /\ Covers(img, sizes, f, Lists(img, img[f], <<>>), count)

\* How far the file is that is being written.
Underway(count) ==
    /\ IsInode(image, files, n, inode)
    /\ iblock.blks \in Seq(Nat) /\ Len(iblock.blks) <= PerIndirect
    /\ Covers(image, files, n, Lists(image, inode, iblock.blks), count)
    /\ files[n] <= F!MaxFileSize
    /\ IF files[n] = F!Missing THEN step = "direct" /\ read = 0 /\ count = 0
       ELSE \/ read = files[n] /\ Whole(files[n], count)
            \/ read = count * DataSize /\ read < files[n]
    /\ step = "direct" => inode.i_blks = <<>> /\ iblock.blks = <<>> /\ count = Len(inode.d_blks)
    /\ step = "indirect" =>
          /\ Len(inode.d_blks) = Direct
          /\ \/ count = Direct + Len(inode.i_blks) * PerIndirect + Len(iblock.blks)
             \/ read = files[n] /\ iblock.blks = <<>>

Filling == step \in {"direct", "indirect"}
Written == IF step \in {"super", "done"} THEN Len(files) ELSE n - 1

BuilderAt ==
    /\ files \in Seq(Nat \cup {F!Missing}) /\ n \in 1..Len(files)
    /\ step \in {"open", "direct", "indirect", "super", "done", "failed"}
    /\ step = "super" => n = Len(files)
    /\ blk_idx \in Nat /\ blk_idx > Len(files)
    /\ step = "open" => iblock.blks = <<>>
    /\ 0 \in DOMAIN image => step = "done"
    /\ DOMAIN image = (1..Written) \cup ((Len(files) + 1)..(blk_idx - 1))
                      \cup (IF step = "done" THEN {0} ELSE {})
    /\ step = "done" => image[0] = [blk_cnt |-> blk_idx, inode_idx |-> 1, inode_cnt |-> Len(files)]

\* No block is written for nothing.
BlocksOwned ==
    \A b \in (Len(files) + 1)..(blk_idx - 1) :
        \/ \E f \in 1..Written : Owns(image, image[f], <<>>, b)
        \/ Filling /\ Owns(image, inode, iblock.blks, b)

BuilderSound ==
    IF step = "failed" THEN 0 \notin DOMAIN image
    ELSE /\ BuilderAt /\ BlocksOwned
         /\ \A f \in 1..Written : InImage(image, files, f)
         /\ Filling => \E count \in Nat : Underway(count)

\* The image grows: what was written stays.
Extends_(img, img2) == DOMAIN img \subseteq DOMAIN img2 /\ \A b \in DOMAIN img : img2[b] = img[b]

\* What a block holds stays, and what an index block lists.
LEMMA BlocksStay ==
    ASSUME NEW img, NEW img2, Extends_(img, img2), NEW sizes, NEW b
    PROVE  /\ \A f, num : Holds(img, sizes, b, f, num) => Holds(img2, sizes, b, f, num)
           /\ IsIndex(img, sizes, b) => IsIndex(img2, sizes, b) /\ img2[b] = img[b]
<1>1. ASSUME NEW f, NEW num, Holds(img, sizes, b, f, num)
      PROVE  Holds(img2, sizes, b, f, num)
  <2>1. b \in DOMAIN img2 /\ img2[b] = img[b]
    BY <1>1 DEF Holds, Extends_
  <2> QED
    BY <1>1, <2>1 DEF Holds
<1>2. ASSUME IsIndex(img, sizes, b)
      PROVE  IsIndex(img2, sizes, b) /\ img2[b] = img[b]
  <2>1. b \in DOMAIN img2 /\ img2[b] = img[b]
    BY <1>2 DEF IsIndex, Extends_
  <2> QED
    BY <1>2, <2>1 DEF IsIndex
<1> QED
  BY <1>1, <1>2

\* An inode stays one, with the same lists.
LEMMA InodeStays ==
    ASSUME NEW img, NEW img2, Extends_(img, img2), NEW sizes, NEW f, NEW ino,
           IsInode(img, sizes, f, ino), NEW ib
    PROVE  IsInode(img2, sizes, f, ino) /\ Lists(img2, ino, ib) = Lists(img, ino, ib)
<1>1. \A j \in DOMAIN ino.i_blks :
          IsIndex(img2, sizes, ino.i_blks[j]) /\ img2[ino.i_blks[j]] = img[ino.i_blks[j]]
  BY BlocksStay DEF IsInode
<1>2. IsInode(img2, sizes, f, ino)
  BY <1>1 DEF IsInode
<1>3. ino.i_blks \in Seq(Nat)
  BY DEF IsInode
<1>4. \A j \in 0..(Len(ino.i_blks) + 1) :
         (IF j = 0 THEN ino.d_blks ELSE IF j <= Len(ino.i_blks) THEN img2[ino.i_blks[j]].blks ELSE ib)
         = (IF j = 0 THEN ino.d_blks ELSE IF j <= Len(ino.i_blks) THEN img[ino.i_blks[j]].blks ELSE ib)
  <2> SUFFICES ASSUME NEW j \in 0..(Len(ino.i_blks) + 1), j # 0, j <= Len(ino.i_blks)
               PROVE  img2[ino.i_blks[j]].blks = img[ino.i_blks[j]].blks
    OBVIOUS
  <2>1. j \in DOMAIN ino.i_blks
    BY <1>3
  <2> QED
    BY <1>1, <2>1
<1> QED
  BY <1>2, <1>4 DEF Lists

\* Lists that cover the beginning of a file go on doing so.
LEMMA CoverStays ==
    ASSUME NEW img, NEW img2, Extends_(img, img2), NEW sizes, NEW f, NEW lists, NEW count,
           Covers(img, sizes, f, lists, count)
    PROVE  Covers(img2, sizes, f, lists, count)
  BY BlocksStay DEF Covers

\* A file that is in the image stays in it.
LEMMA FileStays ==
    ASSUME NEW img, NEW img2, Extends_(img, img2), NEW sizes, NEW f \in DOMAIN img,
           InImage(img, sizes, f)
    PROVE  /\ InImage(img2, sizes, f)
           /\ \A b : Owns(img, img[f], <<>>, b) => Owns(img2, img2[f], <<>>, b)
<1>1. img2[f] = img[f]
  BY DEF Extends_
<1>2. /\ IsInode(img2, sizes, f, img2[f])
      /\ Lists(img2, img2[f], <<>>) = Lists(img, img[f], <<>>)
  BY <1>1, InodeStays DEF InImage
<1>3. PICK count \in Nat : /\ Whole(sizes[f], count)
                           /\ Covers(img, sizes, f, Lists(img, img[f], <<>>), count)
  BY DEF InImage
<1>4. Covers(img2, sizes, f, Lists(img2, img2[f], <<>>), count)
  BY <1>2, <1>3, CoverStays
<1> QED
  BY <1>1, <1>2, <1>3, <1>4 DEF InImage, Owns

\* One block more, at the end of one of the lists.
Longer(lists, lists2, at, b) ==
    /\ at \in DOMAIN lists /\ lists[at] \in Seq(Nat) /\ b \in Nat
    /\ DOMAIN lists2 = DOMAIN lists /\ lists2[at] = Append(lists[at], b)
    /\ \A j \in DOMAIN lists : j # at => lists2[j] = lists[j]

\* It is listed, and so is what was.
LEMMA LongerLists ==
    ASSUME NEW lists, NEW lists2, NEW at, NEW b, Longer(lists, lists2, at, b)
    PROVE  /\ Listed(lists2, b)
           /\ \A x : Listed(lists, x) => Listed(lists2, x)
<1> USE DEF Longer
<1>1. PICK m \in Nat : m = Len(lists[at])
  OBVIOUS
<1>2. /\ DOMAIN lists[at] = 1..m /\ DOMAIN lists2[at] = 1..(m + 1)
      /\ \A k \in 1..m : lists2[at][k] = lists[at][k]
      /\ lists2[at][m + 1] = b
  BY <1>1
<1>3. 1..(m + 1) = (1..m) \cup {m + 1} /\ m + 1 \in 1..(m + 1)
  OBVIOUS
<1>4. \A j \in DOMAIN lists : \A k \in DOMAIN lists[j] :
          k \in DOMAIN lists2[j] /\ lists2[j][k] = lists[j][k]
  BY <1>2, <1>3
<1>5. Listed(lists2, b)
  BY <1>2, <1>3 DEF Listed
<1> QED
  BY <1>4, <1>5 DEF Listed

\* The lists cover one block more of the file.
LEMMA OneMoreBlock ==
    ASSUME NEW img, NEW sizes, NEW f, NEW count \in Nat, NEW lists, NEW lists2,
           Covers(img, sizes, f, lists, count), NEW at, NEW b, Longer(lists, lists2, at, b),
           NumberOf(at, Len(lists[at]) + 1) = count + 1,
           Holds(img, sizes, b, f, count + 1)
    PROVE  Covers(img, sizes, f, lists2, count + 1)
<1> USE DEF Longer
<1>1. PICK m \in Nat : m = Len(lists[at])
  OBVIOUS
<1>2. /\ DOMAIN lists[at] = 1..m /\ DOMAIN lists2[at] = 1..(m + 1)
      /\ \A k \in 1..m : lists2[at][k] = lists[at][k]
      /\ lists2[at][m + 1] = b
  BY <1>1
<1>3. 1..(m + 1) = (1..m) \cup {m + 1} /\ m + 1 \in 1..(m + 1)
  OBVIOUS
<1>4. 1..(count + 1) = (1..count) \cup {count + 1} /\ count + 1 \in 1..(count + 1)
  OBVIOUS
<1>5. \A j \in DOMAIN lists : \A k \in DOMAIN lists[j] :
          k \in DOMAIN lists2[j] /\ lists2[j][k] = lists[j][k]
  BY <1>2, <1>3
<1>6. ASSUME NEW j \in DOMAIN lists2, NEW k \in DOMAIN lists2[j]
      PROVE  Holds(img, sizes, lists2[j][k], f, NumberOf(j, k)) /\ NumberOf(j, k) \in 1..(count + 1)
  <2>1. CASE k \in DOMAIN lists[j]
    BY <1>4, <1>5, <2>1 DEF Covers
  <2>2. CASE k \notin DOMAIN lists[j]
    <3>1. j = at /\ k = m + 1
      BY <1>2, <1>3, <2>2
    <3> QED
      BY <1>1, <1>2, <1>4, <3>1
  <2> QED
    BY <2>1, <2>2
<1>7. ASSUME NEW num \in 1..(count + 1)
      PROVE  \E j \in DOMAIN lists2 : \E k \in DOMAIN lists2[j] : NumberOf(j, k) = num
  <2>1. CASE num \in 1..count
    <3>1. PICK j \in DOMAIN lists : \E k \in DOMAIN lists[j] : NumberOf(j, k) = num
      BY <2>1 DEF Covers
    <3> QED
      BY <1>5, <3>1
  <2>2. CASE num = count + 1
    BY <1>1, <1>2, <1>3, <2>2
  <2> QED
    BY <1>4, <2>1, <2>2
<1> QED
  BY <1>1, <1>2, <1>3, <1>5, <1>6, <1>7 DEF Covers

\* A list that is closed, and an empty one after it.
LEMMA OneMoreList ==
    ASSUME NEW img, NEW sizes, NEW f, NEW count \in Nat, NEW lists, NEW lists2, NEW m \in Nat,
           Covers(img, sizes, f, lists, count),
           DOMAIN lists = 0..m, DOMAIN lists2 = 0..(m + 1), lists2[m + 1] = <<>>,
           \A j \in 0..m : lists2[j] = lists[j]
    PROVE  Covers(img, sizes, f, lists2, count)
<1>1. 0..(m + 1) = (0..m) \cup {m + 1}
  OBVIOUS
<1>2. DOMAIN lists2[m + 1] = {}
  OBVIOUS
<1>3. ASSUME NEW j \in DOMAIN lists2, NEW k \in DOMAIN lists2[j]
      PROVE  j \in DOMAIN lists /\ k \in DOMAIN lists[j] /\ lists2[j][k] = lists[j][k]
  BY <1>1, <1>2
<1>4. \A j \in DOMAIN lists : j \in DOMAIN lists2 /\ lists2[j] = lists[j]
  BY <1>1
<1> QED
  BY <1>3, <1>4 DEF Covers

\* A block is written where none was.
LEMMA PutGrows ==
    ASSUME NEW at, at \notin DOMAIN image, NEW record, F!Put(at, record)
    PROVE  /\ Extends_(image, image') /\ DOMAIN image' = DOMAIN image \cup {at}
           /\ image'[at] = record
  BY DEF F!Put, Extends_

\* While files are written neither the next block nor the superblock is there.
LEMMA NextIsFree ==
    ASSUME BuilderAt, step \notin {"done", "failed"}
    PROVE  /\ blk_idx \notin DOMAIN image /\ 0 \notin DOMAIN image
           /\ Filling \/ step = "open" => n \notin DOMAIN image
           /\ Written \in Nat /\ Written <= Len(files) /\ Len(files) \in Nat
           /\ DOMAIN image = (1..Written) \cup ((Len(files) + 1)..(blk_idx - 1))
<1>1. PICK m \in Nat : m = Len(files)
  BY DEF BuilderAt
<1>2. /\ n \in 1..m /\ blk_idx \in Nat /\ blk_idx > m
      /\ Written = IF step = "super" THEN m ELSE n - 1
      /\ DOMAIN image = (1..Written) \cup ((m + 1)..(blk_idx - 1)) \cup {}
  BY <1>1 DEF BuilderAt, Written
<1>3. Filling \/ step = "open" => Written = n - 1
  BY <1>2 DEF Filling
<1> QED
  BY <1>1, <1>2, <1>3

\* The files that are in the image stay in it.
LEMMA FilesStay ==
    ASSUME BuilderSound, step \notin {"done", "failed"}, Extends_(image, image')
    PROVE  \A f \in 1..Written :
              /\ InImage(image', files, f)
              /\ image'[f] = image[f]
              /\ \A b : Owns(image, image[f], <<>>, b) => Owns(image', image'[f], <<>>, b)
<1> SUFFICES ASSUME NEW f \in 1..Written
             PROVE  /\ InImage(image', files, f)
                    /\ image'[f] = image[f]
                    /\ \A b : Owns(image, image[f], <<>>, b) => Owns(image', image'[f], <<>>, b)
  OBVIOUS
<1>1. f \in DOMAIN image /\ InImage(image, files, f)
  BY NextIsFree DEF BuilderSound
<1>2. image'[f] = image[f]
  BY <1>1 DEF Extends_
<1>3. /\ InImage(image', files, f)
      /\ \A b : Owns(image, image[f], <<>>, b) => Owns(image', image'[f], <<>>, b)
  BY <1>1, FileStays
<1> QED
  BY <1>2, <1>3

\* A block of the file being written.
LEMMA BlockWritten ==
    ASSUME BuilderSound, Filling, UNCHANGED <<files, n, step>>, blk_idx' = blk_idx + 1,
           Extends_(image, image'), DOMAIN image' = DOMAIN image \cup {blk_idx},
           NEW count \in Nat, Underway(count)',
           \A b : Owns(image, inode, iblock.blks, b) => Owns(image', inode', iblock'.blks, b),
           Owns(image', inode', iblock'.blks, blk_idx)
    PROVE  BuilderSound'
<1>1. step \in {"direct", "indirect"} /\ step' = step /\ BuilderAt /\ BlocksOwned
  BY DEF Filling, BuilderSound
<1>2. PICK m \in Nat : m = Len(files)
  BY <1>1 DEF BuilderAt
<1>3. /\ 0 \notin DOMAIN image /\ Written \in Nat /\ Written <= m
      /\ DOMAIN image = (1..Written) \cup ((m + 1)..(blk_idx - 1))
      /\ blk_idx \in Nat /\ blk_idx > m /\ files' = files
  BY <1>1, <1>2, NextIsFree DEF BuilderAt
<1>4. Written' = Written /\ Filling'
  BY <1>1 DEF Written, Filling
<1>5. (m + 1)..(blk_idx + 1 - 1) = ((m + 1)..(blk_idx - 1)) \cup {blk_idx}
  BY <1>3
<1>6. DOMAIN image' = (1..Written) \cup ((m + 1)..(blk_idx' - 1)) /\ 0 \notin DOMAIN image'
  <2>1. blk_idx # 0
    BY <1>3
  <2> QED
    BY <1>3, <1>5, <2>1
<1>7. BuilderAt'
  <2>1. blk_idx' \in Nat /\ blk_idx' > m
    BY <1>3
  <2>2. /\ step' # "open" /\ step' # "done" /\ step' # "super"
        /\ files' \in Seq(Nat \cup {F!Missing}) /\ n' \in 1..Len(files')
        /\ Len(files') = m
    BY <1>1, <1>2 DEF BuilderAt
  <2>3. DOMAIN image' = (1..Written') \cup ((Len(files') + 1)..(blk_idx' - 1)) \cup {}
    BY <1>4, <1>6, <2>2
  <2> QED
    BY <1>1, <1>6, <2>1, <2>2, <2>3 DEF BuilderAt
<1>8. \A f \in 1..Written : /\ InImage(image', files, f)
                            /\ \A b : Owns(image, image[f], <<>>, b) => Owns(image', image'[f], <<>>, b)
  BY <1>1, FilesStay
<1>9. BlocksOwned'
  <2>1. ASSUME NEW b \in (m + 1)..(blk_idx' - 1)
        PROVE  \/ \E f \in 1..Written : Owns(image', image'[f], <<>>, b)
               \/ Owns(image', inode', iblock'.blks, b)
    <3>1. CASE b = blk_idx
      BY <3>1
    <3>2. CASE b \in (m + 1)..(blk_idx - 1)
      <4>1. \/ \E f \in 1..Written : Owns(image, image[f], <<>>, b)
            \/ Owns(image, inode, iblock.blks, b)
        BY <1>1, <1>2, <3>2 DEF BlocksOwned
      <4> QED
        BY <1>8, <4>1
    <3> QED
      BY <1>5, <2>1, <3>1, <3>2
  <2> QED
    BY <1>2, <1>3, <1>4, <2>1 DEF BlocksOwned
<1>10. \A f \in 1..Written' : InImage(image', files', f)
  BY <1>3, <1>4, <1>8
<1> QED
  BY <1>1, <1>7, <1>9, <1>10 DEF BuilderSound

\* The block that is read and written is the next of the file.
LEMMA NextOfFile ==
    ASSUME BuilderSound, Filling, NEW count \in Nat, Underway(count), F!WriteBlock
    PROVE  /\ Extends_(image, image') /\ DOMAIN image' = DOMAIN image \cup {blk_idx}
           /\ blk_idx \in Nat
           /\ Holds(image', files, blk_idx, n, count + 1)
           /\ files[n] \in Nat /\ read = count * DataSize /\ read < files[n]
           /\ \/ read' = files[n] /\ Whole(files[n], count + 1)
              \/ read' = (count + 1) * DataSize /\ read' < files[n]
<1>1. BuilderAt /\ step \notin {"done", "failed"}
  BY DEF BuilderSound, Filling
<1>2. files[n] \in Nat \cup {-1}
  BY <1>1 DEF BuilderAt, F!Missing
<1>3. read < files[n]
  BY DEF F!WriteBlock
<1>4. files[n] \in Nat /\ read = count * DataSize
  BY <1>2, <1>3 DEF Underway, F!Missing
<1>5. PICK p \in Nat, d \in Nat \ {0}, size \in Nat :
          d = DataSize /\ p = count * DataSize /\ size = files[n]
  BY <1>4, BuilderAssumption
<1>6. (count + 1) * DataSize = p + d /\ count + 1 - 1 = count
  BY <1>5, BuilderAssumption
<1>7. PICK last \in Nat : last = IF p + d < size THEN p + d ELSE size
  BY <1>5
<1>8. read + DataSize = p + d
  BY <1>4, <1>5
<1>9. /\ F!Put(blk_idx, [idx |-> blk_idx, usage |-> last - read,
                         data |-> SubSeq(F!Content(n, files[n]), read + 1, last)])
      /\ read' = last
  BY <1>5, <1>7, <1>8 DEF F!WriteBlock
<1>10. blk_idx \notin DOMAIN image /\ blk_idx \in Nat /\ blk_idx > Len(files)
  BY <1>1, NextIsFree DEF BuilderAt
<1>11. PICK record : record = [idx |-> blk_idx, usage |-> last - read,
                               data |-> SubSeq(F!Content(n, files[n]), read + 1, last)]
  OBVIOUS
<1>12. Extends_(image, image') /\ DOMAIN image' = DOMAIN image \cup {blk_idx}
       /\ image'[blk_idx] = record
  BY <1>9, <1>10, <1>11, PutGrows
<1>13. PartOf(files, n, count + 1) = SubSeq(F!Content(n, files[n]), read + 1, last)
  BY <1>4, <1>5, <1>6, <1>7 DEF PartOf
<1>14. last - read \in Nat
  BY <1>3, <1>4, <1>5, <1>7
<1>15. Holds(image', files, blk_idx, n, count + 1)
  BY <1>10, <1>11, <1>12, <1>13, <1>14 DEF Holds
<1>16. \/ read' = files[n] /\ Whole(files[n], count + 1)
       \/ read' = (count + 1) * DataSize /\ read' < files[n]
  <2>1. CASE p + d < size
    BY <1>5, <1>6, <1>7, <1>9, <2>1
  <2>2. CASE ~(p + d < size)
    <3>1. size <= p + d /\ p < size
      BY <1>3, <1>4, <1>5, <2>2
    <3> QED
      BY <1>5, <1>6, <1>7, <1>9, <2>2, <3>1 DEF Whole
  <2> QED
    BY <2>1, <2>2
<1> QED
  BY <1>3, <1>4, <1>10, <1>12, <1>15, <1>16

\* Which lists there are.
AreLists(lists, img, ino, ib) ==
    /\ DOMAIN lists = 0..(Len(ino.i_blks) + 1)
    /\ lists[0] = ino.d_blks
    /\ \A j \in 1..Len(ino.i_blks) : lists[j] = img[ino.i_blks[j]].blks
    /\ lists[Len(ino.i_blks) + 1] = ib

\* They are those of the inode, of its index blocks, and the last.
LEMMA ListsAre ==
    ASSUME NEW img, NEW ino, ino.i_blks \in Seq(Nat), NEW ib
    PROVE  AreLists(Lists(img, ino, ib), img, ino, ib)
<1>1. PICK m \in Nat : m = Len(ino.i_blks)
  OBVIOUS
<1>2. 0 \in 0..(m + 1) /\ m + 1 \in 0..(m + 1) /\ m + 1 # 0 /\ ~(m + 1 <= m)
      /\ \A j \in 1..m : j \in 0..(m + 1) /\ j # 0 /\ j <= m
  OBVIOUS
<1> QED
  BY <1>1, <1>2 DEF Lists, AreLists

\* As long as there is no index block there are two.
LEMMA TwoLists ==
    ASSUME NEW img, NEW ino, ino.i_blks = <<>>, NEW ib
    PROVE  /\ DOMAIN Lists(img, ino, ib) = {0, 1}
           /\ Lists(img, ino, ib)[0] = ino.d_blks
           /\ Lists(img, ino, ib)[1] = ib
<1>1. Len(ino.i_blks) = 0 /\ 0..(0 + 1) = {0, 1}
  OBVIOUS
<1> QED
  BY <1>1 DEF Lists

\* A file is begun.
LEMMA OpenSound ==
    ASSUME BuilderSound, F!Open
    PROVE  BuilderSound'
<1>1. step = "open" /\ UNCHANGED <<files, image, n, iblock, blk_idx>>
  BY DEF F!Open
<1>2. BuilderAt /\ BlocksOwned /\ (\A f \in 1..Written : InImage(image, files, f)) /\ ~Filling
  BY <1>1 DEF BuilderSound, Filling
<1>3. 0 \notin DOMAIN image
  BY <1>1, <1>2 DEF BuilderAt
<1>4. CASE files[n] > F!MaxFileSize
  <2>1. step' = "failed"
    BY <1>4 DEF F!Open
  <2> QED
    BY <1>1, <1>3, <2>1 DEF BuilderSound
<1>5. CASE ~(files[n] > F!MaxFileSize)
  <2>1. /\ step' = "direct" /\ read' = 0
        /\ inode' = [idx |-> n, inumber |-> n, file_sz |-> files[n],
                     next_inode |-> IF n = Len(files) THEN 0 ELSE n + 1,
                     blk_cnt |-> (files[n] + DataSize - 1) \div DataSize,
                     d_blks |-> <<>>, i_blks |-> <<>>]
    BY <1>5 DEF F!Open
  <2>2. files[n] \in Nat \cup {F!Missing} /\ iblock.blks = <<>>
    BY <1>1, <1>2 DEF BuilderAt
  <2>3. /\ inode'.idx = n /\ inode'.file_sz = files[n] /\ inode'.d_blks = <<>> /\ inode'.i_blks = <<>>
        /\ inode'.next_inode = (IF n = Len(files) THEN 0 ELSE n + 1)
        /\ inode'.blk_cnt = (files[n] + DataSize - 1) \div DataSize
        /\ DOMAIN inode' = Fields
    BY <2>1 DEF Fields
  <2>4. IsInode(image, files, n, inode')
    BY <2>3, BuilderAssumption DEF IsInode
  <2>5. Covers(image, files, n, Lists(image, inode', <<>>), 0)
    <3>1. /\ DOMAIN Lists(image, inode', <<>>) = {0, 1}
          /\ Lists(image, inode', <<>>)[0] = <<>>
          /\ Lists(image, inode', <<>>)[1] = <<>>
      BY <2>3, TwoLists
    <3>2. \A j \in DOMAIN Lists(image, inode', <<>>) : DOMAIN Lists(image, inode', <<>>)[j] = {}
      BY <3>1
    <3> QED
      BY <3>2 DEF Covers
  <2>6. files[n] <= F!MaxFileSize
    <3>1. F!MaxFileSize \in Int
      BY BuilderAssumption DEF F!MaxFileSize
    <3> QED
      BY <1>5, <2>2, <3>1 DEF F!Missing
  <2>7. files[n] # F!Missing => \/ 0 = files[n] /\ Whole(files[n], 0)
                                \/ 0 = 0 * DataSize /\ 0 < files[n]
    BY <2>2, BuilderAssumption DEF Whole
  <2>8. Underway(0)'
    BY <1>1, <2>1, <2>2, <2>3, <2>4, <2>5, <2>6, <2>7, BuilderAssumption DEF Underway
  <2>9. Written' = Written /\ Filling'
    BY <1>1, <2>1 DEF Written, Filling
  <2>10. BuilderAt'
    BY <1>1, <1>2, <2>1, <2>9 DEF BuilderAt
  <2>11. BlocksOwned'
    BY <1>1, <1>2, <2>9 DEF BlocksOwned
  <2>12. \A f \in 1..Written' : InImage(image', files', f)
    BY <1>1, <1>2, <2>9
  <2> QED
    BY <2>1, <2>8, <2>9, <2>10, <2>11, <2>12 DEF BuilderSound
<1> QED
  BY <1>4, <1>5

\* A direct block.
LEMMA DirectBlockSound ==
    ASSUME BuilderSound, F!DirectBlock
    PROVE  BuilderSound'
<1>1. /\ step = "direct" /\ F!WriteBlock /\ Len(inode.d_blks) < Direct
      /\ inode' = [inode EXCEPT !.d_blks = Append(inode.d_blks, blk_idx)]
      /\ UNCHANGED <<files, n, iblock, step>> /\ blk_idx' = blk_idx + 1
  BY DEF F!DirectBlock, F!WriteBlock
<1>2. Filling
  BY <1>1 DEF Filling
<1>3. PICK count \in Nat : Underway(count)
  BY <1>1, <1>2 DEF BuilderSound
<1>4. /\ Extends_(image, image') /\ DOMAIN image' = DOMAIN image \cup {blk_idx}
      /\ blk_idx \in Nat /\ Holds(image', files, blk_idx, n, count + 1)
      /\ files[n] \in Nat
      /\ \/ read' = files[n] /\ Whole(files[n], count + 1)
         \/ read' = (count + 1) * DataSize /\ read' < files[n]
  BY <1>1, <1>2, <1>3, NextOfFile
<1>5. /\ IsInode(image, files, n, inode)
      /\ inode.i_blks = <<>> /\ iblock.blks = <<>> /\ count = Len(inode.d_blks)
      /\ Covers(image, files, n, Lists(image, inode, <<>>), count)
      /\ files[n] <= F!MaxFileSize
  BY <1>1, <1>3 DEF Underway
<1>6. inode.d_blks \in Seq(Nat) /\ DOMAIN inode = Fields
  BY <1>5 DEF IsInode
<1>7. /\ DOMAIN inode' = Fields /\ inode'.d_blks = Append(inode.d_blks, blk_idx)
      /\ inode'.i_blks = inode.i_blks /\ inode'.idx = inode.idx
      /\ inode'.file_sz = inode.file_sz /\ inode'.next_inode = inode.next_inode
      /\ inode'.blk_cnt = inode.blk_cnt
  BY <1>1, <1>6 DEF Fields
<1>8. IsInode(image', files, n, inode) /\ Lists(image', inode, <<>>) = Lists(image, inode, <<>>)
  BY <1>4, <1>5, InodeStays
<1>9. inode'.d_blks \in Seq(Nat) /\ Len(inode'.d_blks) = count + 1 /\ count + 1 <= Direct
  BY <1>1, <1>4, <1>5, <1>6, <1>7, BuilderAssumption
<1>10. IsInode(image', files, n, inode')
  BY <1>7, <1>8, <1>9 DEF IsInode
<1>11. Covers(image', files, n, Lists(image', inode, <<>>), count)
  BY <1>4, <1>5, <1>8, CoverStays
<1>12. PICK lists, lists2 : lists = Lists(image', inode, <<>>) /\ lists2 = Lists(image', inode', <<>>)
  OBVIOUS
<1>13. /\ DOMAIN lists = {0, 1} /\ DOMAIN lists2 = {0, 1}
       /\ lists[0] = inode.d_blks /\ lists2[0] = inode'.d_blks
       /\ lists[1] = <<>> /\ lists2[1] = <<>>
  BY <1>5, <1>7, <1>12, TwoLists
<1>14. NumberOf(0, count + 1) = count + 1
  BY DEF NumberOf
<1>15. /\ Covers(image', files, n, lists2, count + 1)
       /\ Listed(lists2, blk_idx)
       /\ \A b : Listed(lists, b) => Listed(lists2, b)
  <2>1. Longer(lists, lists2, 0, blk_idx)
    BY <1>4, <1>6, <1>7, <1>13 DEF Longer
  <2>2. NumberOf(0, Len(lists[0]) + 1) = count + 1 /\ Covers(image', files, n, lists, count)
    BY <1>5, <1>11, <1>12, <1>13, <1>14
  <2>3. Covers(image', files, n, lists2, count + 1)
    BY <1>4, <2>1, <2>2, OneMoreBlock
  <2> QED
    BY <2>1, <2>3, LongerLists
<1>16. Underway(count + 1)'
  <2>1. /\ iblock'.blks \in Seq(Nat) /\ Len(iblock'.blks) <= PerIndirect
        /\ iblock'.blks = <<>> /\ inode'.i_blks = <<>> /\ step' = "direct"
    BY <1>1, <1>5, <1>7, BuilderAssumption
  <2>2. files[n] # F!Missing
    BY <1>4 DEF F!Missing
  <2>3. Covers(image', files, n, Lists(image', inode', iblock'.blks), count + 1)
    BY <1>12, <1>15, <2>1
  <2> QED
    BY <1>1, <1>4, <1>5, <1>9, <1>10, <2>1, <2>2, <2>3 DEF Underway
<1>17. /\ \A b : Owns(image, inode, iblock.blks, b) => Owns(image', inode', iblock'.blks, b)
       /\ Owns(image', inode', iblock'.blks, blk_idx)
  <2>1. /\ DOMAIN inode.i_blks = {} /\ iblock.blks = <<>> /\ iblock'.blks = <<>>
        /\ lists = Lists(image, inode, <<>>) /\ lists2 = Lists(image', inode', <<>>)
    BY <1>1, <1>5, <1>8, <1>12
  <2> QED
    BY <1>15, <2>1 DEF Owns
<1>18. count + 1 \in Nat
  OBVIOUS
<1> QED
  BY <1>1, <1>2, <1>4, <1>16, <1>17, <1>18, BlockWritten

\* The direct blocks are all used.
LEMMA ToIndirectSound ==
    ASSUME BuilderSound, F!ToIndirect
    PROVE  BuilderSound'
<1>1. /\ step = "direct" /\ step' = "indirect" /\ Len(inode.d_blks) = Direct
      /\ UNCHANGED <<files, image, n, read, inode, iblock, blk_idx>>
  BY DEF F!ToIndirect
<1>2. Filling /\ Filling' /\ Written' = Written
  BY <1>1 DEF Filling, Written
<1>3. BuilderAt /\ BlocksOwned /\ (\A f \in 1..Written : InImage(image, files, f))
  BY <1>1 DEF BuilderSound
<1>4. PICK count \in Nat : Underway(count)
  BY <1>1, <1>2 DEF BuilderSound
<1>5. /\ inode.i_blks = <<>> /\ iblock.blks = <<>> /\ count = Direct
      /\ files[n] # F!Missing
  BY <1>1, <1>4, BuilderAssumption DEF Underway
<1>6. count = Direct + Len(inode.i_blks) * PerIndirect + Len(iblock.blks)
  BY <1>5, BuilderAssumption
<1>7. Underway(count)'
  BY <1>1, <1>4, <1>5, <1>6 DEF Underway
<1>8. BuilderAt'
  BY <1>1, <1>2, <1>3 DEF BuilderAt
<1>9. BlocksOwned'
  BY <1>1, <1>2, <1>3 DEF BlocksOwned
<1>10. \A f \in 1..Written' : InImage(image', files', f)
  BY <1>1, <1>2, <1>3
<1> QED
  BY <1>1, <1>2, <1>7, <1>8, <1>9, <1>10 DEF BuilderSound

\* A block that an index block is to list.
LEMMA IndirectBlockSound ==
    ASSUME BuilderSound, F!IndirectBlock
    PROVE  BuilderSound'
<1>1. /\ step = "indirect" /\ F!WriteBlock /\ Len(iblock.blks) < PerIndirect
      /\ iblock' = [blks |-> Append(iblock.blks, blk_idx)]
      /\ UNCHANGED <<files, n, inode, step>> /\ blk_idx' = blk_idx + 1
  BY DEF F!IndirectBlock, F!WriteBlock
<1>2. Filling
  BY <1>1 DEF Filling
<1>3. PICK count \in Nat : Underway(count)
  BY <1>1, <1>2 DEF BuilderSound
<1>4. /\ Extends_(image, image') /\ DOMAIN image' = DOMAIN image \cup {blk_idx}
      /\ blk_idx \in Nat /\ Holds(image', files, blk_idx, n, count + 1)
      /\ files[n] \in Nat /\ read = count * DataSize /\ read < files[n]
      /\ \/ read' = files[n] /\ Whole(files[n], count + 1)
         \/ read' = (count + 1) * DataSize /\ read' < files[n]
  BY <1>1, <1>2, <1>3, NextOfFile
<1>5. /\ IsInode(image, files, n, inode)
      /\ iblock.blks \in Seq(Nat)
      /\ count = Direct + Len(inode.i_blks) * PerIndirect + Len(iblock.blks)
      /\ Len(inode.d_blks) = Direct
      /\ Covers(image, files, n, Lists(image, inode, iblock.blks), count)
      /\ files[n] <= F!MaxFileSize
  <2>1. count * DataSize \in Nat
    BY BuilderAssumption
  <2>2. read # files[n]
    BY <1>4, <2>1
  <2> QED
    BY <1>1, <1>3, <2>2 DEF Underway
<1>6. PICK m, ib, ib2 : m = Len(inode.i_blks) /\ ib = iblock.blks /\ ib2 = iblock'.blks
  OBVIOUS
<1>7. /\ ib \in Seq(Nat) /\ ib2 = Append(ib, blk_idx) /\ ib2 \in Seq(Nat)
      /\ Len(ib2) = Len(ib) + 1 /\ Len(ib2) <= PerIndirect /\ Len(ib) \in Nat
      /\ m \in Nat /\ inode.i_blks \in Seq(Nat)
  <2>1. inode.i_blks \in Seq(Nat)
    BY <1>5 DEF IsInode
  <2> QED
    BY <1>1, <1>4, <1>5, <1>6, <2>1, BuilderAssumption
<1>8. \A blks : /\ IsInode(image', files, n, inode)
                /\ Lists(image', inode, blks) = Lists(image, inode, blks)
  BY <1>4, <1>5, InodeStays
<1>9. PICK lists, lists2 : lists = Lists(image', inode, ib) /\ lists2 = Lists(image', inode, ib2)
  OBVIOUS
<1>10. Covers(image', files, n, lists, count)
  BY <1>4, <1>5, <1>6, <1>8, <1>9, CoverStays
<1>11. Longer(lists, lists2, m + 1, blk_idx)
  <2>2. /\ DOMAIN lists = 0..(m + 1) /\ DOMAIN lists2 = 0..(m + 1)
        /\ lists[m + 1] = ib /\ lists2[m + 1] = ib2
        /\ lists[0] = lists2[0]
        /\ \A j \in 1..m : lists[j] = lists2[j]
    <3>1. AreLists(lists, image', inode, ib) /\ AreLists(lists2, image', inode, ib2)
      BY <1>7, <1>9, ListsAre
    <3> QED
      BY <1>6, <3>1 DEF AreLists
  <2>3. m + 1 \in 0..(m + 1) /\ \A j \in 0..(m + 1) : j # m + 1 => j = 0 \/ j \in 1..m
    BY <1>7
  <2> QED
    BY <1>4, <1>7, <2>2, <2>3 DEF Longer
<1>12. lists[m + 1] = ib
  <2>1. AreLists(lists, image', inode, ib)
    BY <1>7, <1>9, ListsAre
  <2> QED
    BY <1>6, <2>1 DEF AreLists
<1>13. NumberOf(m + 1, Len(lists[m + 1]) + 1) = count + 1
  <2>1. PICK p \in Int, k \in Nat : p = m * PerIndirect /\ k = Len(ib)
    <3>1. m * PerIndirect \in Int /\ Len(ib) \in Nat
      BY <1>7, BuilderAssumption
    <3> QED
      BY <3>1
  <2>2. count = Direct + p + k
    BY <1>5, <1>6, <2>1
  <2>3. PICK j \in Nat, k2 \in Nat : j = m + 1 /\ k2 = k + 1
    BY <1>7
  <2>4. NumberOf(j, k2) = Direct + p + k2
    <3>1. j # 0 /\ j - 1 = m
      BY <1>7, <2>3
    <3>2. NumberOf(j, k2) = Direct + (j - 1) * PerIndirect + k2
      BY <3>1 DEF NumberOf
    <3> QED
      BY <2>1, <3>1, <3>2
  <2>5. m + 1 = j /\ Len(lists[m + 1]) + 1 = k2
    BY <1>12, <2>1, <2>3
  <2>6. Direct + p + k2 = count + 1
    <3>1. PICK dir \in Nat : dir = Direct
      BY BuilderAssumption
    <3>2. PICK p2 \in Int, k3 \in Nat : p2 = p /\ k3 = k
      BY <2>1
    <3>3. count = dir + p2 + k3
      BY <2>2, <3>1, <3>2
    <3>4. dir + p2 + (k3 + 1) = count + 1
      BY <3>3
    <3> QED
      BY <2>3, <3>1, <3>2, <3>4
  <2> QED
    BY <2>4, <2>5, <2>6
<1>14. Covers(image', files, n, lists2, count + 1)
  BY <1>4, <1>10, <1>11, <1>13, OneMoreBlock
<1>15. Listed(lists2, blk_idx) /\ \A b : Listed(lists, b) => Listed(lists2, b)
  BY <1>11, LongerLists
<1>16. Underway(count + 1)'
  <2>1. count + 1 = Direct + Len(inode.i_blks) * PerIndirect + Len(ib2)
    <3>1. PICK p \in Int, k \in Nat : p = Len(inode.i_blks) * PerIndirect /\ k = Len(ib)
      <4>1. m * PerIndirect \in Int /\ Len(ib) \in Nat
        BY <1>7, BuilderAssumption
      <4> QED
        BY <1>6, <4>1
    <3>2. count = Direct + p + k /\ Len(ib2) = k + 1
      BY <1>5, <1>6, <1>7, <3>1
    <3>3. count + 1 = Direct + p + (k + 1)
      BY <3>2, BuilderAssumption
    <3> QED
      BY <3>1, <3>2, <3>3
  <2>2. files[n] # F!Missing
    BY <1>4 DEF F!Missing
  <2>3. Covers(image', files, n, Lists(image', inode', iblock'.blks), count + 1)
    BY <1>1, <1>6, <1>9, <1>14
  <2>4. /\ iblock'.blks \in Seq(Nat) /\ Len(iblock'.blks) <= PerIndirect
        /\ count + 1 = Direct + Len(inode'.i_blks) * PerIndirect + Len(iblock'.blks)
        /\ IsInode(image', files', n', inode') /\ Len(inode'.d_blks) = Direct
    BY <1>1, <1>5, <1>6, <1>7, <1>8, <2>1
  <2> QED
    BY <1>1, <1>4, <1>5, <2>2, <2>3, <2>4 DEF Underway
<1>17. /\ \A b : Owns(image, inode, iblock.blks, b) => Owns(image', inode', iblock'.blks, b)
       /\ Owns(image', inode', iblock'.blks, blk_idx)
  <2>1. /\ inode' = inode /\ iblock.blks = ib /\ iblock'.blks = ib2
        /\ lists = Lists(image, inode, ib) /\ lists2 = Lists(image', inode, ib2)
    BY <1>1, <1>6, <1>8, <1>9
  <2> QED
    BY <1>15, <2>1 DEF Owns
<1>18. count + 1 \in Nat
  OBVIOUS
<1> QED
  BY <1>1, <1>2, <1>4, <1>16, <1>17, <1>18, BlockWritten

\* An index block.
LEMMA EndIblockSound ==
    ASSUME BuilderSound, F!EndIblock
    PROVE  BuilderSound'
<1>1. /\ step = "indirect" /\ iblock.blks # <<>>
      /\ Len(iblock.blks) = PerIndirect \/ F!Exhausted
      /\ F!Put(blk_idx, [idx |-> blk_idx, blks |-> iblock.blks])
      /\ inode' = [inode EXCEPT !.i_blks = Append(inode.i_blks, blk_idx)]
      /\ iblock'.blks = <<>> /\ blk_idx' = blk_idx + 1
      /\ UNCHANGED <<files, n, read, step>>
  BY DEF F!EndIblock, F!NoIblock
<1>2. Filling /\ BuilderAt
  BY <1>1 DEF Filling, BuilderSound
<1>3. PICK count \in Nat : Underway(count)
  BY <1>1, <1>2 DEF BuilderSound
<1>4. blk_idx \notin DOMAIN image /\ blk_idx \in Nat /\ blk_idx > Len(files)
  BY <1>1, <1>2, NextIsFree DEF BuilderAt
<1>5. PICK m \in Nat : m = Len(inode.i_blks)
  BY <1>3 DEF Underway, IsInode
<1> DEFINE ib == iblock.blks
<1>6. PICK record : record = [idx |-> blk_idx, blks |-> ib]
  OBVIOUS
<1>7. Extends_(image, image') /\ DOMAIN image' = DOMAIN image \cup {blk_idx} /\ image'[blk_idx] = record
  <2>1. F!Put(blk_idx, record)
    BY <1>1, <1>6
  <2> QED
    BY <1>4, <2>1, PutGrows
<1>8. /\ IsInode(image, files, n, inode)
      /\ ib \in Seq(Nat) /\ Len(ib) <= PerIndirect /\ ib # <<>>
      /\ count = Direct + m * PerIndirect + Len(ib)
      /\ Len(inode.d_blks) = Direct
      /\ Covers(image, files, n, Lists(image, inode, ib), count)
      /\ files[n] <= F!MaxFileSize
  BY <1>1, <1>3, <1>5 DEF Underway
<1>9. IsIndex(image', files, blk_idx)
  BY <1>4, <1>6, <1>7, <1>8 DEF IsIndex
<1>10. IsInode(image', files, n, inode) /\ Lists(image', inode, ib) = Lists(image, inode, ib)
  BY <1>7, <1>8, InodeStays
<1>11. /\ DOMAIN inode' = Fields /\ inode'.d_blks = inode.d_blks
       /\ inode'.i_blks = Append(inode.i_blks, blk_idx) /\ inode'.idx = inode.idx
       /\ inode'.file_sz = inode.file_sz /\ inode'.next_inode = inode.next_inode
       /\ inode'.blk_cnt = inode.blk_cnt /\ inode.i_blks \in Seq(Nat)
  BY <1>1, <1>8 DEF IsInode, Fields
<1>12. /\ inode'.i_blks \in Seq(Nat) /\ Len(inode'.i_blks) = m + 1
       /\ \A j \in 1..m : inode'.i_blks[j] = inode.i_blks[j]
       /\ inode'.i_blks[m + 1] = blk_idx
       /\ DOMAIN inode.i_blks = 1..m /\ DOMAIN inode'.i_blks = 1..(m + 1)
  BY <1>4, <1>5, <1>11
<1>13. 1..(m + 1) = (1..m) \cup {m + 1}
  OBVIOUS
<1>14. \A j \in DOMAIN inode'.i_blks : IsIndex(image', files, inode'.i_blks[j])
  BY <1>9, <1>10, <1>12, <1>13 DEF IsInode
<1>15. IsInode(image', files, n, inode')
  BY <1>10, <1>11, <1>12, <1>14 DEF IsInode
<1>16. PICK lists, lists2 : lists = Lists(image', inode, ib) /\ lists2 = Lists(image', inode', <<>>)
  OBVIOUS
<1>17. Covers(image', files, n, lists, count)
  BY <1>7, <1>8, <1>10, <1>16, CoverStays
<1>18. /\ DOMAIN lists = 0..(m + 1) /\ DOMAIN lists2 = 0..(m + 1 + 1) /\ lists2[m + 1 + 1] = <<>>
       /\ \A j \in 0..(m + 1) : lists2[j] = lists[j]
  <2>1. /\ DOMAIN lists = 0..(m + 1) /\ lists[0] = inode.d_blks /\ lists[m + 1] = ib
        /\ \A j \in 1..m : lists[j] = image'[inode.i_blks[j]].blks
    <3>1. AreLists(lists, image', inode, ib)
      BY <1>11, <1>16, ListsAre
    <3> QED
      BY <1>5, <3>1 DEF AreLists
  <2>2. PICK m2 \in Nat : m2 = m + 1
    OBVIOUS
  <2>3. /\ DOMAIN lists2 = 0..(m2 + 1) /\ lists2[0] = inode'.d_blks /\ lists2[m2 + 1] = <<>>
        /\ \A j \in 1..m2 : lists2[j] = image'[inode'.i_blks[j]].blks
    <3>1. AreLists(lists2, image', inode', <<>>)
      BY <1>12, <1>16, ListsAre
    <3> QED
      BY <1>12, <2>2, <3>1 DEF AreLists
  <2>4. lists2[m + 1] = ib
    BY <1>6, <1>7, <1>12, <2>2, <2>3
  <2>5. \A j \in 1..m : lists2[j] = lists[j]
    BY <1>12, <1>13, <2>1, <2>2, <2>3
  <2>6. \A j \in 0..(m + 1) : j = 0 \/ j = m + 1 \/ j \in 1..m
    OBVIOUS
  <2> QED
    BY <1>11, <2>1, <2>2, <2>3, <2>4, <2>5, <2>6
<1>19. Covers(image', files, n, lists2, count)
  BY <1>17, <1>18, OneMoreList
<1>20. \A b : Listed(lists, b) => Listed(lists2, b)
  <2>1. \A j \in DOMAIN lists : j \in DOMAIN lists2 /\ lists2[j] = lists[j]
    BY <1>18
  <2> QED
    BY <2>1 DEF Listed
<1>21. \/ count = Direct + Len(inode'.i_blks) * PerIndirect + 0
       \/ read' = files[n]
  <2>1. CASE F!Exhausted
    BY <1>1, <2>1 DEF F!Exhausted
  <2>2. CASE Len(ib) = PerIndirect
    <3>1. (m + 1) * PerIndirect = m * PerIndirect + PerIndirect
      BY BuilderAssumption
    <3>2. PICK p \in Nat, q \in Nat : p = m * PerIndirect /\ q = (m + 1) * PerIndirect
      BY BuilderAssumption
    <3> QED
      BY <1>8, <1>12, <2>2, <3>1, <3>2, BuilderAssumption
  <2> QED
    BY <1>1, <1>5, <2>1, <2>2
<1>22. Underway(count)'
  <2>1. /\ iblock'.blks \in Seq(Nat) /\ Len(iblock'.blks) = 0 /\ Len(iblock'.blks) <= PerIndirect
        /\ Covers(image', files, n, Lists(image', inode', iblock'.blks), count)
    BY <1>1, <1>16, <1>19, BuilderAssumption
  <2>2. files[n] # F!Missing /\ (\/ read = files[n] /\ Whole(files[n], count)
                                 \/ read = count * DataSize /\ read < files[n])
    BY <1>1, <1>3 DEF Underway
  <2> QED
    BY <1>1, <1>8, <1>11, <1>15, <1>21, <2>1, <2>2 DEF Underway
<1>23. /\ \A b : Owns(image, inode, iblock.blks, b) => Owns(image', inode', iblock'.blks, b)
       /\ Owns(image', inode', iblock'.blks, blk_idx)
  <2>1. /\ iblock.blks = ib /\ iblock'.blks = <<>>
        /\ lists = Lists(image, inode, ib) /\ lists2 = Lists(image', inode', <<>>)
    BY <1>1, <1>5, <1>10, <1>16
  <2>2. m + 1 \in DOMAIN inode'.i_blks /\ inode'.i_blks[m + 1] = blk_idx
    BY <1>12
  <2>3. \A j \in DOMAIN inode.i_blks : j \in DOMAIN inode'.i_blks /\ inode'.i_blks[j] = inode.i_blks[j]
    BY <1>12, <1>13
  <2> QED
    BY <1>20, <2>1, <2>2, <2>3 DEF Owns
<1> QED
  BY <1>1, <1>2, <1>7, <1>22, <1>23, BlockWritten

\* The end of a file, and its inode.
LEMMA WriteInodeSound ==
    ASSUME BuilderSound, F!WriteInode
    PROVE  BuilderSound'
<1>1. /\ F!Put(inode.idx, inode)
      /\ \/ n = Len(files) /\ step' = "super" /\ n' = n
         \/ n # Len(files) /\ step' = "open" /\ n' = n + 1
      /\ UNCHANGED <<files, read, inode, iblock, blk_idx>>
      /\ \/ step = "direct" /\ F!Exhausted /\ Len(inode.d_blks) < Direct
         \/ /\ step = "indirect" /\ iblock.blks = <<>>
            /\ F!Exhausted \/ Len(inode.i_blks) = Indirect
  BY DEF F!WriteInode
<1>2. Filling /\ BuilderAt /\ BlocksOwned /\ step \notin {"done", "failed"}
  BY <1>1 DEF Filling, BuilderSound
<1>3. PICK count \in Nat : Underway(count)
  BY <1>1, <1>2 DEF BuilderSound
<1>4. /\ IsInode(image, files, n, inode) /\ iblock.blks = <<>> /\ inode.idx = n
      /\ Covers(image, files, n, Lists(image, inode, <<>>), count)
      /\ files[n] <= F!MaxFileSize
  BY <1>1, <1>3 DEF Underway, IsInode
<1>5. PICK m \in Nat : m = Len(files)
  BY <1>2 DEF BuilderAt
<1>6. /\ n \notin DOMAIN image /\ 0 \notin DOMAIN image /\ n \in 1..m /\ Written = n - 1
      /\ DOMAIN image = (1..Written) \cup ((m + 1)..(blk_idx - 1))
      /\ blk_idx \in Nat /\ blk_idx > m /\ files \in Seq(Nat \cup {F!Missing})
      /\ files[n] \in Nat \cup {F!Missing}
  BY <1>1, <1>2, <1>5, NextIsFree DEF BuilderAt, Written
<1>7. Extends_(image, image') /\ DOMAIN image' = DOMAIN image \cup {n} /\ image'[n] = inode
  BY <1>1, <1>4, <1>6, PutGrows
<1>8. Whole(files[n], count)
  <2>1. files[n] # F!Missing
    BY <1>1, <1>3 DEF F!Exhausted, Underway
  <2>2. CASE F!Exhausted
    <3>1. read = files[n] /\ files[n] \in Nat
      BY <1>6, <2>1, <2>2 DEF F!Exhausted
    <3>2. ~(read < files[n])
      BY <3>1
    <3> QED
      BY <1>3, <2>1, <3>2 DEF Underway
  <2>3. CASE step = "indirect" /\ Len(inode.i_blks) = Indirect
    <3>1. Len(iblock.blks) = 0 /\ step # "direct"
      BY <1>4, <2>3
    <3>2. \/ Whole(files[n], count)
          \/ /\ read = count * DataSize /\ read < files[n]
             /\ count = Direct + Indirect * PerIndirect + 0
      <4>1. \/ read = files[n] /\ Whole(files[n], count)
            \/ read = count * DataSize /\ read < files[n]
        BY <1>3, <2>1 DEF Underway
      <4>2. \/ count = Direct + Len(inode.i_blks) * PerIndirect + Len(iblock.blks)
            \/ read = files[n]
        BY <1>3, <2>3 DEF Underway
      <4>3. read = files[n] => ~(read < files[n])
        BY <1>6, <2>1
      <4> QED
        BY <2>3, <3>1, <4>1, <4>2, <4>3
    <3>3. count = Direct + Indirect * PerIndirect + 0 => count * DataSize = F!MaxFileSize
      <4>1. PICK p \in Int : p = Indirect * PerIndirect
        BY BuilderAssumption
      <4>2. Direct + p + 0 = Direct + p
        BY <4>1, BuilderAssumption
      <4> QED
        BY <4>1, <4>2 DEF F!MaxFileSize
    <3>4. F!MaxFileSize \in Int
      BY BuilderAssumption DEF F!MaxFileSize
    <3> QED
      BY <1>4, <1>6, <2>1, <3>2, <3>3, <3>4
  <2> QED
    BY <1>1, <2>2, <2>3
<1>9. InImage(image', files, n)
  <2>1. /\ IsInode(image', files, n, inode)
        /\ Lists(image', inode, <<>>) = Lists(image, inode, <<>>)
    BY <1>4, <1>7, InodeStays
  <2>2. Covers(image', files, n, Lists(image', inode, <<>>), count)
    BY <1>4, <1>7, <2>1, CoverStays
  <2> QED
    BY <1>7, <1>8, <2>1, <2>2 DEF InImage
<1>10. \A f \in 1..Written : /\ InImage(image', files, f)
                             /\ \A b : Owns(image, image[f], <<>>, b) => Owns(image', image'[f], <<>>, b)
  BY <1>2, <1>7, FilesStay
<1>11. \A b : Owns(image, inode, <<>>, b) => Owns(image', image'[n], <<>>, b)
  <2>1. Lists(image', inode, <<>>) = Lists(image, inode, <<>>)
    BY <1>4, <1>7, InodeStays
  <2> QED
    BY <1>7, <2>1 DEF Owns
<1>12. Written' = n /\ ~Filling' /\ 1..n = (1..(n - 1)) \cup {n} /\ step' \in {"super", "open"}
  BY <1>1, <1>5, <1>6 DEF Written, Filling
<1>13. BuilderAt'
  <2>1. DOMAIN image' = (1..Written') \cup ((m + 1)..(blk_idx - 1)) \cup {}
    BY <1>6, <1>7, <1>12
  <2>2. 0 \notin DOMAIN image' /\ n' \in 1..m /\ (step' = "super" => n' = m)
    BY <1>1, <1>5, <1>6, <1>7
  <2> QED
    BY <1>1, <1>4, <1>5, <1>6, <1>12, <2>1, <2>2 DEF BuilderAt
<1>14. \A f \in 1..Written' : /\ InImage(image', files, f)
                              /\ f \in 1..Written \/ f = n
  BY <1>6, <1>9, <1>10, <1>12
<1>15. BlocksOwned'
  <2>1. ASSUME NEW b \in (m + 1)..(blk_idx - 1)
        PROVE  \E f \in 1..n : Owns(image', image'[f], <<>>, b)
    <3>1. \/ \E f \in 1..Written : Owns(image, image[f], <<>>, b)
          \/ Owns(image, inode, <<>>, b)
      BY <1>2, <1>4, <1>5 DEF BlocksOwned
    <3>2. n \in 1..n /\ \A f \in 1..Written : f \in 1..n
      BY <1>6
    <3> QED
      BY <1>10, <1>11, <3>1, <3>2
  <2> QED
    BY <1>1, <1>5, <1>12, <2>1 DEF BlocksOwned
<1> QED
  BY <1>1, <1>12, <1>13, <1>14, <1>15 DEF BuilderSound

\* The superblock is written last.
LEMMA SuperblockSound ==
    ASSUME BuilderSound, F!WriteSuperblock
    PROVE  BuilderSound'
<1>1. /\ step = "super" /\ step' = "done"
      /\ F!Put(0, [blk_cnt |-> blk_idx, inode_idx |-> 1, inode_cnt |-> Len(files)])
      /\ UNCHANGED <<files, n, read, inode, iblock, blk_idx>>
  BY DEF F!WriteSuperblock
<1>2. BuilderAt /\ BlocksOwned
  BY <1>1 DEF BuilderSound
<1>3. 0 \notin DOMAIN image /\ DOMAIN image = (1..Written) \cup ((Len(files) + 1)..(blk_idx - 1))
  BY <1>1, <1>2, NextIsFree
<1>4. PICK record : record = [blk_cnt |-> blk_idx, inode_idx |-> 1, inode_cnt |-> Len(files)]
  OBVIOUS
<1>5. Extends_(image, image') /\ DOMAIN image' = DOMAIN image \cup {0} /\ image'[0] = record
  BY <1>1, <1>3, <1>4, PutGrows
<1>6. Written' = Written /\ ~Filling /\ ~Filling'
  BY <1>1 DEF Written, Filling
<1>7. \A f \in 1..Written : /\ InImage(image', files, f)
                            /\ \A b : Owns(image, image[f], <<>>, b) => Owns(image', image'[f], <<>>, b)
  BY <1>1, <1>5, FilesStay
<1>8. BuilderAt'
  BY <1>1, <1>2, <1>3, <1>4, <1>5, <1>6 DEF BuilderAt
<1>9. BlocksOwned'
  <2>1. ASSUME NEW b \in (Len(files) + 1)..(blk_idx - 1)
        PROVE  \E f \in 1..Written : Owns(image', image'[f], <<>>, b)
    BY <1>2, <1>6, <1>7 DEF BlocksOwned
  <2> QED
    BY <1>1, <1>6, <2>1 DEF BlocksOwned
<1> QED
  BY <1>1, <1>6, <1>7, <1>8, <1>9 DEF BuilderSound

\* Every step of the builder keeps its invariant.
LEMMA BuildNext ==
    ASSUME BuilderSound, F!Next
    PROVE  BuilderSound'
<1>1. CASE F!ReadFails
  <2>1. step' = "failed" /\ image' = image /\ step \in {"direct", "indirect"}
    BY <1>1 DEF F!ReadFails
  <2>2. 0 \notin DOMAIN image
    BY <2>1 DEF BuilderSound, BuilderAt
  <2> QED
    BY <2>1, <2>2 DEF BuilderSound
<1> QED
  BY <1>1, OpenSound, DirectBlockSound, ToIndirectSound, IndirectBlockSound, EndIblockSound,
     WriteInodeSound, SuperblockSound DEF F!Next

\* The builder starts with it.
LEMMA BuildInit ==
    ASSUME F!Init
    PROVE  BuilderSound
<1>1. PICK m \in 1..MaxFiles : files \in [1..m -> Sizes \cup {F!Missing}]
  BY DEF F!Init
<1>2. CASE m \in Nat /\ m > 0
  <2>1. files \in Seq(Nat \cup {F!Missing}) /\ Len(files) = m
    <3>1. PICK sizes : sizes = Nat \cup {F!Missing}
      OBVIOUS
    <3>2. files \in [1..m -> sizes]
      <4>1. \A f \in 1..m : files[f] \in sizes
        BY <1>1, <3>1, BuilderAssumption
      <4> QED
        BY <1>1, <4>1
    <3> QED
      BY <1>2, <3>1, <3>2
  <2>2. /\ n = 1 /\ step = "open" /\ iblock.blks = <<>> /\ blk_idx = m + 1
        /\ DOMAIN image = {}
    BY <2>1 DEF F!Init, F!NoIblock
  <2>3. Written = 0 /\ ~Filling /\ 1..0 = {} /\ (m + 1)..(blk_idx - 1) = {}
    BY <1>2, <2>2 DEF Written, Filling
  <2>4. BuilderAt
    BY <1>2, <2>1, <2>2, <2>3 DEF BuilderAt
  <2> QED
    BY <2>1, <2>2, <2>3, <2>4 DEF BuilderSound, BlocksOwned
<1> QED
  BY <1>1, <1>2

-----------------------------------------------------------------------------
(* What the invariant of the builder says of the finished image.           *)

\* Multiples are apart.
LEMMA Multiples ==
    ASSUME NEW p \in Nat, NEW a \in Nat, NEW b \in Nat, a < b
    PROVE  a * p + p <= b * p
<1>1. PICK k \in Nat : b = a + 1 + k
  <2>1. b - a - 1 \in Nat
    OBVIOUS
  <2> QED
    BY <2>1
<1>2. b * p = a * p + p + k * p
  BY <1>1
<1>3. k * p \in Nat /\ a * p \in Nat
  BY <1>1
<1> QED
  BY <1>2, <1>3

\* The count of blocks that is in the inode.
LEMMA CountOf ==
    ASSUME NEW size, NEW count \in Nat, Whole(size, count)
    PROVE  /\ (size + DataSize - 1) \div DataSize = count
           /\ \E missing \in 0..(DataSize - 1) : count * DataSize = size + missing
<1>1. PICK d \in Nat \ {0} : d = DataSize
  BY BuilderAssumption
<1>2. size \in Nat
  BY DEF Whole
<1>3. PICK p \in Nat : p = count * d
  BY <1>1
<1>4. size <= p /\ p < size + d
  <2>1. size <= p
    BY <1>1, <1>3 DEF Whole
  <2>2. CASE count = 0
    <3>1. p = 0
      BY <1>1, <1>3, <2>2
    <3> QED
      BY <1>1, <1>2, <2>1, <3>1
  <2>3. CASE count # 0
    <3>1. (count - 1) * d < size
      BY <1>1, <2>3 DEF Whole
    <3>2. PICK k \in Nat : k = count - 1
      BY <2>3
    <3>3. PICK q \in Nat : q = k * d
      BY <1>1, <3>2
    <3>4. p = q + d
      <4>1. count = k + 1
        BY <3>2
      <4> QED
        BY <1>1, <1>3, <3>3, <4>1
    <3>5. q < size
      BY <3>1, <3>2, <3>3
    <3> QED
      BY <1>1, <1>2, <2>1, <3>4, <3>5
  <2> QED
    BY <2>2, <2>3
<1>5. PICK missing \in 0..(d - 1) : p = size + missing
  <2>1. p - size \in 0..(d - 1) /\ p = size + (p - size)
    BY <1>1, <1>2, <1>3, <1>4
  <2> QED
    BY <2>1
<1>6. PICK r \in 0..(d - 1) : size + d - 1 = p + r
  <2>1. d - 1 - missing \in 0..(d - 1) /\ size + d - 1 = p + (d - 1 - missing)
    BY <1>2, <1>3, <1>5
  <2> QED
    BY <2>1
<1>7. (d * count + r) \div d = count
  OBVIOUS
<1>8. d * count = p
  BY <1>3
<1> QED
  BY <1>1, <1>3, <1>5, <1>6, <1>7, <1>8

\* A part of a file begins with the byte at its place.
LEMMA FirstByte ==
    ASSUME NEW sizes, NEW f, NEW count \in Nat, Whole(sizes[f], count), NEW num \in 1..count
    PROVE  PartOf(sizes, f, num)[1] = <<f, (num - 1) * DataSize + 1>>
<1>1. PICK d \in Nat \ {0}, size \in Nat : d = DataSize /\ size = sizes[f]
  BY BuilderAssumption DEF Whole
<1>2. PICK k \in Nat, p \in Nat, q \in Nat : k = num - 1 /\ p = k * d /\ q = num * d
  <2>1. num - 1 \in Nat /\ (num - 1) * d \in Nat /\ num * d \in Nat
    BY <1>1
  <2> QED
    BY <2>1
<1>3. q = p + d
  <2>1. num = k + 1
    BY <1>2
  <2> QED
    BY <1>1, <1>2, <2>1
<1>4. p < size
  <2>1. PICK c \in Nat, r \in Nat : c = count - 1 /\ r = c * d
    <3>1. count - 1 \in Nat /\ (count - 1) * d \in Nat
      BY <1>1
    <3> QED
      BY <3>1
  <2>2. r < size
    BY <1>1, <2>1 DEF Whole
  <2>3. p <= r
    <3>1. k = c \/ k < c
      BY <1>2, <2>1
    <3>2. k < c => p + d <= r
      BY <1>1, <1>2, <2>1, Multiples
    <3> QED
      BY <1>1, <1>2, <2>1, <3>1, <3>2
  <2> QED
    BY <1>2, <2>1, <2>2, <2>3
<1>5. PICK last \in Nat : last = IF q < size THEN q ELSE size
  BY <1>1, <1>2
<1>6. p + 1 <= last /\ last <= size
  BY <1>1, <1>2, <1>3, <1>4, <1>5
<1>7. PICK s : s = F!Content(f, size)
  OBVIOUS
<1>8. s \in Seq({f} \X Nat) /\ Len(s) = size /\ \A i \in 1..size : s[i] = <<f, i>>
  BY <1>1, <1>7 DEF F!Content
<1>9. PartOf(sizes, f, num) = SubSeq(s, p + 1, last)
  BY <1>1, <1>2, <1>5, <1>7 DEF PartOf
<1>10. SubSeq(s, p + 1, last)[1] = s[p + 1]
  <2>1. p + 1 \in 1..(Len(s) + 1) /\ last \in (p + 1 - 1)..Len(s)
    BY <1>1, <1>2, <1>5, <1>6, <1>8
  <2>2. \A i \in 1..(last - (p + 1) + 1) : SubSeq(s, p + 1, last)[i] = s[p + 1 + i - 1]
    BY <1>8, <2>1, SubSeqProperties
  <2>3. 1 \in 1..(last - (p + 1) + 1) /\ p + 1 + 1 - 1 = p + 1
    BY <1>2, <1>5, <1>6
  <2> QED
    BY <2>2, <2>3
<1>11. s[p + 1] = <<f, p + 1>>
  <2>1. p + 1 \in 1..size
    BY <1>1, <1>2, <1>5, <1>6
  <2> QED
    BY <1>8, <2>1
<1> QED
  BY <1>1, <1>2, <1>9, <1>10, <1>11

\* No two parts of a file begin at the same place.
LEMMA SamePlace ==
    ASSUME NEW num \in Nat, NEW num2 \in Nat,
           (num - 1) * DataSize + 1 = (num2 - 1) * DataSize + 1
    PROVE  num = num2
<1>1. PICK d \in Nat \ {0} : d = DataSize
  BY BuilderAssumption
<1>2. PICK a \in Int, b \in Int : a = num - 1 /\ b = num2 - 1
  OBVIOUS
<1>3. PICK c \in Int : c = a - b
  BY <1>2
<1>4. c * d = 0
  <2>1. PICK p \in Int, q \in Int : p = a * d /\ q = b * d
    BY <1>1, <1>2
  <2>2. p + 1 = q + 1
    BY <1>1, <1>2, <2>1
  <2>3. c * d = a * d - b * d
    BY <1>1, <1>2, <1>3
  <2> QED
    BY <2>1, <2>2, <2>3
<1>5. c = 0
  BY <1>1, <1>3, <1>4
<1> QED
  BY <1>2, <1>3, <1>5

\* A list is no longer than there is room for.
InList(j, k) ==
    j \in Nat /\ k \in Nat \ {0} /\ IF j = 0 THEN k <= Direct ELSE k <= PerIndirect

\* A block has one number.
LEMMA NumbersDiffer ==
    ASSUME NEW j, NEW k, InList(j, k), NEW j2, NEW k2, InList(j2, k2),
           NumberOf(j, k) = NumberOf(j2, k2)
    PROVE  j = j2 /\ k = k2
<1>0. /\ j \in Nat /\ k \in Nat \ {0} /\ j2 \in Nat /\ k2 \in Nat \ {0}
      /\ IF j = 0 THEN k <= Direct ELSE k <= PerIndirect
      /\ IF j2 = 0 THEN k2 <= Direct ELSE k2 <= PerIndirect
  BY DEF InList
<1>1. PICK dir \in Nat, per \in Nat : dir = Direct /\ per = PerIndirect
  BY BuilderAssumption
<1>2. CASE j = 0 /\ j2 = 0
  BY <1>0, <1>2 DEF NumberOf
<1>3. ASSUME NEW a \in Nat, NEW x \in Nat \ {0}, a # 0
      PROVE  NumberOf(a, x) > dir
  <2>1. PICK b \in Nat, p \in Nat : b = a - 1 /\ p = b * per
    <3>1. a - 1 \in Nat /\ (a - 1) * per \in Nat
      BY <1>1, <1>3
    <3> QED
      BY <3>1
  <2>2. NumberOf(a, x) = dir + p + x
    BY <1>1, <1>3, <2>1 DEF NumberOf
  <2> QED
    BY <1>1, <2>1, <2>2
<1>4. CASE j = 0 /\ j2 # 0
  BY <1>0, <1>1, <1>3, <1>4 DEF NumberOf
<1>5. CASE j # 0 /\ j2 = 0
  BY <1>0, <1>1, <1>3, <1>5 DEF NumberOf
<1>6. CASE j # 0 /\ j2 # 0
  <2>1. PICK a \in Nat, b \in Nat : a = j - 1 /\ b = j2 - 1
    BY <1>0, <1>6
  <2>2. PICK p \in Nat, q \in Nat : p = a * per /\ q = b * per
    BY <1>1, <2>1
  <2>3. NumberOf(j, k) = dir + p + k /\ NumberOf(j2, k2) = dir + q + k2
    BY <1>0, <1>1, <1>6, <2>1, <2>2 DEF NumberOf
  <2>4. p + k = q + k2
    <3>1. dir + p + k = dir + q + k2
      BY <2>3
    <3> QED
      BY <1>0, <1>1, <2>2, <3>1
  <2>5. k <= per /\ k2 <= per
    BY <1>0, <1>1, <1>6
  <2>6. (a < b => p + per <= q) /\ (b < a => q + per <= p)
    BY <1>1, <2>1, <2>2, Multiples
  <2>7. a = b
    BY <1>0, <1>1, <2>1, <2>2, <2>4, <2>5, <2>6
  <2> QED
    BY <1>0, <2>1, <2>2, <2>4, <2>7
<1> QED
  BY <1>2, <1>4, <1>5, <1>6

\* The lists of blocks of a file that has been written.
ListsOf(f) == Lists(image, image[f], <<>>)

\* Where the block at a place of a list is, and how far its list goes.
LEMMA Places ==
    ASSUME NEW f, InImage(image, files, f),
           NEW j \in DOMAIN ListsOf(f), NEW k \in DOMAIN ListsOf(f)[j]
    PROVE  /\ InList(j, k)
           /\ IF j = 0 THEN ListsOf(f)[j] = image[f].d_blks /\ k \in 1..Len(image[f].d_blks)
              ELSE /\ j \in 1..Len(image[f].i_blks)
                   /\ ListsOf(f)[j] = image[image[f].i_blks[j]].blks
                   /\ k \in 1..Len(image[image[f].i_blks[j]].blks)
<1>1. PICK m \in Nat : m = Len(image[f].i_blks)
  BY DEF InImage, IsInode
<1>2. IsInode(image, files, f, image[f])
  BY DEF InImage
<1>3. AreLists(ListsOf(f), image, image[f], <<>>)
  BY <1>2, ListsAre DEF IsInode, ListsOf
<1>4. j \in 0..(m + 1)
  BY <1>1, <1>3 DEF AreLists
<1>5. CASE j = 0
  <2>1. ListsOf(f)[j] = image[f].d_blks
    BY <1>3, <1>5 DEF AreLists
  <2>2. image[f].d_blks \in Seq(Nat) /\ Len(image[f].d_blks) <= Direct
    BY <1>2 DEF IsInode
  <2>3. k \in 1..Len(image[f].d_blks)
    BY <2>1, <2>2
  <2> QED
    BY <1>5, <2>1, <2>2, <2>3, BuilderAssumption DEF InList
<1>6. CASE j \in 1..m
  <2>1. ListsOf(f)[j] = image[image[f].i_blks[j]].blks
    BY <1>1, <1>3, <1>6 DEF AreLists
  <2>2. IsIndex(image, files, image[f].i_blks[j])
    BY <1>1, <1>2, <1>6 DEF IsInode
  <2>3. PICK blks \in Seq(Nat) : /\ blks = image[image[f].i_blks[j]].blks
                                 /\ Len(blks) <= PerIndirect
    BY <2>2 DEF IsIndex
  <2>4. k \in 1..Len(blks)
    BY <2>1, <2>3
  <2> QED
    BY <1>1, <1>6, <2>1, <2>3, <2>4, BuilderAssumption DEF InList
<1>7. CASE j = m + 1
  <2>1. ListsOf(f)[j] = <<>>
    BY <1>1, <1>3, <1>7 DEF AreLists
  <2> QED
    BY <2>1
<1> QED
  BY <1>4, <1>5, <1>6, <1>7

\* What an index block lists are places too, and so is what an inode lists.
LEMMA PlacesMade ==
    ASSUME NEW f, InImage(image, files, f)
    PROVE  /\ \A k \in 1..Len(image[f].d_blks) :
                 0 \in DOMAIN ListsOf(f) /\ k \in DOMAIN ListsOf(f)[0]
           /\ \A j \in 1..Len(image[f].i_blks) :
                 \A k \in 1..Len(image[image[f].i_blks[j]].blks) :
                    /\ j \in DOMAIN ListsOf(f) /\ k \in DOMAIN ListsOf(f)[j]
                    /\ ListsOf(f)[j] = image[image[f].i_blks[j]].blks
<1>1. PICK m \in Nat : m = Len(image[f].i_blks)
  BY DEF InImage, IsInode
<1>2. IsInode(image, files, f, image[f])
  BY DEF InImage
<1>3. AreLists(ListsOf(f), image, image[f], <<>>)
  BY <1>2, ListsAre DEF IsInode, ListsOf
<1>4. \A k \in 1..Len(image[f].d_blks) : 0 \in DOMAIN ListsOf(f) /\ k \in DOMAIN ListsOf(f)[0]
  <2>1. 0 \in DOMAIN ListsOf(f) /\ ListsOf(f)[0] = image[f].d_blks
    BY <1>1, <1>3 DEF AreLists
  <2>2. PICK blks \in Seq(Nat) : blks = image[f].d_blks
    BY <1>2 DEF IsInode
  <2> QED
    BY <2>1, <2>2
<1>5. ASSUME NEW j \in 1..m, NEW k \in 1..Len(image[image[f].i_blks[j]].blks)
      PROVE  /\ j \in DOMAIN ListsOf(f) /\ k \in DOMAIN ListsOf(f)[j]
             /\ ListsOf(f)[j] = image[image[f].i_blks[j]].blks
  <2>1. j \in DOMAIN ListsOf(f) /\ ListsOf(f)[j] = image[image[f].i_blks[j]].blks
    BY <1>1, <1>3 DEF AreLists
  <2>2. IsIndex(image, files, image[f].i_blks[j])
    BY <1>1, <1>2 DEF IsInode
  <2>3. PICK blks \in Seq(Nat) : blks = image[image[f].i_blks[j]].blks
    BY <2>2 DEF IsIndex
  <2> QED
    BY <2>1, <2>3
<1> QED
  BY <1>1, <1>4, <1>5

\* A use of a block is that of an inode, of an index block or of a place of a list.
IndexUse(f, use, j) ==
    /\ j \in 1..Len(image[f].i_blks) /\ use = <<f, j, 0>>
    /\ F!At(use) = image[f].i_blks[j] /\ IsIndex(image, files, F!At(use))
DataUse(f, use, j, k) ==
    /\ j \in DOMAIN ListsOf(f) /\ k \in DOMAIN ListsOf(f)[j] /\ use = <<f, j, k>>
    /\ F!At(use) = ListsOf(f)[j][k] /\ F!Number(use) = NumberOf(j, k)

\* A place of a list is one use.
LEMMA PlaceUse ==
    ASSUME NEW f, InImage(image, files, f),
           NEW j \in DOMAIN ListsOf(f), NEW k \in DOMAIN ListsOf(f)[j]
    PROVE  <<f, j, k>> \in F!Holding(F!Uses(f)) /\ DataUse(f, <<f, j, k>>, j, k)
<1>1. k # 0 /\ IF j = 0 THEN ListsOf(f)[j] = image[f].d_blks
               ELSE ListsOf(f)[j] = image[image[f].i_blks[j]].blks
  BY Places DEF InList
<1>2. F!At(<<f, j, k>>) = ListsOf(f)[j][k]
  BY <1>1 DEF F!At
<1>3. F!Number(<<f, j, k>>) = NumberOf(j, k)
  BY DEF F!Number, NumberOf
<1>4. <<f, j, k>> \in F!Uses(f)
  <2>1. CASE j = 0
    <3>1. k \in 1..Len(image[f].d_blks)
      BY <2>1, Places
    <3>2. k \in 0..Len(image[f].d_blks)
      BY <3>1
    <3> QED
      BY <2>1, <3>2 DEF F!Uses
  <2>2. CASE j # 0
    <3>1. /\ j \in 1..Len(image[f].i_blks)
          /\ k \in 1..Len(image[image[f].i_blks[j]].blks)
      BY <2>2, Places
    <3>2. j \in DOMAIN image[f].i_blks /\ k \in 0..Len(image[image[f].i_blks[j]].blks)
      BY <3>1 DEF InImage, IsInode
    <3> QED
      BY <3>2 DEF F!Uses
  <2> QED
    BY <2>1, <2>2
<1>5. <<f, j, k>>[3] # 0
  BY <1>1
<1> QED
  BY <1>2, <1>3, <1>4, <1>5 DEF F!Holding, DataUse

\* An index block is one use, and so is the inode.
LEMMA IndexUsed ==
    ASSUME NEW f, InImage(image, files, f)
    PROVE  /\ <<f, 0, 0>> \in F!Uses(f) /\ F!At(<<f, 0, 0>>) = f
           /\ \A j \in 1..Len(image[f].i_blks) :
                 <<f, j, 0>> \in F!Uses(f) /\ IndexUse(f, <<f, j, 0>>, j)
<1>1. IsInode(image, files, f, image[f])
  BY DEF InImage
<1>2. <<f, 0, 0>> \in F!Uses(f) /\ F!At(<<f, 0, 0>>) = f
  <2>1. 0 \in 0..Len(image[f].d_blks)
    <3>1. Len(image[f].d_blks) \in Nat
      BY <1>1 DEF IsInode
    <3> QED
      BY <3>1
  <2> QED
    BY <2>1 DEF F!Uses, F!At
<1>3. ASSUME NEW j \in 1..Len(image[f].i_blks)
      PROVE  <<f, j, 0>> \in F!Uses(f) /\ IndexUse(f, <<f, j, 0>>, j)
  <2>1. j \in DOMAIN image[f].i_blks /\ j # 0
    BY <1>1 DEF IsInode
  <2>2. IsIndex(image, files, image[f].i_blks[j])
    BY <1>1, <2>1 DEF IsInode
  <2>3. 0 \in 0..Len(image[image[f].i_blks[j]].blks)
    <3>1. Len(image[image[f].i_blks[j]].blks) \in Nat
      BY <2>2 DEF IsIndex
    <3> QED
      BY <3>1
  <2>4. F!At(<<f, j, 0>>) = image[f].i_blks[j]
    BY <2>1 DEF F!At
  <2> QED
    BY <2>1, <2>2, <2>3, <2>4 DEF F!Uses, IndexUse
<1> QED
  BY <1>2, <1>3

\* There are no other uses.
LEMMA UseKinds ==
    ASSUME NEW f, InImage(image, files, f), NEW use \in F!Uses(f)
    PROVE  \/ use = <<f, 0, 0>> /\ F!At(use) = f
           \/ \E j : IndexUse(f, use, j)
           \/ \E j, k : DataUse(f, use, j, k)
<1>1. IsInode(image, files, f, image[f])
  BY DEF InImage
<1>2. CASE \E k \in 0..Len(image[f].d_blks) : use = <<f, 0, k>>
  <2>1. PICK k \in 0..Len(image[f].d_blks) : use = <<f, 0, k>>
    BY <1>2
  <2>2. CASE k = 0
    BY <2>1, <2>2, IndexUsed
  <2>3. CASE k # 0
    <3>1. k \in 1..Len(image[f].d_blks)
      BY <1>1, <2>3 DEF IsInode
    <3>2. 0 \in DOMAIN ListsOf(f) /\ k \in DOMAIN ListsOf(f)[0]
      BY <3>1, PlacesMade
    <3>3. DataUse(f, use, 0, k)
      BY <2>1, <3>2, PlaceUse
    <3> QED
      BY <3>3
  <2> QED
    BY <2>2, <2>3
<1>3. CASE \E j \in DOMAIN image[f].i_blks :
              \E k \in 0..Len(image[image[f].i_blks[j]].blks) : use = <<f, j, k>>
  <2>0. PICK j \in DOMAIN image[f].i_blks :
           \E k \in 0..Len(image[image[f].i_blks[j]].blks) : use = <<f, j, k>>
    BY <1>3
  <2>1. PICK k \in 0..Len(image[image[f].i_blks[j]].blks) : use = <<f, j, k>>
    BY <2>0
  <2>2. j \in 1..Len(image[f].i_blks)
    BY <1>1 DEF IsInode
  <2>3. CASE k = 0
    BY <2>1, <2>2, <2>3, IndexUsed
  <2>4. CASE k # 0
    <3>1. Len(image[image[f].i_blks[j]].blks) \in Nat
      BY <1>1 DEF IsInode, IsIndex
    <3>2. k \in 1..Len(image[image[f].i_blks[j]].blks)
      BY <2>4, <3>1
    <3>3. j \in DOMAIN ListsOf(f) /\ k \in DOMAIN ListsOf(f)[j]
      BY <2>2, <3>2, PlacesMade
    <3>4. DataUse(f, use, j, k)
      BY <2>1, <3>3, PlaceUse
    <3> QED
      BY <3>4
  <2> QED
    BY <2>3, <2>4
<1> QED
  BY <1>2, <1>3 DEF F!Uses

\* The block at a place holds what has the number of the place.
LEMMA DataHeld ==
    ASSUME NEW f, InImage(image, files, f),
           NEW j \in DOMAIN ListsOf(f), NEW k \in DOMAIN ListsOf(f)[j]
    PROVE  /\ Holds(image, files, ListsOf(f)[j][k], f, NumberOf(j, k))
           /\ \E count \in Nat : Whole(files[f], count) /\ NumberOf(j, k) \in 1..count
<1>1. PICK count \in Nat : Whole(files[f], count) /\ Covers(image, files, f, ListsOf(f), count)
  BY DEF InImage, ListsOf
<1> QED
  BY <1>1 DEF Covers

\* No two places have the same block.
LEMMA DataOnce ==
    ASSUME NEW f, InImage(image, files, f),
           NEW j \in DOMAIN ListsOf(f), NEW k \in DOMAIN ListsOf(f)[j],
           NEW f2, InImage(image, files, f2),
           NEW j2 \in DOMAIN ListsOf(f2), NEW k2 \in DOMAIN ListsOf(f2)[j2],
           ListsOf(f)[j][k] = ListsOf(f2)[j2][k2]
    PROVE  f = f2 /\ j = j2 /\ k = k2
<1>1. PICK b : b = ListsOf(f)[j][k] /\ b = ListsOf(f2)[j2][k2]
  OBVIOUS
<1>2. PICK num, num2 : num = NumberOf(j, k) /\ num2 = NumberOf(j2, k2)
  OBVIOUS
<1>3. Holds(image, files, b, f, num) /\ \E count \in Nat : Whole(files[f], count) /\ num \in 1..count
  BY <1>1, <1>2, DataHeld
<1>4. /\ Holds(image, files, b, f2, num2)
      /\ \E count \in Nat : Whole(files[f2], count) /\ num2 \in 1..count
  BY <1>1, <1>2, DataHeld
<1>5. image[b].data = PartOf(files, f, num) /\ image[b].data = PartOf(files, f2, num2)
  BY <1>3, <1>4 DEF Holds
<1>6. PICK count \in Nat : Whole(files[f], count) /\ num \in 1..count
  BY <1>3
<1>7. PICK count2 \in Nat : Whole(files[f2], count2) /\ num2 \in 1..count2
  BY <1>4
<1>8. f = f2 /\ num = num2
  <2>1. PICK byte, byte2 : /\ byte = PartOf(files, f, num)[1]
                           /\ byte2 = PartOf(files, f2, num2)[1]
    OBVIOUS
  <2>2. byte = <<f, (num - 1) * DataSize + 1>> /\ byte2 = <<f2, (num2 - 1) * DataSize + 1>>
    BY <1>6, <1>7, <2>1, FirstByte
  <2>3. byte = byte2
    BY <1>5, <2>1
  <2> QED
    BY <1>6, <1>7, <2>2, <2>3, SamePlace
<1>9. InList(j, k) /\ InList(j2, k2)
  BY Places
<1>10. NumberOf(j, k) = NumberOf(j2, k2)
  BY <1>2, <1>8
<1>11. j = j2 /\ k = k2
  BY <1>9, <1>10, NumbersDiffer
<1> QED
  BY <1>8, <1>11

\* Inodes are in front, and no block is both data and an index.
LEMMA KindsDiffer ==
    ASSUME NEW b, NEW f, NEW num, Holds(image, files, b, f, num)
    PROVE  ~IsIndex(image, files, b)
<1>1. "data" \in DOMAIN image[b]
  BY DEF Holds
<1>2. IsIndex(image, files, b) => DOMAIN image[b] = {"idx", "blks"}
  BY DEF IsIndex
<1> QED
  BY <1>1, <1>2

\* No two indices are the same block: they would list the same one first.
LEMMA IndexOnce ==
    ASSUME NEW f, InImage(image, files, f), NEW use, NEW j, IndexUse(f, use, j),
           NEW f2, InImage(image, files, f2), NEW use2, NEW j2, IndexUse(f2, use2, j2),
           F!At(use) = F!At(use2)
    PROVE  use = use2
<1>1. PICK b : b = F!At(use) /\ b = F!At(use2)
  OBVIOUS
<1>2. /\ j \in 1..Len(image[f].i_blks) /\ j2 \in 1..Len(image[f2].i_blks)
      /\ image[f].i_blks[j] = b /\ image[f2].i_blks[j2] = b
      /\ use = <<f, j, 0>> /\ use2 = <<f2, j2, 0>>
      /\ IsIndex(image, files, b)
  BY <1>1 DEF IndexUse
<1>3. 1 \in 1..Len(image[b].blks)
  <2>1. image[b].blks \in Seq(Nat) /\ image[b].blks # <<>>
    BY <1>2 DEF IsIndex
  <2> QED
    BY <2>1
<1>4. j \in DOMAIN ListsOf(f) /\ 1 \in DOMAIN ListsOf(f)[j] /\ ListsOf(f)[j] = image[b].blks
  BY <1>2, <1>3, PlacesMade
<1>5. j2 \in DOMAIN ListsOf(f2) /\ 1 \in DOMAIN ListsOf(f2)[j2] /\ ListsOf(f2)[j2] = image[b].blks
  BY <1>2, <1>3, PlacesMade
<1>6. ListsOf(f)[j][1] = ListsOf(f2)[j2][1]
  BY <1>4, <1>5
<1>7. f = f2 /\ j = j2
  BY <1>4, <1>5, <1>6, DataOnce
<1> QED
  BY <1>2, <1>7

\* A block is of use for one thing.
LEMMA OneUse ==
    ASSUME NEW f \in 1..Len(files), InImage(image, files, f), NEW use \in F!Uses(f),
           NEW f2 \in 1..Len(files), InImage(image, files, f2), NEW use2 \in F!Uses(f2),
           F!At(use) = F!At(use2), Len(files) \in Nat
    PROVE  use = use2
<1>1. \/ use = <<f, 0, 0>> /\ F!At(use) = f
      \/ \E j : IndexUse(f, use, j)
      \/ \E j, k : DataUse(f, use, j, k)
  BY UseKinds
<1>2. \/ use2 = <<f2, 0, 0>> /\ F!At(use2) = f2
      \/ \E j : IndexUse(f2, use2, j)
      \/ \E j, k : DataUse(f2, use2, j, k)
  BY UseKinds
<1>3. ASSUME NEW g, InImage(image, files, g), NEW u, NEW j, NEW k, DataUse(g, u, j, k)
      PROVE  Holds(image, files, F!At(u), g, NumberOf(j, k))
  BY <1>3, DataHeld DEF DataUse
<1>4. ASSUME NEW j, IndexUse(f, use, j)
      PROVE  use = use2
  <2>1. IsIndex(image, files, F!At(use))
    BY <1>4 DEF IndexUse
  <2>2. F!At(use2) # f2
    BY <2>1 DEF IsIndex
  <2>3. ~ \E j2, k2 : DataUse(f2, use2, j2, k2)
    BY <1>3, <2>1, KindsDiffer
  <2>4. PICK j2 : IndexUse(f2, use2, j2)
    BY <1>2, <2>2, <2>3
  <2> QED
    BY <1>4, <2>4, IndexOnce
<1>5. ASSUME NEW j, NEW k, DataUse(f, use, j, k)
      PROVE  use = use2
  <2>1. Holds(image, files, F!At(use), f, NumberOf(j, k))
    BY <1>3, <1>5
  <2>2. F!At(use2) # f2
    BY <2>1 DEF Holds
  <2>3. ~ \E j2 : IndexUse(f2, use2, j2)
    <3>1. ~IsIndex(image, files, F!At(use2))
      BY <2>1, KindsDiffer
    <3> QED
      BY <3>1 DEF IndexUse
  <2>4. PICK j2, k2 : DataUse(f2, use2, j2, k2)
    BY <1>2, <2>2, <2>3
  <2>5. /\ j \in DOMAIN ListsOf(f) /\ k \in DOMAIN ListsOf(f)[j] /\ use = <<f, j, k>>
        /\ j2 \in DOMAIN ListsOf(f2) /\ k2 \in DOMAIN ListsOf(f2)[j2] /\ use2 = <<f2, j2, k2>>
        /\ ListsOf(f)[j][k] = ListsOf(f2)[j2][k2]
    BY <1>5, <2>4 DEF DataUse
  <2>6. f = f2 /\ j = j2 /\ k = k2
    BY <2>5, DataOnce
  <2> QED
    BY <2>5, <2>6
<1>6. CASE use = <<f, 0, 0>> /\ F!At(use) = f
  <2>1. ~ \E j : IndexUse(f2, use2, j)
    BY <1>6 DEF IndexUse, IsIndex
  <2>2. ~ \E j, k : DataUse(f2, use2, j, k)
    <3> SUFFICES ASSUME NEW j, NEW k, DataUse(f2, use2, j, k)
                 PROVE  FALSE
      OBVIOUS
    <3>1. Holds(image, files, F!At(use2), f2, NumberOf(j, k))
      BY <1>3
    <3> QED
      BY <1>6, <3>1 DEF Holds
  <2>3. use2 = <<f2, 0, 0>> /\ F!At(use2) = f2
    BY <1>2, <2>1, <2>2
  <2> QED
    BY <1>6, <2>3
<1> QED
  BY <1>1, <1>4, <1>5, <1>6

\* The image is finished: all files are in it and nothing else.
Complete ==
    /\ Len(files) \in Nat /\ DOMAIN files = 1..Len(files)
    /\ blk_idx \in Nat /\ blk_idx > Len(files) /\ DOMAIN image = 0..(blk_idx - 1)
    /\ image[0].blk_cnt = blk_idx /\ image[0].inode_cnt = Len(files)
    /\ \A f \in 1..Len(files) : InImage(image, files, f)
    /\ \A b \in (Len(files) + 1)..(blk_idx - 1) :
          \E f \in 1..Len(files) : Owns(image, image[f], <<>>, b)

\* So it is when the superblock is in it.
LEMMA DoneMeans ==
    ASSUME BuilderSound, 0 \in DOMAIN image
    PROVE  Complete
<1>1. BuilderAt /\ BlocksOwned /\ (\A f \in 1..Written : InImage(image, files, f)) /\ step = "done"
  <2>1. step # "failed"
    BY DEF BuilderSound
  <2>2. BuilderAt
    BY <2>1 DEF BuilderSound
  <2>3. step = "done"
    BY <2>2 DEF BuilderAt
  <2> QED
    BY <2>1, <2>3 DEF BuilderSound
<1>2. Written = Len(files) /\ ~Filling
  BY <1>1 DEF Written, Filling
<1>3. Len(files) \in Nat /\ DOMAIN files = 1..Len(files) /\ blk_idx \in Nat /\ blk_idx > Len(files)
  BY <1>1 DEF BuilderAt
<1>4. image[0].blk_cnt = blk_idx /\ image[0].inode_cnt = Len(files)
  BY <1>1 DEF BuilderAt
<1>5. DOMAIN image = 0..(blk_idx - 1)
  <2>1. DOMAIN image = (1..Len(files)) \cup ((Len(files) + 1)..(blk_idx - 1)) \cup {0}
    BY <1>1, <1>2 DEF BuilderAt
  <2>2. PICK m \in Nat, next \in Nat : m = Len(files) /\ next = blk_idx /\ next > m
    BY <1>3
  <2>3. (1..m) \cup ((m + 1)..(next - 1)) \cup {0} = 0..(next - 1)
    BY <2>2
  <2> QED
    BY <2>1, <2>2, <2>3
<1> QED
  BY <1>1, <1>2, <1>3, <1>4, <1>5 DEF Complete, BlocksOwned

\* What a use is of is a block of the image, which bears its index.
LEMMA UsesBlock ==
    ASSUME Complete, NEW f \in 1..Len(files), NEW use \in F!Uses(f)
    PROVE  F!At(use) \in DOMAIN image \ {0} /\ image[F!At(use)].idx = F!At(use)
<1>1. InImage(image, files, f) /\ Len(files) \in Nat
  BY DEF Complete
<1>2. CASE use = <<f, 0, 0>> /\ F!At(use) = f
  <2>1. f \in DOMAIN image /\ f # 0
    <3>1. PICK m \in Nat, next \in Nat : m = Len(files) /\ next = blk_idx /\ next > m
      BY DEF Complete
    <3>2. f \in 0..(next - 1) /\ f # 0
      BY <3>1
    <3> QED
      BY <3>1, <3>2 DEF Complete
  <2>2. image[f].idx = f
    BY <1>1 DEF InImage, IsInode
  <2> QED
    BY <1>2, <2>1, <2>2
<1>3. CASE \E j : IndexUse(f, use, j)
  <2>1. IsIndex(image, files, F!At(use))
    BY <1>3 DEF IndexUse
  <2>2. /\ F!At(use) \in DOMAIN image /\ F!At(use) \in Nat /\ F!At(use) > Len(files)
        /\ image[F!At(use)] = [idx |-> F!At(use), blks |-> image[F!At(use)].blks]
    BY <2>1 DEF IsIndex
  <2>3. image[F!At(use)].idx = F!At(use)
    BY <2>2
  <2> QED
    BY <1>1, <2>2, <2>3
<1>4. CASE \E j, k : DataUse(f, use, j, k)
  <2>1. PICK j, k : DataUse(f, use, j, k)
    BY <1>4
  <2>2. Holds(image, files, F!At(use), f, NumberOf(j, k))
    BY <1>1, <2>1, DataHeld DEF DataUse
  <2>3. image[F!At(use)].idx = F!At(use)
    BY <2>2 DEF Holds
  <2> QED
    BY <1>1, <2>2, <2>3 DEF Holds
<1> QED
  BY <1>1, <1>2, <1>3, <1>4, UseKinds

\* Every block but the first is of use.
LEMMA BlockUsed ==
    ASSUME Complete, NEW b \in DOMAIN image \ {0}
    PROVE  \E f \in 1..Len(files) : \E use \in F!Uses(f) : F!At(use) = b
<1>1. b \in 1..Len(files) \/ b \in (Len(files) + 1)..(blk_idx - 1)
  <2>1. PICK m \in Nat, next \in Nat : m = Len(files) /\ next = blk_idx /\ next > m
    BY DEF Complete
  <2>2. b \in 0..(next - 1) /\ b # 0
    BY <2>1 DEF Complete
  <2>3. b \in 1..m \/ b \in (m + 1)..(next - 1)
    BY <2>1, <2>2
  <2> QED
    BY <2>1, <2>3
<1>2. CASE b \in 1..Len(files)
  <2>1. InImage(image, files, b)
    BY <1>2 DEF Complete
  <2> QED
    BY <1>2, <2>1, IndexUsed
<1>3. CASE b \in (Len(files) + 1)..(blk_idx - 1)
  <2>1. PICK f \in 1..Len(files) : Owns(image, image[f], <<>>, b)
    BY <1>3 DEF Complete
  <2>2. InImage(image, files, f)
    BY DEF Complete
  <2>3. CASE Listed(ListsOf(f), b)
    <3>1. PICK j \in DOMAIN ListsOf(f) : \E k \in DOMAIN ListsOf(f)[j] : ListsOf(f)[j][k] = b
      BY <2>3 DEF Listed
    <3>2. PICK k \in DOMAIN ListsOf(f)[j] : ListsOf(f)[j][k] = b
      BY <3>1
    <3>3. <<f, j, k>> \in F!Uses(f) /\ F!At(<<f, j, k>>) = b
      BY <2>2, <3>2, PlaceUse DEF DataUse, F!Holding
    <3> QED
      BY <3>3
  <2>4. CASE \E j \in DOMAIN image[f].i_blks : image[f].i_blks[j] = b
    <3>1. PICK j \in DOMAIN image[f].i_blks : image[f].i_blks[j] = b
      BY <2>4
    <3>2. j \in 1..Len(image[f].i_blks)
      BY <2>2 DEF InImage, IsInode
    <3>3. <<f, j, 0>> \in F!Uses(f) /\ F!At(<<f, j, 0>>) = b
      BY <2>2, <3>1, <3>2, IndexUsed DEF IndexUse
    <3> QED
      BY <3>3
  <2> QED
    BY <2>1, <2>3, <2>4 DEF Owns, ListsOf
<1> QED
  BY <1>1, <1>2, <1>3

\* A use that holds data is that of a place.
LEMMA HoldingPlace ==
    ASSUME NEW f, InImage(image, files, f), NEW use \in F!Holding(F!Uses(f))
    PROVE  \E j, k : DataUse(f, use, j, k)
<1>1. use \in F!Uses(f) /\ use[3] # 0
  BY DEF F!Holding
<1>2. use # <<f, 0, 0>> /\ ~ \E j : IndexUse(f, use, j)
  BY <1>1 DEF IndexUse
<1> QED
  BY <1>1, <1>2, UseKinds

\* What it holds is the part of its file that has its number.
LEMMA HeldPart ==
    ASSUME NEW f, InImage(image, files, f), NEW use \in F!Holding(F!Uses(f))
    PROVE  image[F!At(use)].data = F!Part(use[1], F!Number(use))
<1>1. PICK j, k : DataUse(f, use, j, k)
  BY HoldingPlace
<1>2. /\ j \in DOMAIN ListsOf(f) /\ k \in DOMAIN ListsOf(f)[j] /\ use[1] = f
      /\ F!At(use) = ListsOf(f)[j][k] /\ F!Number(use) = NumberOf(j, k)
  BY <1>1 DEF DataUse
<1>3. Holds(image, files, F!At(use), f, F!Number(use))
  BY <1>2, DataHeld
<1>4. image[F!At(use)].data = PartOf(files, f, F!Number(use))
  BY <1>3 DEF Holds
<1> QED
  BY <1>2, <1>4 DEF PartOf, F!Part

\* A file has all its blocks, and is the size it was.
LEMMA FileWhole ==
    ASSUME Complete, NEW f \in 1..Len(files)
    PROVE  /\ {F!Number(use) : use \in F!Holding(F!Uses(f))} = 1..image[f].blk_cnt
           /\ \E missing \in 0..(DataSize - 1) :
                 image[f].blk_cnt * DataSize = image[f].file_sz + missing
           /\ image[f].file_sz = files[f]
           /\ image[f].next_inode = (f + 1) % (image[0].inode_cnt + 1)
<1>1. InImage(image, files, f) /\ Len(files) \in Nat /\ image[0].inode_cnt = Len(files)
  BY DEF Complete
<1>2. IsInode(image, files, f, image[f])
  BY <1>1 DEF InImage
<1>3. PICK count \in Nat : Whole(files[f], count) /\ Covers(image, files, f, ListsOf(f), count)
  BY <1>1 DEF InImage, ListsOf
<1>4. /\ image[f].blk_cnt = count
      /\ \E missing \in 0..(DataSize - 1) : count * DataSize = files[f] + missing
  BY <1>2, <1>3, CountOf DEF IsInode
<1>5. ASSUME NEW use \in F!Holding(F!Uses(f))
      PROVE  F!Number(use) \in 1..count
  <2>1. PICK j, k : DataUse(f, use, j, k)
    BY <1>1, HoldingPlace
  <2> QED
    BY <1>3, <2>1 DEF DataUse, Covers
<1>6. ASSUME NEW num \in 1..count
      PROVE  \E use \in F!Holding(F!Uses(f)) : F!Number(use) = num
  <2>1. PICK j \in DOMAIN ListsOf(f) : \E k \in DOMAIN ListsOf(f)[j] : NumberOf(j, k) = num
    BY <1>3 DEF Covers
  <2>2. PICK k \in DOMAIN ListsOf(f)[j] : NumberOf(j, k) = num
    BY <2>1
  <2>3. <<f, j, k>> \in F!Holding(F!Uses(f)) /\ F!Number(<<f, j, k>>) = num
    BY <1>1, <2>2, PlaceUse DEF DataUse
  <2> QED
    BY <2>3
<1>7. {F!Number(use) : use \in F!Holding(F!Uses(f))} = 1..image[f].blk_cnt
  BY <1>4, <1>5, <1>6
<1>8. image[f].next_inode = (f + 1) % (image[0].inode_cnt + 1)
  <2>1. PICK m \in Nat : m = Len(files)
    BY <1>1
  <2>2. f \in 1..m
    BY <2>1
  <2>3. (f + 1) % (m + 1) = IF f = m THEN 0 ELSE f + 1
    BY <2>2
  <2> QED
    BY <1>1, <1>2, <2>1, <2>3 DEF IsInode
<1> QED
  BY <1>2, <1>4, <1>7, <1>8 DEF IsInode

\* A sound builder's finished image is read back.
LEMMA BuilderMeans ==
    ASSUME BuilderSound
    PROVE  F!FoundAgain
<1> SUFFICES ASSUME 0 \in DOMAIN image
             PROVE  F!FoundAgain
  BY DEF F!FoundAgain
<1>1. Complete
  BY DoneMeans
<1>2. PICK inodes : inodes = 1..image[0].inode_cnt
  OBVIOUS
<1>3. PICK uses : uses = UNION {F!Uses(f) : f \in inodes}
  OBVIOUS
<1>4. inodes = DOMAIN files /\ inodes = 1..Len(files)
  BY <1>1, <1>2 DEF Complete
<1>5. \A use \in uses : \E f \in 1..Len(files) : use \in F!Uses(f)
  BY <1>3, <1>4
<1>6. DOMAIN image = 0..(image[0].blk_cnt - 1)
  BY <1>1 DEF Complete
<1>7. {F!At(use) : use \in uses} = DOMAIN image \ {0}
  <2>1. \A use \in uses : F!At(use) \in DOMAIN image \ {0}
    BY <1>1, <1>5, UsesBlock
  <2>2. \A b \in DOMAIN image \ {0} : \E use \in uses : F!At(use) = b
    BY <1>1, <1>3, <1>4, BlockUsed
  <2> QED
    BY <2>1, <2>2
<1>8. \A use, other \in uses : F!At(use) = F!At(other) => use = other
  <2> SUFFICES ASSUME NEW use \in uses, NEW other \in uses, F!At(use) = F!At(other)
               PROVE  use = other
    OBVIOUS
  <2>1. PICK f \in 1..Len(files) : use \in F!Uses(f)
    BY <1>5
  <2>2. PICK f2 \in 1..Len(files) : other \in F!Uses(f2)
    BY <1>5
  <2>3. InImage(image, files, f) /\ InImage(image, files, f2) /\ Len(files) \in Nat
    BY <1>1 DEF Complete
  <2> QED
    BY <2>1, <2>2, <2>3, OneUse
<1>9. \A i \in DOMAIN image \ {0} : image[i].idx = i
  BY <1>1, BlockUsed, UsesBlock
<1>10. \A use \in F!Holding(uses) : image[F!At(use)].data = F!Part(use[1], F!Number(use))
  <2> SUFFICES ASSUME NEW use \in F!Holding(uses)
               PROVE  image[F!At(use)].data = F!Part(use[1], F!Number(use))
    OBVIOUS
  <2>1. PICK f \in 1..Len(files) : use \in F!Holding(F!Uses(f))
    BY <1>5 DEF F!Holding
  <2>2. InImage(image, files, f)
    BY <1>1 DEF Complete
  <2> QED
    BY <2>1, <2>2, HeldPart
<1>11. \A f \in inodes :
          /\ {F!Number(use) : use \in F!Holding(F!Uses(f))} = 1..image[f].blk_cnt
          /\ \E missing \in 0..(DataSize - 1) :
                image[f].blk_cnt * DataSize = image[f].file_sz + missing
          /\ image[f].file_sz = files[f]
          /\ image[f].next_inode = (f + 1) % (image[0].inode_cnt + 1)
  BY <1>1, <1>4, FileWhole
<1> QED
  BY <1>2, <1>3, <1>4, <1>6, <1>7, <1>8, <1>9, <1>10, <1>11 DEF F!FoundAgain

\* Whatever else runs leaves the builder as it is.
LEMMA BuilderStays ==
    ASSUME BuilderSound, UNCHANGED builderVars
    PROVE  BuilderSound'
<1>1. UNCHANGED <<files, image, n, read, inode, iblock, blk_idx, step>>
  BY DEF builderVars
<1>2. Written' = Written /\ Filling' = Filling
  BY <1>1 DEF Written, Filling
<1>3. BuilderAt => BuilderAt'
  BY <1>1, <1>2 DEF BuilderAt
<1>4. BlocksOwned => BlocksOwned'
  BY <1>1, <1>2 DEF BlocksOwned
<1>5. \A count : Underway(count) => Underway(count)'
  BY <1>1 DEF Underway, F!MaxFileSize, F!Missing
<1> QED
  BY <1>1, <1>2, <1>3, <1>4, <1>5 DEF BuilderSound

\* The image that mkkfs has given a superblock is read back whole: all blocks lead
\* from it to every file's every byte, in order, each block of use and for one thing
\* only, for files of any number and size and blocks and inodes of any
\* (mkkfs.c:63-277).
THEOREM FilesFoundAgain == Spec => []FoundAgain
<1>1. Init => BuilderSound
  BY BuildInit DEF Init
<1>2. BuilderSound /\ [Next]_vars => BuilderSound'
  <2> SUFFICES ASSUME BuilderSound, [Next]_vars
               PROVE  BuilderSound'
    OBVIOUS
  <2>1. CASE Load
    BY <2>1, BuilderStays DEF Load
  <2>2. CASE Build
    BY <2>2, BuildNext DEF Build
  <2>3. CASE Switch
    BY <2>3, BuilderStays DEF Switch
  <2>4. CASE UNCHANGED vars
    BY <2>4, BuilderStays DEF vars
  <2> QED
    BY <2>1, <2>2, <2>3, <2>4 DEF Next
<1>3. BuilderSound => FoundAgain
  BY BuilderMeans DEF FoundAgain
<1> QED
  BY <1>1, <1>2, <1>3, PTL DEF Spec
=============================================================================
