------------------------------- MODULE Diagram -------------------------------
(***************************************************************************)
(* hack/render-architecture.py: the architecture's picture, kept as data.  *)
(* One file is written that is both the picture and the XML the editor     *)
(* opens; validate() refuses a layout that says something untrue of the    *)
(* architecture, and --check a file that is not what the layout renders.   *)
(*                                                                         *)
(* A layout gives every box its place.  Colours, fonts and texts are left  *)
(* out; of a text its length is kept, which the plate behind it depends    *)
(* on.  Theorems about the layout that is committed stand beside theorems  *)
(* about every layout that validate() lets through.                        *)
(***************************************************************************)
EXTENDS Integers, TLAPS

WIDTH  == 1400
HEIGHT == 930

At(x, y, w, h) == [x |-> x, y |-> y, w |-> w, h |-> h]
Places == [x : Int, y : Int, w : Nat, h : Nat]

-----------------------------------------------------------------------------
(* The committed data.                                                     *)

CONTAINERS ==
    [tnfsite |-> At(30, 60, 900, 790), acmsite |-> At(960, 60, 410, 790),
     tnfcluster |-> At(55, 175, 850, 655), hcp1 |-> At(75, 378, 400, 170),
     vcp1 |-> At(495, 378, 390, 170), app |-> At(75, 576, 810, 240),
     acmcluster |-> At(985, 175, 360, 385)]

NODES ==
    [tnfb |-> At(55, 105, 345, 50), ec2api |-> At(470, 105, 270, 50),
     m0 |-> At(75, 215, 395, 60), m1 |-> At(490, 215, 395, 60),
     tnfsvc |-> At(75, 292, 810, 56), cp |-> At(95, 424, 360, 50),
     hvm |-> At(95, 486, 360, 50), vvm |-> At(515, 424, 350, 50),
     vnote |-> At(515, 486, 350, 50), cam |-> At(95, 622, 170, 76),
     rtsp |-> At(320, 622, 120, 76), an |-> At(495, 612, 210, 88),
     dash |-> At(745, 622, 120, 76), vllm |-> At(495, 724, 210, 76),
     gmet |-> At(745, 724, 120, 76), acmb |-> At(985, 105, 360, 50),
     sno |-> At(1005, 215, 320, 56), acmhub |-> At(1005, 291, 320, 68),
     fleet |-> At(1005, 379, 320, 68), mco |-> At(1005, 487, 320, 56),
     s3 |-> At(985, 630, 360, 56), hubnote |-> At(985, 720, 360, 68)]

\* No pin: no box begins at the canvas's edge.
Free == 0

\* An arrow: a box, the side it leaves by and a pin on that side, the same of its
\* end, and the length of its label.
E(src, s_side, s_pin, dst, d_side, d_pin, text) ==
    [src |-> src, s_side |-> s_side, s_pin |-> s_pin,
     dst |-> dst, d_side |-> d_side, d_pin |-> d_pin, text |-> text]

EDGES ==
    {E("tnfb", "b", 200, "m0", "t", 200, 0),
     E("tnfb", "b", 300, "m1", "t", Free, 0),
     E("tnfb", "r", Free, "ec2api", "l", Free, 7),
     E("m0", "b", Free, "tnfsvc", "t", 272, 0),
     E("m1", "b", Free, "tnfsvc", "t", 687, 0),
     E("tnfsvc", "b", 275, "hcp1", "t", 275, 10),
     E("tnfsvc", "b", 690, "vcp1", "t", 690, 18),
     E("hcp1", "b", 275, "app", "t", 275, 0),
     E("vcp1", "b", 690, "app", "t", 690, 0),
     E("cam", "r", Free, "rtsp", "l", Free, 7),
     E("rtsp", "r", Free, "an", "l", Free, 7),
     E("an", "r", Free, "dash", "l", Free, 5),
     E("an", "b", Free, "vllm", "t", Free, 22),
     E("an", "r", 690, "gmet", "l", Free, 0),
     E("acmb", "b", 1165, "sno", "t", 1165, 0),
     E("sno", "b", 1165, "acmhub", "t", 1165, 0),
     E("acmhub", "b", 1165, "fleet", "t", 1165, 0),
     E("fleet", "b", 1212, "mco", "t", 1212, 0),
     E("mco", "b", 1165, "s3", "t", 1165, 6),
     E("sno", "l", Free, "tnfcluster", "r", 320, 16),
     E("gmet", "r", Free, "mco", "l", Free, 6)}

CONTAINMENT ==
    {<<"tnfcluster", "tnfsite">>, <<"hcp1", "tnfcluster">>, <<"vcp1", "tnfcluster">>,
     <<"app", "tnfcluster">>, <<"acmcluster", "acmsite">>, <<"cp", "hcp1">>,
     <<"hvm", "hcp1">>, <<"vvm", "vcp1">>, <<"vnote", "vcp1">>, <<"cam", "app">>,
     <<"rtsp", "app">>, <<"an", "app">>, <<"dash", "app">>, <<"vllm", "app">>,
     <<"gmet", "app">>, <<"m0", "tnfcluster">>, <<"m1", "tnfcluster">>,
     <<"tnfsvc", "tnfcluster">>, <<"sno", "acmcluster">>, <<"acmhub", "acmcluster">>,
     <<"fleet", "acmcluster">>, <<"mco", "acmcluster">>}

EXCLUSION ==
    {<<"hcp1", "vcp1">>, <<"vcp1", "hcp1">>, <<"tnfb", "tnfcluster">>,
     <<"ec2api", "tnfcluster">>, <<"acmb", "acmcluster">>, <<"s3", "acmcluster">>,
     <<"hubnote", "acmcluster">>}

Boundaries == DOMAIN CONTAINERS
Things     == DOMAIN NODES
Boxes      == Boundaries \cup Things
Layouts    == [Boxes -> Places]

BOX == [b \in Boxes |-> IF b \in Boundaries THEN CONTAINERS[b] ELSE NODES[b]]

-----------------------------------------------------------------------------
(* validate                                                                *)

Inside(a, b) == b.x <= a.x /\ b.y <= a.y /\ a.x + a.w <= b.x + b.w /\ a.y + a.h <= b.y + b.h

OnCanvas(a) == ~(a.x < 0 \/ a.y < 0 \/ a.x + a.w > WIDTH \/ a.y + a.h > HEIGHT)

Problems(layout) ==
    {<<"inside", p[1], p[2]>> : p \in {q \in CONTAINMENT : ~Inside(layout[q[1]], layout[q[2]])}}
    \cup {<<"NOT inside", p[1], p[2]>> :
             p \in {q \in EXCLUSION : Inside(layout[q[1]], layout[q[2]])}}
    \cup {<<"canvas", b, b>> : b \in {c \in Boxes : ~OnCanvas(layout[c])}}
    \cup {<<"edge", e.src, e.dst>> : e \in {f \in EDGES : {f.src, f.dst} \ Boxes # {}}}

-----------------------------------------------------------------------------
(* The two drawings.                                                       *)

\* The end of an arrow, in half pixels: the middle of a side, or the pin on it.
anchor(box, side, pin) ==
    IF side \in {"t", "b"}
    THEN [x |-> IF pin # Free THEN 2 * pin ELSE 2 * box.x + box.w,
          y |-> IF side = "t" THEN 2 * box.y ELSE 2 * (box.y + box.h)]
    ELSE [x |-> IF side = "l" THEN 2 * box.x ELSE 2 * (box.x + box.w),
          y |-> IF pin # Free THEN 2 * pin ELSE 2 * box.y + box.h]

Leaves(layout, e) == anchor(layout[e.src], e.s_side, e.s_pin)
Arrives(layout, e) == anchor(layout[e.dst], e.d_side, e.d_pin)

\* The plate behind a label half-way along its arrow, in twentieths of a pixel: 6.2
\* pixels a letter and 8 more, 15 high.
label_box(text, p, q) ==
    At(5 * (p.x + q.x) - (62 * text + 80), 5 * (p.y + q.y) - 150, 124 * text + 160, 300)

Plate(layout, e) == label_box(e.text, Leaves(layout, e), Arrives(layout, e))

Labelled == {e \in EDGES : e.text > 0}

\* The picture, in the order it is painted: boundaries, then arrows with their
\* plates, then boxes, which cover what lies under them.
render_svg(layout) ==
    [boundaries |-> {<<b, layout[b]>> : b \in Boundaries},
     arrows     |-> {<<e, Leaves(layout, e), Arrives(layout, e)>> : e \in EDGES},
     plates     |-> {<<e, Plate(layout, e)>> : e \in Labelled},
     boxes      |-> {<<b, layout[b]>> : b \in Things}]

\* The XML: a cell for every shape, and one for every arrow, which names its ends.
render_mxfile(layout) ==
    [shapes |-> {<<b, layout[b]>> : b \in Boundaries} \cup {<<b, layout[b]>> : b \in Things},
     arrows |-> {<<e.src, e.dst, e.text>> : e \in EDGES}]

Render(layout) == [picture |-> render_svg(layout), xml |-> render_mxfile(layout)]

-----------------------------------------------------------------------------
(* The program, run by whoever edits the layout or the file.               *)

VARIABLES
    layout,     \* the coordinates in the source
    file,       \* docs/architecture.drawio.svg
    told        \* what the last run said, while nothing has been edited since

vars == <<layout, file, told>>

Init == layout = BOX /\ file \in {Render(l) : l \in Layouts} /\ told = "nothing"

EditLayout ==
    /\ layout' \in Layouts
    /\ told' = "nothing"
    /\ UNCHANGED file

\* The editor saves both parts of the file, a text editor either.
EditFile ==
    /\ \E l, m \in Layouts : file' = [picture |-> render_svg(l), xml |-> render_mxfile(m)]
    /\ told' = "nothing"
    /\ UNCHANGED layout

\* main: nothing is rendered of a layout with a problem.
Main(check) ==
    /\ UNCHANGED layout
    /\ IF Problems(layout) # {} THEN told' = "layout error" /\ UNCHANGED file
       ELSE IF check THEN /\ told' = IF file = Render(layout) THEN "up to date" ELSE "out of date"
                          /\ UNCHANGED file
            ELSE told' = "wrote" /\ file' = Render(layout)

Next == EditLayout \/ EditFile \/ \E check \in BOOLEAN : Main(check)

Spec == Init /\ [][Next]_vars

-----------------------------------------------------------------------------
(* Properties.                                                             *)

\* What runs on the TNF cluster: the control plane and the nodes of either guest,
\* and the application with all its parts.
OnTnf == {"hcp1", "vcp1", "app", "cp", "hvm", "vvm", "vnote", "cam", "rtsp", "an", "dash",
          "vllm", "gmet", "m0", "m1", "tnfsvc"}
OnHub == {"sno", "acmhub", "fleet", "mco"}

\* The statement the picture is for (lines 18-34): what runs on a cluster is drawn
\* in its site, and neither guest in the other.
SaysWhatIsTrue(places) ==
    /\ \A b \in OnTnf : Inside(places[b], places["tnfcluster"]) /\ Inside(places[b], places["tnfsite"])
    /\ \A b \in OnHub : Inside(places[b], places["acmsite"])
    /\ ~Inside(places["hcp1"], places["vcp1"]) /\ ~Inside(places["vcp1"], places["hcp1"])

\* When the program says that the file is up to date, or has written it, the
\* picture and the XML have the same boxes in the same places, and the places say
\* what is true: whatever was edited before, by hand or not.
FileIsTrue ==
    told \in {"wrote", "up to date"} =>
        /\ file.xml.shapes = file.picture.boundaries \cup file.picture.boxes
        /\ \E places \in Layouts :
              SaysWhatIsTrue(places) /\ file.xml.shapes = {<<b, places[b]>> : b \in Boxes}

OnBorder(p, b) ==
    \/ p.x \in {2 * b.x, 2 * (b.x + b.w)} /\ p.y \in (2 * b.y)..(2 * (b.y + b.h))
    \/ p.y \in {2 * b.y, 2 * (b.y + b.h)} /\ p.x \in (2 * b.x)..(2 * (b.x + b.w))

\* A plate in twentieths of a pixel, a box in pixels.
Covers(b, plate) ==
    /\ plate.x < 20 * (b.x + b.w) /\ 20 * b.x < plate.x + plate.w
    /\ plate.y < 20 * (b.y + b.h) /\ 20 * b.y < plate.y + plate.h

-----------------------------------------------------------------------------
(* Proofs.                                                                 *)

LEMMA InsideIsTransitive ==
    ASSUME NEW a \in Places, NEW b \in Places, NEW c \in Places, Inside(a, b), Inside(b, c)
    PROVE  Inside(a, c)
  BY DEF Inside, Places

LEMMA KnownBoxes ==
    /\ OnTnf \cup OnHub \subseteq Boxes
    /\ {"tnfsite", "acmsite", "tnfcluster", "acmcluster", "hcp1", "vcp1", "app"} \subseteq Boxes
  BY DEF OnTnf, OnHub, Boxes, Boundaries, Things, CONTAINERS, NODES

\* A layout that validate() lets through says what is true, however its boxes are
\* moved: its pairs are those of a cluster's parts, and being inside is transitive.
THEOREM ValidatedSaysWhatIsTrue ==
    ASSUME NEW places \in Layouts, Problems(places) = {}
    PROVE  SaysWhatIsTrue(places)
<1>1. \A p \in CONTAINMENT : Inside(places[p[1]], places[p[2]])
  BY DEF Problems
<1>2. \A p \in EXCLUSION : ~Inside(places[p[1]], places[p[2]])
  BY DEF Problems
<1>3. \A b \in Boxes : places[b] \in Places
  BY DEF Layouts
<1>4. \A b \in {"hcp1", "vcp1", "app", "m0", "m1", "tnfsvc"} :
         Inside(places[b], places["tnfcluster"])
  BY <1>1 DEF CONTAINMENT
<1>5. \A b \in OnTnf : Inside(places[b], places["tnfcluster"])
  <2>1. \A b \in {"cp", "hvm"} : Inside(places[b], places["hcp1"])
    BY <1>1 DEF CONTAINMENT
  <2>2. \A b \in {"vvm", "vnote"} : Inside(places[b], places["vcp1"])
    BY <1>1 DEF CONTAINMENT
  <2>3. \A b \in {"cam", "rtsp", "an", "dash", "vllm", "gmet"} :
           Inside(places[b], places["app"])
    BY <1>1 DEF CONTAINMENT
  <2>4. ASSUME NEW b \in OnTnf, NEW c \in {"hcp1", "vcp1", "app"}, Inside(places[b], places[c])
        PROVE  Inside(places[b], places["tnfcluster"])
    <3>1. {b, c, "tnfcluster"} \subseteq Boxes
      BY KnownBoxes
    <3>2. Inside(places[c], places["tnfcluster"])
      BY <1>4
    <3>3. QED
      BY <1>3, <2>4, <3>1, <3>2, InsideIsTransitive
  <2>5. QED
    BY <1>4, <2>1, <2>2, <2>3, <2>4 DEF OnTnf
<1>6. \A b \in OnTnf : Inside(places[b], places["tnfsite"])
  <2>1. Inside(places["tnfcluster"], places["tnfsite"])
    BY <1>1 DEF CONTAINMENT
  <2>2. QED
    BY <1>3, <1>5, <2>1, KnownBoxes, InsideIsTransitive
<1>7. \A b \in OnHub : Inside(places[b], places["acmsite"])
  <2>1. \A b \in OnHub : Inside(places[b], places["acmcluster"])
    BY <1>1 DEF CONTAINMENT, OnHub
  <2>2. Inside(places["acmcluster"], places["acmsite"])
    BY <1>1 DEF CONTAINMENT
  <2>3. QED
    BY <1>3, <2>1, <2>2, KnownBoxes, InsideIsTransitive
<1>8. ~Inside(places["hcp1"], places["vcp1"]) /\ ~Inside(places["vcp1"], places["hcp1"])
  BY <1>2 DEF EXCLUSION
<1>9. QED
  BY <1>5, <1>6, <1>7, <1>8 DEF SaysWhatIsTrue

LEMMA CommittedPlaces ==
    /\ BOX \in Layouts
    /\ \A b \in Boundaries : BOX[b] = CONTAINERS[b]
    /\ \A b \in Things : BOX[b] = NODES[b]
<1>1. \A b \in Boundaries : CONTAINERS[b] \in Places
  BY DEF Boundaries, CONTAINERS, At, Places
<1>2. \A b \in Things : NODES[b] \in Places
  BY DEF Things, NODES, At, Places
<1>3. Boundaries \cap Things = {}
  BY DEF Boundaries, Things, CONTAINERS, NODES
<1>4. QED
  BY <1>1, <1>2, <1>3 DEF BOX, Layouts, Boxes

\* The layout that is committed passes validate(): the tables of what must be
\* inside what and what must not can both be met.
THEOREM CommittedIsValid == Problems(BOX) = {}
<1>1. \A p \in CONTAINMENT : Inside(BOX[p[1]], BOX[p[2]])
  <2>1. \A p \in CONTAINMENT :
           p[1] \in Boundaries /\ p[2] \in Boundaries => Inside(CONTAINERS[p[1]], CONTAINERS[p[2]])
    BY DEF CONTAINMENT, Boundaries, CONTAINERS, Inside, At
  <2>2. \A p \in CONTAINMENT :
           p[1] \in Things /\ p[2] \in Boundaries => Inside(NODES[p[1]], CONTAINERS[p[2]])
    BY DEF CONTAINMENT, Boundaries, Things, CONTAINERS, NODES, Inside, At
  <2>3. \A p \in CONTAINMENT : p[1] \in Boundaries \cup Things /\ p[2] \in Boundaries
    BY DEF CONTAINMENT, Boundaries, Things, CONTAINERS, NODES
  <2>4. QED
    BY <2>1, <2>2, <2>3, CommittedPlaces
<1>2. \A p \in EXCLUSION : ~Inside(BOX[p[1]], BOX[p[2]])
  BY CommittedPlaces DEF EXCLUSION, Boundaries, Things, CONTAINERS, NODES, Inside, At
<1>3. \A b \in Boxes : OnCanvas(BOX[b])
  <2>1. \A b \in Boundaries : OnCanvas(CONTAINERS[b])
    BY DEF Boundaries, CONTAINERS, OnCanvas, WIDTH, HEIGHT, At
  <2>2. \A b \in Things : OnCanvas(NODES[b])
    BY DEF Things, NODES, OnCanvas, WIDTH, HEIGHT, At
  <2>3. QED
    BY <2>1, <2>2, CommittedPlaces DEF Boxes
<1>4. \A e \in EDGES : {e.src, e.dst} \ Boxes = {}
  BY DEF EDGES, E, Boxes, Boundaries, Things, CONTAINERS, NODES
<1>5. QED
  BY <1>1, <1>2, <1>3, <1>4 DEF Problems

\* An arrow without pins begins and ends on the border of its boxes, wherever they
\* are; a pin must lie between the corners of its side.
THEOREM AnchorOnBorder ==
    ASSUME NEW b \in Places, NEW side \in {"t", "b", "l", "r"}, NEW pin \in Int,
           pin # Free =>
               pin \in IF side \in {"t", "b"} THEN b.x..(b.x + b.w) ELSE b.y..(b.y + b.h)
    PROVE  OnBorder(anchor(b, side, pin), b)
<1>1. b.x \in Int /\ b.y \in Int /\ b.w \in Nat /\ b.h \in Nat
  BY DEF Places
<1>2. CASE side \in {"t", "b"}
  BY <1>1, <1>2 DEF anchor, OnBorder, Free
<1>3. CASE side \in {"l", "r"}
  BY <1>1, <1>3 DEF anchor, OnBorder, Free
<1>4. QED
  BY <1>2, <1>3

\* Every arrow that is committed touches both of its boxes: no pin was left behind
\* when a box was moved, which validate() does not look for.
THEOREM ArrowsTouchTheirBoxes ==
    \A e \in EDGES : OnBorder(Leaves(BOX, e), BOX[e.src]) /\ OnBorder(Arrives(BOX, e), BOX[e.dst])
<1>1. \A e \in EDGES : OnBorder(Leaves(BOX, e), BOX[e.src])
  BY CommittedPlaces, SMTT(30)
     DEF EDGES, E, Boundaries, Things, CONTAINERS, NODES, At, Leaves, anchor, OnBorder, Free
<1>2. \A e \in EDGES : OnBorder(Arrives(BOX, e), BOX[e.dst])
  BY CommittedPlaces, SMTT(30)
     DEF EDGES, E, Boundaries, Things, CONTAINERS, NODES, At, Arrives, anchor, OnBorder, Free
<1>3. QED
  BY <1>1, <1>2

\* No label that is committed is painted over by a box: "the label has to fit the
\* clear band" (lines 213-216), which validate() does not look for either.
THEOREM LabelsAreClear ==
    \A e \in Labelled : \A b \in Things : ~Covers(BOX[b], Plate(BOX, e))
<1> DEFINE Plates ==
      {At(8186, 2450, 1028, 300), At(4800, 7110, 1400, 300), At(12604, 7110, 2392, 300),
       At(5336, 13050, 1028, 300), At(8836, 13010, 1028, 300), At(14110, 13010, 780, 300),
       At(10556, 14090, 2888, 300), At(22848, 11580, 904, 300), At(18028, 5480, 2144, 300),
       At(18248, 12620, 904, 300)}
<1>1. \A e \in Labelled : Plate(BOX, e) \in Plates
  BY CommittedPlaces
     DEF Labelled, EDGES, E, Boundaries, Things, CONTAINERS, NODES, At, Leaves, Arrives, anchor,
         Free, Plate, label_box
<1>2. \A plate \in Plates : \A b \in Things : ~Covers(NODES[b], plate)
  BY DEF Things, NODES, At, Covers
<1>3. QED
  BY <1>1, <1>2, CommittedPlaces

\* Whatever has been edited, a file that the program has just written or found to be
\* up to date shows the same boxes in the picture and in the XML, and says what is
\* true of the clusters.
THEOREM FileIsTrueAlways == Spec => []FileIsTrue
<1> DEFINE Inv == /\ layout \in Layouts
                  /\ told \in {"wrote", "up to date"} =>
                        file = Render(layout) /\ Problems(layout) = {}
<1>1. Init => Inv
  BY CommittedPlaces DEF Init
<1>2. Inv /\ [Next]_vars => Inv'
  BY DEF Next, EditLayout, EditFile, Main, vars
<1>3. Inv => FileIsTrue
  <2> SUFFICES ASSUME Inv, told \in {"wrote", "up to date"}
               PROVE  /\ file.xml.shapes = file.picture.boundaries \cup file.picture.boxes
                      /\ SaysWhatIsTrue(layout)
                      /\ file.xml.shapes = {<<b, layout[b]>> : b \in Boxes}
    BY DEF FileIsTrue
  <2>1. layout \in Layouts /\ SaysWhatIsTrue(layout)
    BY ValidatedSaysWhatIsTrue
  <2>2. file = Render(layout)
    OBVIOUS
  <2>3. /\ file.xml.shapes =
             {<<b, layout[b]>> : b \in Boundaries} \cup {<<b, layout[b]>> : b \in Things}
        /\ file.picture.boundaries = {<<b, layout[b]>> : b \in Boundaries}
        /\ file.picture.boxes = {<<b, layout[b]>> : b \in Things}
    BY <2>2, Zenon DEF Render, render_svg, render_mxfile
  <2>4. {<<b, layout[b]>> : b \in Boundaries} \cup {<<b, layout[b]>> : b \in Things}
           = {<<b, layout[b]>> : b \in Boxes}
    BY DEF Boxes
  <2>5. QED
    BY <2>1, <2>3, <2>4
<1>4. QED
  BY <1>1, <1>2, <1>3, PTL DEF Spec
=============================================================================
