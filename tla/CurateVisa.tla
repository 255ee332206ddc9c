----------------------------- MODULE CurateVisa -----------------------------
(***************************************************************************)
(* app/camera-sim/curate-visa.py: a maintainer picks a small part of the   *)
(* data set and commits it.  A run does one directory of frames after the  *)
(* other, removing what is there and writing the picks, and writes the     *)
(* manifest last.  It may be interrupted between any two of its steps, and *)
(* run again with other arguments.                                         *)
(*                                                                         *)
(* A directory is <<category, label>>; a frame on disk and a row of the    *)
(* manifest are <<directory, number of the file, number of the source>>.   *)
(***************************************************************************)
EXTENDS ProductLines

CONSTANTS
    Sources,        \* by label, the pictures of a category in the data set
    Calls,          \* the command lines: [categories, count], count by label
    RoundedDown     \* <<i, n, count>> where i * (n / count) falls below a whole number

Labels == {"normal", "anomaly"}
NoCall == [categories |-> <<>>, count |-> [l \in Labels |-> 0]]

\* A command line names a category once.  In floating point a product that should
\* be whole may come out less (30 pictures, 22 picks: the 11th), not when the step
\* itself is whole.
ASSUME CurationAssumption ==
    /\ Sources \in [Labels -> Nat]
    /\ \A c \in Calls :
          /\ c.count \in [Labels -> Nat]
          /\ c.categories \in Seq(Categories) \ {<<>>}
          /\ Distinct(c.categories)
    /\ RoundedDown \subseteq (Nat \ {0}) \X Nat \X (Nat \ {0})
    /\ \A p \in RoundedDown : (p[1] * p[2]) % p[3] = 0 /\ p[2] % p[3] # 0

VARIABLES
    frames,     \* what is under frames/
    manifest,   \* MANIFEST.csv
    call,       \* the run that is going on
    step,       \* where it is
    todo,       \* the directories it has still to do
    rows,       \* the rows it has collected
    last        \* the run that went to its end, nothing having been touched since

curating == <<frames, manifest, call, step, todo, rows, last>>

-----------------------------------------------------------------------------
(* The picks.                                                              *)

\* Mutant: a whole step, so the end of the list is never reached.
EvenlySpacedWholeStep(n, count) ==
    IF count >= n THEN [i \in 0..(n - 1) |-> i] ELSE [i \in 0..(count - 1) |-> i * (n \div count)]

EvenlySpaced(n, count) ==
    IF count >= n THEN [i \in 0..(n - 1) |-> i]
    ELSE [i \in 0..(count - 1) |->
             IF <<i, n, count>> \in RoundedDown THEN (i * n) \div count - 1
             ELSE (i * n) \div count]

Picks(dir, c) == LET p == EvenlySpaced(Sources[dir[2]], c.count[dir[2]])
                 IN  {<<dir, i, p[i]>> : i \in DOMAIN p}

InDir(dir) == {f \in frames : f[1] = dir}

Directories(categories) ==
    [k \in 1..(2 * Len(categories)) |->
        <<categories[(k + 1) \div 2], IF k % 2 = 1 THEN "normal" ELSE "anomaly">>]

Selection(c) == LET dirs == Directories(c.categories)
                IN  UNION {Picks(dirs[k], c) : k \in DOMAIN dirs}

\* What is committed is the outcome of a run over every category.
CurationInit ==
    /\ \E c \in Calls :
          /\ Len(c.categories) = Len(Names)
          /\ \A l \in Labels : Sources[l] # 0 /\ c.count[l] # 0
          /\ frames = Selection(c)
          /\ last = c
    /\ manifest = frames
    /\ call = NoCall
    /\ step = "idle"
    /\ todo = <<>>
    /\ rows = {}

-----------------------------------------------------------------------------
(* A run.                                                                  *)

Begin ==
    /\ step = "idle"
    /\ \E c \in Calls : call' = c /\ todo' = Directories(c.categories)
    /\ rows' = {}
    /\ step' = "pick"
    /\ UNCHANGED <<frames, manifest, last>>

Stop == call' = NoCall /\ step' = "idle" /\ todo' = <<>> /\ rows' = {}

\* No picture to pick from, or none wanted (a division by zero): the run ends
\* before it touches the directory.
Pick ==
    /\ step = "pick"
    /\ todo # <<>>
    /\ LET label == Head(todo)[2] IN
       IF Sources[label] = 0 \/ call.count[label] = 0 THEN Stop
       ELSE step' = "clear" /\ UNCHANGED <<call, todo, rows>>
    /\ UNCHANGED <<frames, manifest, last>>

\* Mutant: what is there stays.
ClearNothing ==
    /\ step = "clear"
    /\ step' = "write"
    /\ last' = NoCall
    /\ UNCHANGED <<frames, manifest, call, todo, rows>>

\* The frames that are there go, one after the other in no order.
Clear ==
    /\ step = "clear"
    /\ \/ /\ \E f \in InDir(Head(todo)) : frames' = frames \ {f}
          /\ UNCHANGED step
       \/ /\ InDir(Head(todo)) = {}
          /\ step' = "write"
          /\ UNCHANGED frames
    /\ last' = NoCall
    /\ UNCHANGED <<manifest, call, todo, rows>>

\* A file of the same number is overwritten.
Put(f) == {g \in frames : g[1] # f[1] \/ g[2] # f[2]} \cup {f}

\* The picks in their order, each with its row.
Write ==
    /\ step = "write"
    /\ LET written == Cardinality({r \in rows : r[1] = Head(todo)})
           next    == {f \in Picks(Head(todo), call) : f[2] = written}
       IN  IF next = {} THEN /\ todo' = Tail(todo) /\ step' = "pick"
                             /\ UNCHANGED <<frames, rows>>
           ELSE \E f \in next : /\ frames' = Put(f) /\ rows' = rows \cup {f}
                                /\ UNCHANGED <<todo, step>>
    /\ UNCHANGED <<manifest, call, last>>

\* Opening the manifest for writing empties it.
OpenManifest ==
    /\ step = "pick"
    /\ todo = <<>>
    /\ manifest' = {}
    /\ step' = "manifest"
    /\ UNCHANGED <<frames, call, todo, rows, last>>

WriteManifest ==
    /\ step = "manifest"
    /\ manifest' = rows
    /\ last' = call
    /\ Stop
    /\ UNCHANGED frames

Interrupt ==
    /\ step # "idle"
    /\ Stop
    /\ UNCHANGED <<frames, manifest, last>>

Curate == Begin \/ Pick \/ Clear \/ Write \/ OpenManifest \/ WriteManifest \/ Interrupt

-----------------------------------------------------------------------------
(* Properties.                                                             *)

Of(c, rs) == {f \in rs : \E k \in 1..Len(c.categories) : f[1][1] = c.categories[k]}

\* After a run that went to its end the manifest lists the frames of its
\* categories, each with the picture it was made of, and nothing else; and
\* "re-running produces the same subset" (curate-visa.py, lines 14-16): these
\* depend on the arguments alone, not on what earlier or interrupted runs left.
ManifestIsExact ==
    last # NoCall => manifest = Of(last, frames) /\ manifest = Selection(last)

\* The picks preserve the "spread across the sorted list" (curate-visa.py, line
\* 35): they begin at its beginning, follow each other in steps that differ by one
\* at most whatever the rounding, and end a step from its end.
SpreadAcrossTheList ==
    last # NoCall => \A f \in Of(last, frames) :
        LET n     == Sources[f[1][2]]
            k     == Cardinality(InDir(f[1]))
            least == n \div k
            most  == (n + k - 1) \div k
        IN  /\ f[2] = 0 => f[3] = 0
            /\ f[2] = k - 1 => n - f[3] \in 1..most
            /\ \A g \in InDir(f[1]) : g[2] = f[2] + 1 => g[3] - f[3] \in least..most
=============================================================================
