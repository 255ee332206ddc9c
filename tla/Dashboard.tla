------------------------------ MODULE Dashboard ------------------------------
(***************************************************************************)
(* app/dashboard/app.py: a server that passes requests on to the analyzer, *)
(* and the page.  The page asks for the state every second whether or not  *)
(* the last answer has come, writes an answer into the cards when it       *)
(* comes, and has each card's picture fetched by a request of its own.  It *)
(* asks for the runtime (node and card) every five seconds.  Any request   *)
(* may time out, and the analyzer may be killed and started elsewhere.     *)
(*                                                                         *)
(* A card holds its score (the frame it is the score of) and whether it is *)
(* red; forecast, report and costs come from the same answer and are left  *)
(* out, and so is the card without a score that the page makes of the key  *)
(* of an {"error": ...} answer.  MaxOut bounds the requests for the state  *)
(* that are under way.                                                     *)
(***************************************************************************)
EXTENDS Streams, Sequences, SequencesExt

CONSTANT MaxOut

ASSUME PageAssumption == MaxOut \in Nat \ {0}

VARIABLES
    latest, sent,   \* what the analyzer shows
    jpeg,           \* by camera, the frame in the analyzer's picture, 0 if it has none
    defective,      \* history: the frames that reached their threshold
    encoded,        \* history: the frames that became the analyzer's picture
    up,             \* the analyzer runs
    out,            \* requests for the state, the oldest first
    cards,          \* by camera
    picture,        \* by camera, the frame in the card's picture; 0 for none, or not yet
    loading,        \* the cards whose picture is being fetched
    RT              \* whose runtime the page has: no pod's, a gone one's or this one's

analyzer == <<latest, sent, jpeg, defective, encoded, up>>
page     == <<out, cards, picture, loading>>
pageVars     == <<analyzer, page, RT>>

Analyzer == INSTANCE LatestResult

NoCard   == [score |-> 0, red |-> FALSE, there |-> FALSE]
Card     == [score : 0..MaxFrames, red : BOOLEAN, there : BOOLEAN]

\* An answer: what each camera's entry was, or {"error": ...}.
Nobody   == [c \in Cameras |-> Analyzer!Absent]
Request  == [reply : {"none", "error", "state"}, entries : [Cameras -> Analyzer!Outcome],
             overlapped : BOOLEAN]

NewRequest == [reply |-> "none", entries |-> Nobody, overlapped |-> FALSE]

PageTypeOK ==
    /\ latest \in [Cameras -> Analyzer!Outcome]
    /\ sent \in [Cameras -> 0..MaxFrames]
    /\ jpeg \in [Cameras -> 0..MaxFrames]
    /\ defective \in [Cameras -> SUBSET Frames]
    /\ encoded \in [Cameras -> SUBSET Frames]
    /\ up \in BOOLEAN
    /\ out \in Seq(Request)
    /\ cards \in [Cameras -> Card]
    /\ picture \in [Cameras -> 0..MaxFrames]
    /\ loading \subseteq Cameras
    /\ RT \in {"none", "gone", "this"}

PageInit ==
    /\ Analyzer!Init
    /\ jpeg = [c \in Cameras |-> 0]
    /\ defective = [c \in Cameras |-> {}]
    /\ encoded = [c \in Cameras |-> {}]
    /\ up = TRUE
    /\ out = <<>>
    /\ cards = [c \in Cameras |-> NoCard]
    /\ picture = [c \in Cameras |-> 0]
    /\ loading = {}
    /\ RT = "none"

-----------------------------------------------------------------------------
(* The analyzer.                                                           *)

\* An outcome replaces the one before; its frame the picture, if it can be encoded.
Watched(c) ==
    /\ up
    /\ Analyzer!Register(c) \/ Analyzer!Publish(c)
    /\ defective' = [defective EXCEPT ![c] =
                  IF latest'[c].verdict = "FAIL" THEN @ \cup {latest'[c].score} ELSE @]
    /\ \E shown \in {latest'[c].score, jpeg[c]} :
          /\ jpeg' = [jpeg EXCEPT ![c] = shown]
          /\ encoded' = [encoded EXCEPT ![c] = @ \cup ({shown} \ {0})]
    /\ UNCHANGED <<up, page, RT>>

Down ==
    /\ up
    /\ up' = FALSE
    /\ Analyzer!Forget
    /\ jpeg' = [c \in Cameras |-> 0]
    /\ RT' = IF RT = "this" THEN "gone" ELSE RT
    /\ UNCHANGED <<defective, encoded, page>>

Up ==
    /\ ~up
    /\ up' = TRUE
    /\ UNCHANGED <<latest, sent, jpeg, defective, encoded, page, RT>>

-----------------------------------------------------------------------------
(* The state: setInterval(tick, 1000).                                     *)

Tick ==
    /\ Len(out) < MaxOut
    /\ out' = Append(out, NewRequest)
    /\ UNCHANGED <<analyzer, cards, picture, loading, RT>>

\* The analyzer answers with what it has now.
PassOn(i) ==
    /\ out[i].reply = "none" /\ up
    /\ out' = [out EXCEPT ![i] =
                  [reply |-> "state", entries |-> latest, overlapped |-> @.overlapped]]
    /\ UNCHANGED <<analyzer, cards, picture, loading, RT>>

\* It does not, within 5 seconds: a 502 whose body is JSON all the same.
GiveUp(i) ==
    /\ out[i].reply = "none"
    /\ out' = [out EXCEPT ![i].reply = "error"]
    /\ UNCHANGED <<analyzer, cards, picture, loading, RT>>

\* Mutant: the threshold is a constant, above every score of the model.
WrittenGreen(entry) ==
    [score |-> entry.score, red |-> FALSE, there |-> TRUE]

\* The class is the page's own comparison, of the score with the camera's
\* threshold; an entry with no frame has neither and is green.
Written(entry) ==
    [score |-> entry.score, red |-> entry.verdict = "FAIL", there |-> TRUE]

\* The cameras an answer tells of.  The page does not look at the status: an error
\* is an answer like another, and tells of none.
Told(request) ==
    IF request.reply = "error" THEN {}
    ELSE {c \in Cameras : request.entries[c] # Analyzer!Absent}

\* The answer is gone from the queue; those under way with it are marked.
Taken(i) ==
    RemoveAt([j \in DOMAIN out |-> [out[j] EXCEPT !.overlapped = TRUE]], i)

\* Mutant: an answer with no entry clears the cards.
ApplyClearing(i) ==
    /\ out[i].reply # "none"
    /\ cards' = [c \in Cameras |->
            IF c \in Told(out[i]) THEN Written(out[i].entries[c]) ELSE NoCard]
    /\ loading' = loading \cup Told(out[i])
    /\ out' = Taken(i)
    /\ UNCHANGED <<analyzer, picture, RT>>

\* Mutant: the picture's address does not change, so it is fetched once.
ApplySamePicture(i) ==
    /\ out[i].reply # "none"
    /\ cards' = [c \in Cameras |->
            IF c \in Told(out[i]) THEN Written(out[i].entries[c]) ELSE cards[c]]
    /\ loading' = loading \cup {c \in Told(out[i]) : ~cards[c].there}
    /\ out' = Taken(i)
    /\ UNCHANGED <<analyzer, picture, RT>>

\* Mutant: a card is written when it is made.
ApplyNewOnly(i) ==
    /\ out[i].reply # "none"
    /\ cards' = [c \in Cameras |->
            IF c \in Told(out[i]) /\ ~cards[c].there THEN Written(out[i].entries[c])
            ELSE cards[c]]
    /\ loading' = loading \cup Told(out[i])
    /\ out' = Taken(i)
    /\ UNCHANGED <<analyzer, picture, RT>>

\* One task: every card the answer tells of is made or rewritten, and its
\* picture asked for anew; no other card is touched.
Apply(i) ==
    /\ out[i].reply # "none"
    /\ cards' = [c \in Cameras |->
            IF c \in Told(out[i]) THEN Written(out[i].entries[c]) ELSE cards[c]]
    /\ loading' = loading \cup Told(out[i])
    /\ picture' = [c \in Cameras |-> IF c \in Told(out[i]) THEN 0 ELSE picture[c]]
    /\ out' = Taken(i)
    /\ UNCHANGED <<analyzer, RT>>

\* The browser does not get an answer at all; the next tick comes anyway.
Drop(i) ==
    /\ out' = Taken(i)
    /\ UNCHANGED <<analyzer, cards, picture, loading, RT>>

-----------------------------------------------------------------------------
(* The picture, /api/frame/<camera>.jpg.                                   *)

\* The analyzer's picture at the moment the request is served; 0 for 404 and 502.
Fetch(c) ==
    /\ c \in loading
    /\ picture' = [picture EXCEPT ![c] = jpeg[c]]
    /\ loading' = loading \ {c}
    /\ UNCHANGED <<analyzer, out, cards, RT>>

FetchFails(c) ==
    /\ c \in loading
    /\ picture' = [picture EXCEPT ![c] = 0]
    /\ loading' = loading \ {c}
    /\ UNCHANGED <<analyzer, out, cards, RT>>

-----------------------------------------------------------------------------
(* The runtime: setInterval(runtime, 5000).                                *)

\* Mutant: the runtime is kept once it is there.
RuntimeOnce ==
    /\ up
    /\ RT' = IF RT = "none" THEN "this" ELSE RT
    /\ UNCHANGED <<analyzer, page>>

\* A request that gets through.  One that does not gives a page that is not
\* JSON, there being no try in the server; the page catches that and keeps RT.
Runtime ==
    /\ up
    /\ RT' = "this"
    /\ UNCHANGED <<analyzer, page>>

-----------------------------------------------------------------------------
PageNext ==
    \/ Down \/ Up \/ Tick \/ Runtime
    \/ \E c \in Cameras : Watched(c) \/ Fetch(c) \/ FetchFails(c)
    \/ \E i \in DOMAIN out : PassOn(i) \/ GiveUp(i) \/ Apply(i) \/ Drop(i)

Head1 == DOMAIN out # {} /\ (PassOn(1) \/ GiveUp(1) \/ Apply(1) \/ Drop(1))

\* The timers go off, a request ends in one way or another, and one that is made
\* again and again gets through now and then.
PageFairness ==
    /\ WF_pageVars(Tick) /\ WF_pageVars(Head1)
    /\ SF_pageVars(Len(out) > 0 /\ PassOn(Len(out)))
    /\ SF_pageVars(Len(out) > 0 /\ out[Len(out)].reply = "state" /\ Apply(Len(out)))
    /\ SF_pageVars(Runtime)

PageSpec == PageInit /\ [][PageNext]_pageVars /\ PageFairness

-----------------------------------------------------------------------------
(* Properties.                                                             *)

\* A card is red exactly if the frame whose score it shows reached the threshold
\* of its own model: "it used to be hardcoded ... which after the detector
\* changed meant every camera rendered green" (app.py, lines 85-87).
RedIsDefective ==
    \A c \in Cameras : cards[c].red <=> cards[c].score \in defective[c]

\* The picture that comes with a card is the one that came with its score or a
\* later one, though the two are fetched one after the other, across restarts of the
\* analyzer and answers out of order.  It can be of an older frame than the score
\* only if the frames since could not be encoded: none that was lies in between.
PictureNotOlder ==
    \A c \in Cameras :
        c \notin loading /\ picture[c] # 0 =>
            \A n \in encoded[c] : n <= cards[c].score => n <= picture[c]

\* What stands on one card belongs together (app.py, tick).
CardsAreTrue == PageTypeOK /\ RedIsDefective /\ PictureNotOlder

\* A card goes back to an older frame only with an answer that was under way
\* when an earlier one came, or when the analyzer has started anew: the only
\* disorder is that of the requests the timer lets overlap.
BackOnlyWhenOverlapped ==
    [][\A c \in Cameras :
          cards'[c].score < cards[c].score =>
              \/ \E i \in DOMAIN out : out[i].entries[c] = Analyzer!Waiting
              \/ \E i \in DOMAIN out :
                    out[i].overlapped /\ out[i].entries[c].score = cards'[c].score]_pageVars

\* An outcome that stays is shown in the end, whatever was lost, late or refused
\* before; and so is where the analyzer runs, once it has moved.
CardCatchesUp ==
    \A c \in Cameras : \A n \in Frames :
        latest[c].score = n ~> (cards[c].score = n \/ latest[c].score # n)
RuntimeCatchesUp == up ~> (RT = "this" \/ ~up)

\* The page catches up with the analyzer (app.py, tick and runtime).
PageCatchesUp == CardCatchesUp /\ RuntimeCatchesUp
=============================================================================
