-------------------------------- MODULE MCPage --------------------------------
(***************************************************************************)
(* What a page does and gets: the index jobs that it asks for, its         *)
(* inspector, thumbnails, the pages of a user's comments, and the inputs   *)
(* that it sends.  These parts share no variable and each property is      *)
(* about one of them, so that one part at a time may move: "focus" says    *)
(* which.  No action with a fairness condition is enabled in a part that   *)
(* rests.                                                                  *)
(***************************************************************************)
EXTENDS IndexRequests, Inspector, Thumbnails, History, MCInputs

VARIABLE focus

\* The thumbnails of one file in focus, since a row depends on its own file alone.
OneFile == {<<"thumbnails", SmallOf(f)>> : f \in Files}

Foci == {<<part, "all">> : part \in {"jobs", "inspector", "history", "inputs"}} \cup OneFile

\* The part in focus begins in any of its initial states, the others in one of them; by
\* the symmetry of views and of images one of each stands for all.
PageInit ==
    /\ focus \in Foci
    /\ Init
    /\ InspectorInit
    /\ ThumbnailsInit
    /\ HistoryInit
    /\ IF focus[1] = "inputs" THEN InputsInit ELSE input = <<>>
    /\ hash.view = CHOOSE view \in Views : TRUE
    /\ hash.image \in {NoImage, CHOOSE image \in Images : TRUE}
    /\ focus[1] # "inspector" => hash.image = NoImage
    /\ \A r \in Readers :
           req[r].key = IF focus \in OneFile THEN focus[2] ELSE CHOOSE k \in Keys : TRUE

ThumbnailStep(k) ==
    /\ ThumbnailsNext
    /\ \A r \in Readers : req'[r].key = k
    /\ \A f \in Files \ {k[1]} : disk'[f] = disk[f]
    /\ \A f \in Videos \ {k[1]} : scan'[f] = scan[f]

PageNext ==
    /\ UNCHANGED <<focus, input>>
    /\ \/ focus[1] = "jobs" /\ Next
       \/ focus[1] # "jobs" /\ UNCHANGED vars
    /\ \/ focus[1] = "inspector" /\ InspectorNext
       \/ focus[1] # "inspector" /\ UNCHANGED inspector_vars
    /\ \/ focus \in OneFile /\ ThumbnailStep(focus[2])
       \/ focus \notin OneFile /\ UNCHANGED thumbnail_vars
    /\ \/ focus[1] = "history" /\ HistoryNext
       \/ focus[1] # "history" /\ UNCHANGED history_vars

page_vars == <<focus, input, vars, inspector_vars, thumbnail_vars, history_vars>>

PageSpec == PageInit /\ [][PageNext]_page_vars /\ Fairness
==============================================================================
