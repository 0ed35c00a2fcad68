----------------------------- MODULE VectorIndex -----------------------------
(***************************************************************************)
(* What the similar-images feature promises of one image's vector: the     *)
(* vector that is served was built from the tags and comments the image    *)
(* has now, or none is served.  An edit takes the vector out of service in *)
(* the same step, and a text without words is never served.                *)
(***************************************************************************)
CONSTANTS Images, Contents, Silent, Gone, Unserved

VARIABLES content, served

Init ==
    /\ content \in [Images -> Contents]
    /\ served = [i \in Images |-> Unserved]

\* A transaction changes the tags or comments of i, or deletes the image.
Edit(i) ==
    /\ content[i] # Gone
    /\ \E text \in Contents \cup {Gone} : content' = [content EXCEPT ![i] = text]
    /\ served' = [served EXCEPT ![i] = Unserved]

Serve(i) ==
    /\ content[i] \in Contents \ Silent
    /\ served' = [served EXCEPT ![i] = content[i]]
    /\ UNCHANGED content

\* A rebuild, or a new version of the algorithm, takes vectors out of service.
Withdraw(S) ==
    /\ served' = [i \in Images |-> IF i \in S THEN Unserved ELSE served[i]]
    /\ UNCHANGED content

Next ==
    \/ \E i \in Images : Edit(i) \/ Serve(i)
    \/ \E S \in SUBSET Images : Withdraw(S)

Spec == Init /\ [][Next]_<<content, served>>
==============================================================================
