---------------------------- MODULE MCPreparation ----------------------------
EXTENDS KnowledgeBase
CONSTANTS manual, main, second
MCCovers == [d \in Docs \cup {Manual} |-> CASE d = 1 -> Hard [] d = 2 -> Soft [] OTHER -> Categories]
MCChunks == [f \in Files |-> IF f = manual THEN 2 ELSE 1]
MCMaxEdit == [f \in Files |-> IF f = main THEN 3 ELSE 1]
\* The main program is cut to next to nothing and written anew: in between it makes no
\* document, and as long as it is there no other one does in its place.
MCRead == {<<manual, 1>>, <<main, 1>>, <<main, 3>>, <<second, 1>>}
MCBefore == [f \in Examples |-> IF f = second THEN {main} ELSE {}]
===============================================================================
