--------------------------- MODULE MCSourceCapture ---------------------------
(* Small instances of SourceCapture for TLC: a turn that may come back with  *)
(* changed content, alone or with a second one that compression may drop.   *)
EXTENDS SourceCapture

CONSTANTS h1, h2

One(h) == [i \in Ids |-> IF i = 1 THEN h ELSE None]
Both == [i \in Ids |-> h1]

MCBatches == {[turns |-> One(h1), kept |-> {1}], [turns |-> One(h2), kept |-> {1}],
              [turns |-> Both, kept |-> {1, 2}], [turns |-> Both, kept |-> {2}]}
=============================================================================
