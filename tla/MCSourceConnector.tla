------------------------- MODULE MCSourceConnector --------------------------
(* The background loop and one POST /connectors/file/poll over a source of  *)
(* two records, in front of a queue with room for one.                      *)
EXTENDS SourceConnector

CONSTANTS t1, t2, loop, request

\* The two keys play the same part, so the one written first is t1; a key read
\* twice is left to the polls that re-read a line.
KeysInOrder ==
    \A o \in DOMAIN source' :
        /\ source'[o] = t2 => \E e \in 1..o - 1 : source'[e] = t1
        /\ \A e \in 1..o - 1 : source'[e] = source'[o] => source'[o] = Junk
=============================================================================
