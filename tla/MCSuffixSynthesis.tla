------------------------- MODULE MCSuffixSynthesis -------------------------
(* Texts over two words; a failed response may have been cut off by the    *)
(* length limit, a solution may spell out the end-of-sequence token.       *)
EXTENDS SuffixSynthesis

CONSTANTS a, b, eos

Words(n) == UNION {[1..m -> {a, b}] : m \in 1..n}
Closed(n) == {Append(w, eos) : w \in Words(n)}

MCResponse == Words(3) \cup Closed(2)
MCSolution == Words(4) \cup Closed(3)
=============================================================================
