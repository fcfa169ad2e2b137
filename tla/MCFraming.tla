------------------------------ MODULE MCFraming ------------------------------
(* Bytes are bits and a header has two of them, so that a payload has at    *)
(* most three bytes; the limit is two.  Sessions send up to three messages: *)
(* empty, short, as long as allowed, and too large.                         *)
EXTENDS Framing

MCPayload == {<<>>, <<1>>, <<0, 1>>, <<1, 0, 1>>}
=============================================================================
