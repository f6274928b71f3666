------------------------ MODULE MCBackpressureBuffer ------------------------
(* Sizes for the model-checked instance of BackpressureBuffer.             *)
EXTENDS BackpressureBuffer

\* the defaults high = cap, low = high/2
ConstructorSizes == {<<2, 0, -1>>}
\* a Resize that shrinks to one slot, with explicit watermarks
ResizedSizes == {<<1, 1, 0>>}
=============================================================================
