----------------------------- MODULE MCFraming -----------------------------
EXTENDS Framing
\* A length field of two binary digits: 3 is the longest message that fits.
MCMessages == {<<>>, <<1>>, <<0, 0, 1>>, <<0, 0, 0, 0>>}
\* Both ends of the plain ranges, a newline next to what it is encoded as, and a byte
\* of a UTF-8 sequence
MCStatusMessages == {<<>>, <<32>>, <<36, 38>>, <<37>>, <<10>>, <<37, 48, 65>>, <<126>>,
                     <<127>>, <<195, 169>>, <<0>>}
=============================================================================
