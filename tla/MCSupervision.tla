--------------------------- MODULE MCSupervision ---------------------------
\* Supervision on a small instance: one name, whose instances follow one another.
EXTENDS Supervision

MCDelays == {1, 2}
=============================================================================
