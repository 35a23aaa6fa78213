------------------------------ MODULE MCFraming ------------------------------
EXTENDS Framing, TLC
=============================================================================
