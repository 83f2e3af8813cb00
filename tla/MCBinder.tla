------------------------------ MODULE MCBinder ------------------------------
EXTENDS Binder
=============================================================================
