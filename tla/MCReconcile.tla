----------------------------- MODULE MCReconcile -----------------------------
EXTENDS Reconcile

CONSTANTS u1, r1, other
=============================================================================
