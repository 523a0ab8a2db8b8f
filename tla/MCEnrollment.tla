----------------------------- MODULE MCEnrollment -----------------------------
EXTENDS Enrollment

CONSTANTS u1, u2, r1
=============================================================================
