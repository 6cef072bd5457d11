---- MODULE MCNodeLink ----
EXTENDS NodeLink

CONSTANTS n1, n2, x1, x2, x3
====
