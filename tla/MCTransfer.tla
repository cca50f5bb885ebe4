---- MODULE MCTransfer ----
EXTENDS Transfer
====
