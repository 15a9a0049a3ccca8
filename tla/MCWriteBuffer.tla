---- MODULE MCWriteBuffer ----
EXTENDS WriteBuffer
====
