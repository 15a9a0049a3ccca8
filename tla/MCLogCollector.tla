---- MODULE MCLogCollector ----
EXTENDS LogCollector
====
