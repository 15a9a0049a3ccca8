---- MODULE MCDurability ----
EXTENDS Durability
====
