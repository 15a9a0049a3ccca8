---- MODULE MCLspClient ----
EXTENDS LspClient
====
