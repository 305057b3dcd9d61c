----------------------------- MODULE MCCredentials -----------------------------
EXTENDS Credentials, TLC

Symmetric == Permutations(Sessions)
================================================================================
