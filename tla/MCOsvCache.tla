----------------------------- MODULE MCOsvCache -----------------------------
(* Small instance of OsvCache: two overlapping runs that may be started over *)
(* again, two packages in batches of one, max_retries 0 (no attempt) or 2.   *)
EXTENDS OsvCache, TLC

MCSymmetry == Permutations(Clients) \cup Permutations(Packages)
=============================================================================
