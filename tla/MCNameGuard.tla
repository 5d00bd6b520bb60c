----------------------------- MODULE MCNameGuard -----------------------------
(* NameGuard with three dispatcher threads on two names.                    *)
EXTENDS NameGuard
=============================================================================
