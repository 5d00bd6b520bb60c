------------------------------ MODULE AtomicPut ------------------------------
(***************************************************************************)
(* What IApiClient::PutObject promises its caller: between the call and    *)
(* the answer the object is replaced as a whole or not at all.  "ok" says  *)
(* that it was replaced, "error" leaves it open.                           *)
(***************************************************************************)
CONSTANTS
  Callers,
  Old,       (* the object before                                          *)
  Contents   (* what may be put                                            *)

VARIABLES
  stage,     (* stage[c]: where caller c is in its call                    *)
  content,   (* content[c]: what it puts                                   *)
  object     (* object[c]: the object it puts to                           *)

vars == <<stage, content, object>>

Init ==
  /\ stage = [c \in Callers |-> "idle"]
  /\ content \in [Callers -> Contents]
  /\ object = [c \in Callers |-> Old]

Begin(c) ==
  /\ stage[c] = "idle"
  /\ stage' = [stage EXCEPT ![c] = "busy"]
  /\ \E x \in Contents : content' = [content EXCEPT ![c] = x]
  /\ UNCHANGED object

Replace(c) ==
  /\ stage[c] = "busy"
  /\ object' = [object EXCEPT ![c] = content[c]]
  /\ UNCHANGED <<stage, content>>

Return(c) ==
  /\ stage[c] = "busy"
  /\ \E answer \in {"ok", "error"}, x \in {object[c], content[c]} :
        /\ answer = "ok" => x = content[c]
        /\ stage' = [stage EXCEPT ![c] = answer]
        /\ object' = [object EXCEPT ![c] = x]
  /\ UNCHANGED content

Next == \E c \in Callers : Begin(c) \/ Replace(c) \/ Return(c)

Spec == Init /\ [][Next]_vars
==============================================================================
