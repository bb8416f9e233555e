------------------------------ MODULE RetriedCall ------------------------------
(***************************************************************************)
(* What a caller may rely on when it runs an external command through the  *)
(* retry layer: the command may be executed any number of times, each      *)
(* execution may or may not take effect in the outside world, and the call *)
(* finally answers "ok" or "error".  "ok" implies that the command took    *)
(* effect; "error" implies nothing, because the reply of an execution that *)
(* did take effect can be lost.  The modules of the commands that push,    *)
(* copy, fetch or register use the retry layer at this level.              *)
(***************************************************************************)
VARIABLES effect,   \* has some execution taken effect outside?
          answer    \* "none" until the call returns, then "ok" or "error"

cvars == <<effect, answer>>

TypeOK == effect \in BOOLEAN /\ answer \in {"none", "ok", "error"}

Init == effect = FALSE /\ answer = "none"

\* One execution of the command: its effect, once there, stays.
Execute == /\ answer = "none"
           /\ effect' \in {effect, TRUE}
           /\ UNCHANGED answer

ReturnOk == answer = "none" /\ effect /\ answer' = "ok" /\ UNCHANGED effect

ReturnError == answer = "none" /\ answer' = "error" /\ UNCHANGED effect

Next == Execute \/ ReturnOk \/ ReturnError

Spec == Init /\ [][Next]_cvars
================================================================================
