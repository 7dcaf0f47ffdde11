---------------------------- MODULE MCBackground ----------------------------
(* What the thread of ios_ does beside the heartbeat, in one instance for  *)
(* TLC: the timers of the LED panels and the removal of pictures.  The two *)
(* share no state, and a behaviour is about one of them.                   *)
EXTENDS LedDisplay, PictureStore

VARIABLE part  \* "led" or "pictures"

(* A pass event with two pictures, a voucher that is submitted twice.      *)
TwoEach == <<2, 2>>

Init ==
    /\ LedInit /\ PicInit
    /\ \/ part = "led"
       \/ part = "pictures" /\ greeting = FALSE

Next ==
    \/ part = "led" /\ LedNext /\ UNCHANGED <<part, pic_vars>>
    \/ part = "pictures" /\ PicNext /\ UNCHANGED <<part, led_vars>>

vars == <<part, led_vars, pic_vars>>

(* PicFairness, where the behaviour is about pictures.                     *)
FairSpec ==
    /\ Init /\ [][Next]_vars
    /\ \A t \in PicThreads : WF_vars(part = "pictures" /\ PicStep(t) /\ UNCHANGED <<part, led_vars>>)
    /\ WF_vars(part = "pictures" /\ clear_pic /\ UNCHANGED <<part, led_vars>>)
    /\ WF_vars(part = "pictures" /\ Restart /\ UNCHANGED <<part, led_vars>>)
=============================================================================
