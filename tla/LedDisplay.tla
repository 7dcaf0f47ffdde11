----------------------------- MODULE LedDisplay -----------------------------
(***************************************************************************)
(* The texts on the LED panels.  What a car has to pay is shown for some   *)
(* seconds (a fee of nothing, or nobody at the terminal) or until          *)
(* something else is shown; a plate is shown for some seconds.  A text     *)
(* shown for some seconds starts a timer.  The handler for a fee puts the  *)
(* resting text back, a greeting or an empty panel.  The handler for a     *)
(* plate puts the greeting of the entrances on the panel, or, where none   *)
(* is configured, the number of free places on every entrance.             *)
(*                                                                         *)
(* A terminal that operates a device has a plate or a fee shown by the     *)
(* direction it names, whatever the device is: both kinds of text appear   *)
(* on every panel.  The timers of fees and of plates are on different      *)
(* lists, and a show touches the list of its kind only.                    *)
(*                                                                         *)
(* A text is shown in four steps, on any thread: cancel and forget the     *)
(* timers of the list (under its mutex), send the text, put a new timer on *)
(* the list (under the mutex), start it.  The handlers run one after the   *)
(* other on the thread of ios_.  A timer that is cancelled before it is    *)
(* started, or after its handler was queued, runs its handler all the      *)
(* same.  A show is identified by a number, and so is its timer; its       *)
(* stage tells where the thread that shows it is and, once that is done,   *)
(* where its timer is.                                                     *)
(***************************************************************************)
EXTENDS Integers, Sequences, FiniteSets, SequencesExt

CONSTANTS Exits,       \* exit panels
          Entrances,   \* entrance panels
          MaxShows,    \* bound: texts shown for a car
          MaxMishaps   \* bound: commands that fail, resting texts shown by others

Panels == Exits \cup Entrances
Shows == 1 .. MaxShows
NoShow == 0
Kinds == {"plate", "brief", "due"}  \* a plate, a fee for some seconds, a fee to be paid
Lists == {"entrance", "exit"} \X Panels

ASSUME LedAssumption ==
    /\ Exits \cap Entrances = {} /\ IsFiniteSet(Entrances) /\ Exits # {}
    /\ MaxShows \in Nat /\ MaxMishaps \in Nat

VARIABLES
    greeting,  \* whether a greeting is configured for the entrances
    led,       \* led[d]: the show whose text is on panel d, NoShow for a resting text
    panel,     \* panel[n]: where show n takes place
    kind,      \* kind[n]: what show n shows
    stage,     \* stage[n]: the step show n has reached
    timers,    \* entrance_led_timers_ and exit_led_timers_, by panel
    queue,     \* handlers queued on ios_
    handler,   \* the panels the running handler has still to set
    failed,    \* failed[d]: the newest command to panel d has failed
    calm,      \* calm[d]: the due fee with which nothing on d overlapped, if any
    mishaps    \* how many of MaxMishaps have happened

led_vars == <<greeting, led, panel, kind, stage, timers, queue, handler, failed, calm, mishaps>>

LedInit ==
    /\ greeting \in BOOLEAN
    /\ led = [d \in Panels |-> NoShow]
    /\ panel = [n \in Shows |-> CHOOSE d \in Exits : TRUE]
    /\ kind = [n \in Shows |-> "due"]
    /\ stage = [n \in Shows |-> "none"]
    /\ timers = [l \in Lists |-> {}]
    /\ queue = <<>> /\ handler = <<>>
    /\ failed = [d \in Panels |-> FALSE]
    /\ calm = [d \in Panels |-> NoShow]
    /\ mishaps = 0

ListOf(n) == <<IF kind[n] = "plate" THEN "entrance" ELSE "exit", panel[n]>>
Mishap == mishaps < MaxMishaps /\ mishaps' = mishaps + 1

(* operate_led: the panel shows the text, or the command throws.           *)
Display(d, show) ==
    /\ led' = [led EXCEPT ![d] = show]
    /\ failed' = [failed EXCEPT ![d] = FALSE]

DisplayThrows(d) ==
    /\ Mishap
    /\ failed' = [failed EXCEPT ![d] = TRUE]
    /\ UNCHANGED led

-----------------------------------------------------------------------------
(* led_show_charge, with a duration or without, and led_show_plate_number. *)
(* Shows are numbered in the order in which they begin.                    *)
BeginShow(n, d, k) ==
    /\ stage[n] = "none" /\ \A m \in 1 .. n - 1 : stage[m] # "none"
    /\ stage' = [stage EXCEPT ![n] = "cancel"]
    /\ panel' = [panel EXCEPT ![n] = d]
    /\ kind' = [kind EXCEPT ![n] = k]
    /\ calm' = [calm EXCEPT ![d] = NoShow]
    /\ UNCHANGED <<greeting, led, timers, queue, handler, failed, mishaps>>

(* Something else is happening to the panel show n is about to use:        *)
(* another show, a handler, or a timer that show n does not cancel, of the *)
(* other list or taken off the list before it was started.                 *)
Overlapping(n) ==
    \/ \E m \in Shows \ {n} : panel[m] = panel[n] /\ stage[m] \in {"cancel", "send", "push", "wait"}
    \/ \E m \in Shows : panel[m] = panel[n] /\ stage[m] = "waiting" /\ m \notin timers[ListOf(n)]
    \/ \E i \in DOMAIN queue : panel[queue[i]] = panel[n]
    \/ panel[n] \in ToSet(handler)

Calm(n) == [calm EXCEPT ![panel[n]] = IF kind[n] = "due" /\ ~Overlapping(n) THEN n ELSE NoShow]

(* Slip: the timers are forgotten but not cancelled. *)
ClearOnly(n) ==
    /\ stage[n] = "cancel"
    /\ stage' = [stage EXCEPT ![n] = "send"]
    /\ timers' = [timers EXCEPT ![ListOf(n)] = {}]
    /\ calm' = Calm(n)
    /\ UNCHANGED <<greeting, led, panel, kind, queue, handler, failed, mishaps>>

(* Slip: the timers of every panel are cancelled. *)
CancelsEveryTimer(n) ==
    /\ stage[n] = "cancel"
    /\ stage' = [m \in Shows |-> IF m = n THEN "send"
                                 ELSE IF stage[m] = "waiting" THEN "over" ELSE stage[m]]
    /\ timers' = [l \in Lists |-> {}]
    /\ calm' = Calm(n)
    /\ UNCHANGED <<greeting, led, panel, kind, queue, handler, failed, mishaps>>

CancelTimers(n) ==
    /\ stage[n] = "cancel"
    /\ stage' = [m \in Shows |-> IF m = n THEN "send"
                                 ELSE IF m \in timers[ListOf(n)] /\ stage[m] = "waiting"
                                 THEN "over" ELSE stage[m]]
    /\ timers' = [timers EXCEPT ![ListOf(n)] = {}]
    /\ calm' = Calm(n)
    /\ UNCHANGED <<greeting, led, panel, kind, queue, handler, failed, mishaps>>

(* Slip: a fee without a duration gets a timer. *)
TimesEveryText(n) ==
    /\ stage[n] = "send"
    /\ Display(panel[n], n)
    /\ stage' = [stage EXCEPT ![n] = "push"]
    /\ UNCHANGED <<greeting, panel, kind, timers, queue, handler, calm, mishaps>>

SendText(n) ==
    /\ stage[n] = "send"
    /\ Display(panel[n], n)
    /\ stage' = [stage EXCEPT ![n] = IF kind[n] = "due" THEN "over" ELSE "push"]
    /\ UNCHANGED <<greeting, panel, kind, timers, queue, handler, calm, mishaps>>

(* The timers are cancelled by now, and no new one is made.                *)
SendThrows(n) ==
    /\ stage[n] = "send"
    /\ DisplayThrows(panel[n])
    /\ stage' = [stage EXCEPT ![n] = "over"]
    /\ UNCHANGED <<greeting, panel, kind, timers, queue, handler, calm>>

PushTimer(n) ==
    /\ stage[n] = "push"
    /\ stage' = [stage EXCEPT ![n] = "wait"]
    /\ timers' = [timers EXCEPT ![ListOf(n)] = @ \cup {n}]
    /\ UNCHANGED <<greeting, led, panel, kind, queue, handler, failed, calm, mishaps>>

async_wait(n) ==
    /\ stage[n] = "wait"
    /\ stage' = [stage EXCEPT ![n] = "waiting"]
    /\ UNCHANGED <<greeting, led, panel, kind, timers, queue, handler, failed, calm, mishaps>>

(* A greeting or the number of free places shown for another reason: a     *)
(* device connects, a terminal binds it, a car backs in at the exit.       *)
led_show_greeting(d) ==
    /\ Mishap
    /\ Display(d, NoShow)
    /\ calm' = [calm EXCEPT ![d] = NoShow]
    /\ UNCHANGED <<greeting, panel, kind, stage, timers, queue, handler>>

-----------------------------------------------------------------------------
(* The timers.                                                             *)
Expires(n) ==
    /\ stage[n] = "waiting"
    /\ stage' = [stage EXCEPT ![n] = "queued"]
    /\ queue' = Append(queue, n)
    /\ UNCHANGED <<greeting, led, panel, kind, timers, handler, failed, calm, mishaps>>

(* What handle_exit_led_show_timer or handle_entrance_led_show_timer sets. *)
Restores(n) == IF kind[n] # "plate" \/ greeting THEN <<panel[n]>> ELSE SetToSeq(Entrances)

handle_led_show_timer ==
    /\ handler = <<>> /\ queue # <<>>
    /\ handler' = Restores(Head(queue))
    /\ stage' = [stage EXCEPT ![Head(queue)] = "over"]
    /\ queue' = Tail(queue)
    /\ UNCHANGED <<greeting, led, panel, kind, timers, failed, calm, mishaps>>

RestoreText ==
    /\ handler # <<>>
    /\ Display(Head(handler), NoShow)
    /\ handler' = Tail(handler)
    /\ UNCHANGED <<greeting, panel, kind, stage, timers, queue, calm, mishaps>>

(* The exception ends the handler, or one round of its loop.               *)
RestoreThrows ==
    /\ handler # <<>>
    /\ DisplayThrows(Head(handler))
    /\ handler' = Tail(handler)
    /\ UNCHANGED <<greeting, panel, kind, stage, timers, queue, calm>>

-----------------------------------------------------------------------------
Showing(n) ==
    CancelTimers(n) \/ SendText(n) \/ SendThrows(n) \/ PushTimer(n) \/ async_wait(n)

LedNext ==
    \/ \E n \in Shows, d \in Panels, k \in Kinds : BeginShow(n, d, k)
    \/ \E n \in Shows : Showing(n) \/ Expires(n)
    \/ \E d \in Panels : led_show_greeting(d)
    \/ handle_led_show_timer \/ RestoreText \/ RestoreThrows

LedSpec == LedInit /\ [][LedNext]_led_vars

-----------------------------------------------------------------------------
(* Every variable holds a value of its type; a fee to be paid has no       *)
(* timer, and a timer is on no list but that of its kind and panel.        *)
TypeOK ==
    /\ greeting \in BOOLEAN
    /\ led \in [Panels -> Shows \cup {NoShow}]
    /\ panel \in [Shows -> Panels] /\ kind \in [Shows -> Kinds]
    /\ stage \in [Shows -> {"none", "cancel", "send", "push", "wait", "waiting", "queued", "over"}]
    /\ \A n \in Shows : kind[n] = "due" => stage[n] \in {"none", "cancel", "send", "over"}
    /\ \A l \in Lists : \A n \in timers[l] : n \in Shows /\ ListOf(n) = l
    /\ ToSet(queue) \subseteq Shows /\ ToSet(handler) \subseteq Panels
    /\ failed \in [Panels -> BOOLEAN] /\ calm \in [Panels -> Shows \cup {NoShow}]

(* The timer of show n takes its text away.  (Without a greeting the       *)
(* handler for a plate sets the entrances: a plate that a terminal has     *)
(* shown at an exit stays there until the next text.)                      *)
Clears(n) == kind[n] # "due" /\ panel[n] \in ToSet(Restores(n))

(* A text that its timer is to take away always has something that will    *)
(* replace it: a show about to send another text to the panel, a show on   *)
(* the panel whose timer will be started, runs or has expired, or a        *)
(* handler about to set the panel.  However shows of both kinds overlap on *)
(* one panel, and although each cancels the timers of others, only a       *)
(* failing command leaves such a text on the panel for good.               *)
TimedTextEnds ==
    \A d \in Panels : (led[d] # NoShow /\ Clears(led[d])) =>
      \/ failed[d]
      \/ \E n \in Shows :
           /\ panel[n] = d
           /\ \/ stage[n] = "send"
              \/ stage[n] \in {"push", "wait", "waiting", "queued"} /\ Clears(n)
      \/ d \in ToSet(handler)

(* What a car has to pay stays on the panel of an exit until the next text *)
(* for a car or a greeting shown for another reason: a timer started for   *)
(* an earlier fee never wipes it out, if that fee's show was over, its     *)
(* handler was neither queued nor running, its timer was not taken off the *)
(* list before it was started, and no plate was on the panel, when the     *)
(* timers were cancelled.                                                  *)
CalmDueTextStays ==
    \A d \in Exits :
      (calm[d] # NoShow /\ stage[calm[d]] = "over") => failed[d] \/ led[d] = calm[d]
=============================================================================
