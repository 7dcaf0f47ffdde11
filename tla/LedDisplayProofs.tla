-------------------------- MODULE LedDisplayProofs --------------------------
(***************************************************************************)
(* That a text is always replaced if its timer is to do so, and that what  *)
(* a car has to pay is never wiped out by a timer whose show was over, for *)
(* any number of panels and shows.                                         *)
(*                                                                         *)
(* The two invariants speak of a panel; neither is inductive.  What they   *)
(* need beside the types: a list holds timers of shows of its kind on its  *)
(* panel, so that whoever cancels a timer is about to send a text to the   *)
(* same panel, and only a fee to be paid has no timer (ListsOK); the text  *)
(* on a panel is of a show on that panel (TextsOK); and nothing but the    *)
(* calm show itself can touch its panel: no other show, no queued or       *)
(* running handler, no timer that runs (Undisturbed).                      *)
(***************************************************************************)
EXTENDS LedDisplay, FiniteSetTheorems, SequenceTheorems, TLAPS

Stages == {"none", "cancel", "send", "push", "wait", "waiting", "queued", "over"}

Typed ==
    /\ greeting \in BOOLEAN
    /\ led \in [Panels -> Shows \cup {NoShow}]
    /\ panel \in [Shows -> Panels]
    /\ kind \in [Shows -> Kinds]
    /\ stage \in [Shows -> Stages]
    /\ timers \in [Lists -> SUBSET Shows]
    /\ queue \in Seq(Shows)
    /\ handler \in Seq(Panels)
    /\ failed \in [Panels -> BOOLEAN]
    /\ calm \in [Panels -> Shows \cup {NoShow}]

(* A queued handler is of a timer that has expired, and a timer on a list  *)
(* is of a show that has begun and whose list it is.                       *)
ListsOK ==
    /\ \A i \in DOMAIN queue : stage[queue[i]] \in {"queued", "over"}
    /\ \A l \in Lists : \A n \in timers[l] : stage[n] # "none" /\ ListOf(n) = l
    /\ \A n \in Shows : kind[n] = "due" => stage[n] \in {"none", "cancel", "send", "over"}

TextsOK ==
    \A d \in Panels : led[d] # NoShow => stage[led[d]] # "none" /\ panel[led[d]] = d

(* Something will replace the text on panel d.                             *)
Replacing(n) ==
    \/ stage[n] = "send"
    \/ stage[n] \in {"push", "wait", "waiting", "queued"} /\ Clears(n)
Ends(d) ==
    (led[d] # NoShow /\ Clears(led[d])) =>
      failed[d] \/ (\E n \in Shows : panel[n] = d /\ Replacing(n)) \/ d \in ToSet(handler)

(* Nothing but the calm show itself, which is about to send its text, can  *)
(* touch its panel.                                                        *)
Undisturbed(d) ==
    calm[d] # NoShow =>
      /\ panel[calm[d]] = d /\ kind[calm[d]] = "due"
      /\ stage[calm[d]] \in {"send", "over"}
      /\ \A n \in Shows : panel[n] = d /\ n # calm[d] => stage[n] \in {"none", "queued", "over"}
      /\ \A i \in DOMAIN queue : panel[queue[i]] # d
      /\ d \notin ToSet(handler)
Stays(d) ==
    (calm[d] # NoShow /\ stage[calm[d]] = "over") => failed[d] \/ led[d] = calm[d]

Inv ==
    /\ Typed
    /\ ListsOK
    /\ TextsOK
    /\ \A d \in Panels : Ends(d)
    /\ \A d \in Exits : Undisturbed(d) /\ Stays(d)

-----------------------------------------------------------------------------
(* The sequence of a finite set runs through the whole set.                *)
LEMMA SetToSeqIsOnto ==
    ASSUME NEW S, IsFiniteSet(S)
    PROVE  SetToSeq(S) \in Seq(S) /\ ToSet(SetToSeq(S)) = S
  <1> DEFINE f == SetToSeq(S)
             n == Cardinality(S)
  <1>1. n \in Nat /\ \E g \in [1 .. n -> S] : IsInjective(g)
    BY FS_CardinalityType DEF ExistsBijection, Bijection, Injection
  <1>2. f \in [1 .. n -> S] /\ IsInjective(f)
    BY <1>1 DEF SetToSeq
  <1>3. IsFiniteSet(1 .. n) /\ Cardinality(1 .. n) = n
    BY <1>1, FS_Interval
  <1>4. f \in Surjection(1 .. n, S)
    BY <1>2, <1>3, FS_Injection DEF Injection
  <1>5. f \in Seq(S)
    BY <1>1, <1>2
  <1> HIDE DEF f
  <1>6. ToSet(f) = S
    BY <1>2, <1>4 DEF Surjection, ToSet
  <1> QED BY <1>5, <1>6 DEF f

(* A handler sets no exit but its own panel.                               *)
LEMMA RestoresPanels ==
    ASSUME Typed, NEW n \in Shows
    PROVE  /\ Restores(n) \in Seq(Panels)
           /\ \A e \in Exits : e \in ToSet(Restores(n)) => e = panel[n]
  <1>0. panel[n] \in Panels
    BY DEF Typed
  <1>1. CASE kind[n] # "plate" \/ greeting
    BY <1>0, <1>1 DEF Restores, ToSet
  <1>2. CASE ~(kind[n] # "plate" \/ greeting)
    <2>1. Restores(n) = SetToSeq(Entrances)
      BY <1>2 DEF Restores
    <2>2. SetToSeq(Entrances) \in Seq(Entrances) /\ ToSet(SetToSeq(Entrances)) = Entrances
      BY SetToSeqIsOnto, LedAssumption
    <2>3. Restores(n) \in Seq(Panels)
      <3> DEFINE s == SetToSeq(Entrances)
      <3>1. s \in Seq(Entrances) BY <2>2
      <3> HIDE DEF s
      <3>2. s \in Seq(Panels) BY <3>1 DEF Panels
      <3> QED BY <3>2, <2>1 DEF s
    <2> QED BY <1>2, <2>1, <2>2, <2>3, LedAssumption
  <1> QED BY <1>1, <1>2

(* The rest of a sequence, and one element more.                           *)
LEMMA RestOf ==
    ASSUME NEW S, NEW s \in Seq(S), s # <<>>
    PROVE  /\ Head(s) \in S /\ Tail(s) \in Seq(S)
           /\ Head(s) \in ToSet(s)
           /\ ToSet(Tail(s)) \subseteq ToSet(s)
           /\ \A x \in ToSet(s) : x # Head(s) => x \in ToSet(Tail(s))
  <1>1. /\ Len(s) \in Nat \ {0} /\ DOMAIN s = 1 .. Len(s)
        /\ Head(s) = s[1] /\ Tail(s) \in Seq(S) /\ Len(Tail(s)) = Len(s) - 1
        /\ DOMAIN Tail(s) = 1 .. (Len(s) - 1)
        /\ \A i \in 1 .. (Len(s) - 1) : Tail(s)[i] = s[i + 1]
    OBVIOUS
  <1>2. ASSUME NEW i \in DOMAIN s, s[i] # Head(s) PROVE s[i] \in ToSet(Tail(s))
    <2>1. i - 1 \in DOMAIN Tail(s) /\ Tail(s)[i - 1] = s[i]
      BY <1>1, <1>2
    <2> QED BY <2>1 DEF ToSet
  <1>3. ASSUME NEW i \in DOMAIN Tail(s) PROVE Tail(s)[i] \in ToSet(s)
    BY <1>1, <1>3 DEF ToSet
  <1> QED BY <1>1, <1>2, <1>3 DEF ToSet

(* The list of a show is one of the lists.                                 *)
LEMMA ListOfType == ASSUME Typed, NEW n \in Shows PROVE ListOf(n) \in Lists
  BY DEF ListOf, Lists, Typed

(* Where kinds and panels do not change, neither does what a timer clears. *)
LEMMA ClearsKept ==
    ASSUME NEW n \in Shows, greeting' = greeting, panel'[n] = panel[n], kind'[n] = kind[n]
    PROVE  /\ Clears(n)' <=> Clears(n)
           /\ ListOf(n)' = ListOf(n)
  BY DEF Clears, Restores, ListOf

(* The text of a panel that nothing touches still has something to replace *)
(* it, if no show on the panel loses what it would do.                     *)
LEMMA EndsKept ==
    ASSUME NEW d \in Panels, Typed, Ends(d), UNCHANGED <<greeting, panel, kind>>,
           led'[d] = led[d], failed[d] => failed'[d],
           d \in ToSet(handler) => d \in ToSet(handler'),
           \A n \in Shows : panel[n] = d /\ Replacing(n) =>
              \/ stage'[n] = stage[n]
              \/ Clears(n) /\ stage'[n] \in {"push", "wait", "waiting", "queued"}
              \/ Clears(n) /\ d \in ToSet(handler')
              \/ \E m \in Shows : panel[m] = d /\ stage'[m] = "send"
    PROVE  Ends(d)'
  <1>1. \A n \in Shows : Clears(n)' <=> Clears(n)
    BY ClearsKept
  <1>2. led'[d] = led[d] /\ (led[d] # NoShow => led[d] \in Shows)
    BY DEF Typed
  <1> QED BY <1>1, <1>2 DEF Ends, Replacing

(* At the start nothing is shown and no timer runs.                        *)
LEMMA InitOK == LedInit => Inv
  <1> SUFFICES ASSUME LedInit PROVE Inv
    OBVIOUS
  <1> USE DEF LedInit, NoShow
  <1>1. Typed
    BY LedAssumption DEF Typed, Stages, Panels, Kinds
  <1>2. ListsOK /\ TextsOK
    BY DEF ListsOK, TextsOK
  <1>3. \A d \in Panels : Ends(d)
    BY DEF Ends
  <1>4. \A d \in Exits : Undisturbed(d) /\ Stays(d)
    BY DEF Undisturbed, Stays, Panels
  <1> QED BY <1>1, <1>2, <1>3, <1>4 DEF Inv
-----------------------------------------------------------------------------
(* One lemma per action.                                                   *)

(* A new show has a number of its own and ends the calm of its panel.      *)
LEMMA BeginShowKeeps ==
    ASSUME Inv, NEW n \in Shows, NEW d \in Panels, NEW k \in Kinds, BeginShow(n, d, k)
    PROVE  Inv'
  <1> USE DEF Inv
  <1>0. /\ stage[n] = "none"
        /\ stage' = [stage EXCEPT ![n] = "cancel"]
        /\ panel' = [panel EXCEPT ![n] = d]
        /\ kind' = [kind EXCEPT ![n] = k]
        /\ calm' = [calm EXCEPT ![d] = NoShow]
        /\ UNCHANGED <<greeting, led, timers, queue, handler, failed>>
    BY DEF BeginShow
  <1>1. Typed'
    BY <1>0 DEF Typed, Stages, NoShow
  <1>2. /\ \A m \in Shows : m # n => stage'[m] = stage[m] /\ panel'[m] = panel[m] /\ kind'[m] = kind[m]
        /\ stage'[n] = "cancel" /\ panel'[n] = d /\ kind'[n] = k
    BY <1>0 DEF Typed
  <1>3. \A m \in Shows : m # n => (Clears(m)' <=> Clears(m)) /\ ListOf(m)' = ListOf(m)
    BY <1>0, <1>2, ClearsKept
  <1>4. ListsOK'
    <2>1. \A i \in DOMAIN queue : queue[i] \in Shows /\ queue[i] # n
      BY <1>0 DEF ListsOK, Typed
    <2>2. \A l \in Lists : \A m \in timers[l] : m \in Shows /\ m # n
      BY <1>0 DEF ListsOK, Typed
    <2> QED BY <2>1, <2>2, <1>0, <1>2, <1>3 DEF ListsOK
  <1>5. TextsOK'
    <2>1. \A e \in Panels : led[e] # NoShow => led[e] \in Shows /\ led[e] # n
      BY <1>0 DEF TextsOK, Typed
    <2> QED BY <2>1, <1>0, <1>2 DEF TextsOK
  <1>6. ASSUME NEW e \in Panels PROVE Ends(e)'
    <2>1. led[e] # NoShow => led[e] \in Shows /\ led[e] # n
      BY <1>0 DEF TextsOK, Typed
    <2>2. \A m \in Shows : Replacing(m) => m # n /\ Replacing(m)' /\ panel'[m] = panel[m]
      BY <1>0, <1>2, <1>3 DEF Replacing
    <2> QED BY <2>1, <2>2, <1>0, <1>3 DEF Ends
  <1>7. ASSUME NEW e \in Exits PROVE Undisturbed(e)' /\ Stays(e)'
    <2> SUFFICES ASSUME calm'[e] # NoShow PROVE Undisturbed(e)' /\ Stays(e)'
      BY DEF Undisturbed, Stays
    <2>1. e # d /\ calm'[e] = calm[e] /\ calm[e] \in Shows
      BY <1>0 DEF Typed, Panels
    <2>2. calm[e] # n
      BY <2>1, <1>0 DEF Undisturbed
    <2>3. ASSUME NEW i \in DOMAIN queue PROVE queue[i] \in Shows /\ queue[i] # n
      <3>1. stage[queue[i]] # "none"
        BY DEF ListsOK
      <3> QED BY <3>1, <1>0 DEF Typed
    <2>4. \A i \in DOMAIN queue : panel'[queue[i]] # e
      BY <2>1, <2>3, <1>2 DEF Undisturbed
    <2>5. \A m \in Shows : panel'[m] = e /\ m # calm[e] => stage'[m] \in {"none", "queued", "over"}
      BY <2>1, <1>2 DEF Undisturbed
    <2> QED BY <2>1, <2>2, <2>4, <2>5, <1>0, <1>2 DEF Undisturbed, Stays
  <1> QED BY <1>1, <1>4, <1>5, <1>6, <1>7

(* The panel whose timers are cancelled is about to get a text.            *)
LEMMA CancelTimersKeeps ==
    ASSUME Inv, NEW n \in Shows, CancelTimers(n)
    PROVE  Inv'
  <1> DEFINE l == ListOf(n)
             p == panel[n]
  <1> USE DEF Inv
  <1>0. /\ stage[n] = "cancel" /\ p \in Panels /\ l \in Lists
        /\ timers' = [timers EXCEPT ![l] = {}]
        /\ stage' = [m \in Shows |-> IF m = n THEN "send"
                                     ELSE IF m \in timers[l] /\ stage[m] = "waiting"
                                     THEN "over" ELSE stage[m]]
        /\ calm' = [calm EXCEPT ![p] = IF kind[n] = "due" /\ ~Overlapping(n) THEN n ELSE NoShow]
        /\ UNCHANGED <<greeting, led, panel, kind, queue, handler, failed>>
    BY ListOfType DEF CancelTimers, Calm, Typed
  <1>1. /\ \A m \in timers[l] : m \in Shows /\ panel[m] = p
        /\ p = panel[n]
    BY <1>0 DEF ListsOK, ListOf, Typed
  <1>1a. ~Overlapping(n) =>
           /\ \A m \in Shows \ {n} : panel[m] = p => stage[m] \notin {"cancel", "send", "push", "wait"}
           /\ \A m \in Shows : panel[m] = p /\ stage[m] = "waiting" => m \in timers[l]
           /\ \A i \in DOMAIN queue : panel[queue[i]] # p
           /\ p \notin ToSet(handler)
    BY DEF Overlapping
  <1> HIDE DEF l, p
  <1>2. Typed'
    <2>1. stage' \in [Shows -> Stages] BY <1>0 DEF Typed, Stages
    <2>2. timers' \in [Lists -> SUBSET Shows] BY <1>0 DEF Typed
    <2>3. calm' \in [Panels -> Shows \cup {NoShow}] BY <1>0 DEF Typed
    <2> QED BY <2>1, <2>2, <2>3, <1>0 DEF Typed
  <1>3. /\ stage'[n] = "send"
        /\ \A m \in Shows : m # n => \/ stage'[m] = stage[m]
                                     \/ m \in timers[l] /\ stage[m] = "waiting" /\ stage'[m] = "over"
        /\ \A m \in timers[l] : m # n => stage'[m] # "waiting"
        /\ \A m \in Shows : stage[m] # "none" => stage'[m] # "none"
    BY <1>0, <1>1 DEF Typed
  <1>4. ListsOK'
    <2>1. \A i \in DOMAIN queue : queue[i] \in Shows
      BY DEF Typed
    <2>2. \A k \in Lists : timers'[k] \subseteq timers[k] /\ timers[k] \subseteq Shows
      BY <1>0 DEF Typed
    <2>3. \A m \in Shows : ListOf(m)' = ListOf(m)
      BY <1>0, ClearsKept
    <2>4. \A m \in Shows : kind[m] = "due" => stage'[m] \in {"none", "cancel", "send", "over"}
      BY <1>3 DEF ListsOK
    <2> QED BY <2>1, <2>2, <2>3, <2>4, <1>0, <1>3 DEF ListsOK
  <1>5. TextsOK'
    BY <1>0, <1>3 DEF TextsOK, Typed
  <1>6. ASSUME NEW e \in Panels PROVE Ends(e)'
    <2>1. CASE e = p
      <3>1. Replacing(n)' /\ panel'[n] = p
        BY <1>0, <1>1, <1>3 DEF Replacing
      <3> QED BY <2>1, <3>1 DEF Ends
    <2>2. CASE e # p
      <3>1. \A m \in Shows : panel[m] = e => m # n /\ m \notin timers[l]
        BY <1>1, <2>2
      <3>2. \A m \in Shows : panel[m] = e => stage'[m] = stage[m]
        BY <1>3, <3>1
      <3> QED BY <3>2, <1>0, EndsKept
    <2> QED BY <2>1, <2>2
  <1>7. ASSUME NEW e \in Exits PROVE Undisturbed(e)' /\ Stays(e)'
    <2> SUFFICES ASSUME calm'[e] # NoShow PROVE Undisturbed(e)' /\ Stays(e)'
      BY DEF Undisturbed, Stays
    <2>0. e \in Panels
      BY DEF Panels
    <2>1. CASE e = p
      <3>1. calm'[e] = n /\ kind[n] = "due" /\ ~Overlapping(n)
        BY <2>1, <1>0 DEF Typed
      <3>2. \A m \in Shows : panel[m] = p /\ m # n => stage'[m] \in {"none", "queued", "over"}
        BY <3>1, <1>1a, <1>3, <1>2 DEF Typed, Stages
      <3> QED BY <2>1, <3>1, <3>2, <1>0, <1>1, <1>1a, <1>3 DEF Undisturbed, Stays
    <2>2. CASE e # p
      <3>1. calm'[e] = calm[e] /\ calm[e] \in Shows
        BY <2>0, <2>2, <1>0 DEF Typed
      <3>2. \A m \in Shows : panel[m] = e => stage'[m] = stage[m]
        BY <1>1, <1>3, <2>2
      <3> QED BY <3>1, <3>2, <1>0 DEF Undisturbed, Stays
    <2> QED BY <2>1, <2>2
  <1> QED BY <1>2, <1>4, <1>5, <1>6, <1>7

(* The text on the panel is now that of the show.                          *)
LEMMA SendTextKeeps ==
    ASSUME Inv, NEW n \in Shows, SendText(n)
    PROVE  Inv'
  <1> DEFINE p == panel[n]
  <1> USE DEF Inv
  <1>0. /\ stage[n] = "send" /\ p \in Panels
        /\ led' = [led EXCEPT ![p] = n]
        /\ failed' = [failed EXCEPT ![p] = FALSE]
        /\ stage' = [stage EXCEPT ![n] = IF kind[n] = "due" THEN "over" ELSE "push"]
        /\ UNCHANGED <<greeting, panel, kind, timers, queue, handler, calm>>
    BY DEF SendText, Display, Typed
  <1>1. Typed'
    BY <1>0 DEF Typed, Stages
  <1>2. /\ stage'[n] = IF kind[n] = "due" THEN "over" ELSE "push"
        /\ \A m \in Shows : m # n => stage'[m] = stage[m]
        /\ led'[p] = n
        /\ \A e \in Panels : e # p => led'[e] = led[e] /\ failed'[e] = failed[e]
    BY <1>0 DEF Typed
  <1>3. \A m \in Shows : (Clears(m)' <=> Clears(m)) /\ ListOf(m)' = ListOf(m)
    BY <1>0, ClearsKept
  <1>4. p = panel[n]
    OBVIOUS
  <1> HIDE DEF p
  <1>5. ListsOK'
    <2>1. \A i \in DOMAIN queue : queue[i] \in Shows
      BY DEF Typed
    <2>2. \A l \in Lists : timers[l] \subseteq Shows
      BY DEF Typed
    <2> QED BY <2>1, <2>2, <1>0, <1>2, <1>3 DEF ListsOK
  <1>6. TextsOK'
    BY <1>0, <1>2, <1>4 DEF TextsOK, Typed
  <1>7. ASSUME NEW e \in Panels PROVE Ends(e)'
    <2>1. CASE e = p
      <3>1. Clears(n) => kind[n] # "due"
        BY DEF Clears
      <3>2. Clears(n)' => Replacing(n)' /\ panel'[n] = p
        BY <3>1, <1>0, <1>2, <1>3, <1>4 DEF Replacing
      <3> QED BY <2>1, <3>2, <1>2 DEF Ends
    <2>2. CASE e # p
      BY <2>2, <1>0, <1>2, <1>4, EndsKept
    <2> QED BY <2>1, <2>2
  <1>8. ASSUME NEW e \in Exits PROVE Undisturbed(e)' /\ Stays(e)'
    <2> SUFFICES ASSUME calm[e] # NoShow PROVE Undisturbed(e)' /\ Stays(e)'
      BY <1>0 DEF Undisturbed, Stays
    <2>0. e \in Panels /\ calm[e] \in Shows
      BY DEF Panels, Typed
    <2>1. CASE e = p
      <3>1. calm[e] = n
        BY <2>1, <1>0, <1>4 DEF Undisturbed
      <3> QED BY <2>1, <3>1, <1>0, <1>2 DEF Undisturbed, Stays
    <2>2. CASE e # p
      BY <2>0, <2>2, <1>0, <1>2, <1>4 DEF Undisturbed, Stays
    <2> QED BY <2>1, <2>2
  <1> QED BY <1>1, <1>5, <1>6, <1>7, <1>8

(* A panel that did not get its text says so.                              *)
LEMMA SendThrowsKeeps ==
    ASSUME Inv, NEW n \in Shows, SendThrows(n)
    PROVE  Inv'
  <1> DEFINE p == panel[n]
  <1> USE DEF Inv
  <1>0. /\ stage[n] = "send" /\ p \in Panels
        /\ failed' = [failed EXCEPT ![p] = TRUE]
        /\ stage' = [stage EXCEPT ![n] = "over"]
        /\ UNCHANGED <<greeting, led, panel, kind, timers, queue, handler, calm>>
    BY DEF SendThrows, DisplayThrows, Typed
  <1>1. Typed'
    BY <1>0 DEF Typed, Stages
  <1>2. /\ stage'[n] = "over" /\ failed'[p]
        /\ \A m \in Shows : m # n => stage'[m] = stage[m]
        /\ \A e \in Panels : e # p => failed'[e] = failed[e]
    BY <1>0 DEF Typed
  <1>3. \A m \in Shows : (Clears(m)' <=> Clears(m)) /\ ListOf(m)' = ListOf(m)
    BY <1>0, ClearsKept
  <1>4. p = panel[n]
    OBVIOUS
  <1> HIDE DEF p
  <1>5. ListsOK'
    <2>1. \A i \in DOMAIN queue : queue[i] \in Shows
      BY DEF Typed
    <2>2. \A l \in Lists : timers[l] \subseteq Shows
      BY DEF Typed
    <2> QED BY <2>1, <2>2, <1>0, <1>2, <1>3 DEF ListsOK
  <1>6. TextsOK'
    BY <1>0, <1>2 DEF TextsOK, Typed
  <1>7. ASSUME NEW e \in Panels PROVE Ends(e)'
    <2>1. CASE e = p
      BY <2>1, <1>2 DEF Ends
    <2>2. CASE e # p
      BY <2>2, <1>0, <1>2, <1>4, EndsKept
    <2> QED BY <2>1, <2>2
  <1>8. ASSUME NEW e \in Exits PROVE Undisturbed(e)' /\ Stays(e)'
    <2> SUFFICES ASSUME calm[e] # NoShow PROVE Undisturbed(e)' /\ Stays(e)'
      BY <1>0 DEF Undisturbed, Stays
    <2>0. e \in Panels /\ calm[e] \in Shows
      BY DEF Panels, Typed
    <2>1. CASE e = p
      BY <2>0, <2>1, <1>0, <1>2, <1>4 DEF Undisturbed, Stays
    <2>2. CASE e # p
      BY <2>0, <2>2, <1>0, <1>2, <1>4 DEF Undisturbed, Stays
    <2> QED BY <2>1, <2>2
  <1> QED BY <1>1, <1>5, <1>6, <1>7, <1>8

(* A timer is put on its list, started, and expires; none of these is on a *)
(* calm panel.                                                             *)
LEMMA TimerKeeps ==
    ASSUME Inv, NEW n \in Shows, PushTimer(n) \/ async_wait(n) \/ Expires(n)
    PROVE  Inv'
  <1> USE DEF Inv
  <1>0. PICK s \in {"wait", "waiting", "queued"} :
          /\ stage[n] \in {"push", "wait", "waiting"}
          /\ stage' = [stage EXCEPT ![n] = s]
          /\ UNCHANGED <<greeting, led, panel, kind, handler, failed, calm>>
    BY DEF PushTimer, async_wait, Expires
  <1>1. /\ timers' \in [Lists -> SUBSET Shows]
        /\ \A l \in Lists : \A m \in timers'[l] : m \in timers[l] \/ (m = n /\ l = ListOf(n))
    <2>1. CASE timers' = timers
      BY <2>1 DEF Typed
    <2>2. CASE PushTimer(n)
      <3>1. ListOf(n) \in Lists /\ timers' = [timers EXCEPT ![ListOf(n)] = @ \cup {n}]
        BY <2>2, ListOfType DEF PushTimer
      <3> QED BY <3>1 DEF Typed
    <2> QED BY <2>1, <2>2 DEF async_wait, Expires
  <1>2. /\ queue' \in Seq(Shows)
        /\ \A i \in DOMAIN queue' : \/ queue'[i] = n
                                    \/ i \in DOMAIN queue /\ queue'[i] = queue[i]
    <2>1. CASE queue' = queue
      BY <2>1 DEF Typed
    <2>2. CASE queue' = Append(queue, n)
      BY <2>2 DEF Typed
    <2> QED BY <2>1, <2>2 DEF PushTimer, async_wait, Expires
  <1>3. Typed'
    BY <1>0, <1>1, <1>2 DEF Typed, Stages
  <1>4. stage'[n] = s /\ \A m \in Shows : m # n => stage'[m] = stage[m]
    BY <1>0 DEF Typed
  <1>5. \A m \in Shows : (Clears(m)' <=> Clears(m)) /\ ListOf(m)' = ListOf(m)
    BY <1>0, ClearsKept
  <1>6. ListsOK'
    <2>1. \A i \in DOMAIN queue' : queue'[i] \in Shows /\ stage'[queue'[i]] \in {"queued", "over"}
      <3>1. CASE Expires(n)
        BY <3>1, <1>0, <1>2, <1>4 DEF Typed, ListsOK, Expires
      <3>2. CASE queue' = queue
        BY <3>2, <1>0, <1>4 DEF Typed, ListsOK
      <3> QED BY <3>1, <3>2 DEF PushTimer, async_wait
    <2>2. \A l \in Lists : \A m \in timers'[l] : m \in Shows /\ stage'[m] # "none" /\ ListOf(m)' = l
      BY <1>0, <1>1, <1>4, <1>5 DEF Typed, ListsOK
    <2>3. \A m \in Shows : kind'[m] = "due" => stage'[m] \in {"none", "cancel", "send", "over"}
      BY <1>0, <1>4 DEF ListsOK
    <2> QED BY <2>1, <2>2, <2>3 DEF ListsOK
  <1>7. TextsOK'
    BY <1>0, <1>4 DEF TextsOK, Typed
  <1>8. ASSUME NEW e \in Panels PROVE Ends(e)'
    <2>1. \A m \in Shows : Replacing(m) =>
            \/ stage'[m] = stage[m]
            \/ Clears(m) /\ stage'[m] \in {"push", "wait", "waiting", "queued"}
      BY <1>0, <1>4 DEF Replacing
    <2> QED BY <2>1, <1>0, EndsKept
  <1>9. ASSUME NEW e \in Exits PROVE Undisturbed(e)' /\ Stays(e)'
    <2> SUFFICES ASSUME calm[e] # NoShow PROVE Undisturbed(e)' /\ Stays(e)'
      BY <1>0 DEF Undisturbed, Stays
    <2>0. e \in Panels /\ calm[e] \in Shows
      BY DEF Panels, Typed
    <2>1. panel[n] # e /\ calm[e] # n
      BY <1>0 DEF Undisturbed
    <2>2. \A i \in DOMAIN queue' : panel[queue'[i]] # e
      BY <2>1, <1>2 DEF Undisturbed
    <2> QED BY <2>0, <2>1, <2>2, <1>0, <1>4 DEF Undisturbed, Stays
  <1> QED BY <1>3, <1>6, <1>7, <1>8, <1>9

(* A resting text shown by others ends the calm of its panel.              *)
LEMMA GreetingKeeps ==
    ASSUME Inv, NEW d \in Panels, led_show_greeting(d)
    PROVE  Inv'
  <1> USE DEF Inv
  <1>0. /\ led' = [led EXCEPT ![d] = NoShow]
        /\ failed' = [failed EXCEPT ![d] = FALSE]
        /\ calm' = [calm EXCEPT ![d] = NoShow]
        /\ UNCHANGED <<greeting, panel, kind, stage, timers, queue, handler>>
    BY DEF led_show_greeting, Display
  <1>1. Typed'
    BY <1>0 DEF Typed
  <1>2. ListsOK'
    BY <1>0 DEF ListsOK, ListOf
  <1>3. TextsOK'
    BY <1>0 DEF TextsOK, Typed
  <1>4. ASSUME NEW e \in Panels PROVE Ends(e)'
    <2>1. CASE e = d
      BY <2>1, <1>0 DEF Ends, Typed
    <2>2. CASE e # d
      <3>1. led'[e] = led[e] /\ failed'[e] = failed[e]
        BY <2>2, <1>0 DEF Typed
      <3> QED BY <3>1, <1>0, EndsKept
    <2> QED BY <2>1, <2>2
  <1>5. \A e \in Exits : calm'[e] # NoShow =>
          calm'[e] = calm[e] /\ led'[e] = led[e] /\ failed'[e] = failed[e]
    BY <1>0 DEF Typed, Panels
  <1>6. ASSUME NEW e \in Exits PROVE Undisturbed(e)' /\ Stays(e)'
    <2> SUFFICES ASSUME calm'[e] # NoShow PROVE Undisturbed(e)' /\ Stays(e)'
      BY DEF Undisturbed, Stays
    <2>1. calm'[e] = calm[e] /\ led'[e] = led[e] /\ failed'[e] = failed[e]
      BY <1>5
    <2> QED BY <2>1, <1>0 DEF Undisturbed, Stays
  <1> QED BY <1>1, <1>2, <1>3, <1>4, <1>6

(* The handler that starts takes the place of its timer.                   *)
LEMMA HandlerKeeps ==
    ASSUME Inv, handle_led_show_timer
    PROVE  Inv'
  <1> DEFINE n == Head(queue)
             s == Restores(n)
  <1> USE DEF Inv
  <1>0. /\ n \in Shows
        /\ Tail(queue) \in Seq(Shows)
        /\ handler = <<>>
        /\ handler' = s
        /\ stage' = [stage EXCEPT ![n] = "over"]
        /\ queue' = Tail(queue)
        /\ UNCHANGED <<greeting, led, panel, kind, timers, failed, calm>>
    BY DEF handle_led_show_timer, Typed
  <1>1. /\ s \in Seq(Panels)
        /\ \A e \in Exits : e \in ToSet(s) => e = panel[n]
        /\ Clears(n) => panel[n] \in ToSet(s)
    BY <1>0, RestoresPanels DEF Clears
  <1>2. /\ 1 \in DOMAIN queue /\ queue[1] = n
        /\ \A i \in DOMAIN queue' : i + 1 \in DOMAIN queue /\ queue'[i] = queue[i + 1]
    BY <1>0 DEF handle_led_show_timer, Typed
  <1> HIDE DEF n, s
  <1>3. Typed'
    BY <1>0, <1>1 DEF Typed, Stages
  <1>4. /\ \A m \in Shows : m # n => stage'[m] = stage[m]
        /\ stage'[n] = "over"
        /\ stage[n] # "none"
    BY <1>0, <1>2 DEF Typed, ListsOK
  <1>5. ListsOK'
    <2>1. \A i \in DOMAIN queue : queue[i] \in Shows
      BY DEF Typed
    <2>2. \A l \in Lists : timers[l] \subseteq Shows
      BY DEF Typed
    <2>3. \A m \in Shows : ListOf(m)' = ListOf(m)
      BY <1>0, ClearsKept
    <2> QED BY <2>1, <2>2, <2>3, <1>0, <1>2, <1>4 DEF ListsOK
  <1>6. TextsOK'
    BY <1>0, <1>4 DEF TextsOK, Typed
  <1>7. ASSUME NEW e \in Panels PROVE Ends(e)'
    <2>1. e \notin ToSet(handler)
      BY <1>0 DEF ToSet
    <2>2. \A m \in Shows : panel[m] = e /\ Replacing(m) =>
            stage'[m] = stage[m] \/ (Clears(m) /\ e \in ToSet(handler'))
      BY <1>0, <1>1, <1>2, <1>4 DEF Replacing, ListsOK
    <2> QED BY <2>1, <2>2, <1>0, EndsKept
  <1>8. ASSUME NEW e \in Exits PROVE Undisturbed(e)' /\ Stays(e)'
    <2> SUFFICES ASSUME calm[e] # NoShow PROVE Undisturbed(e)' /\ Stays(e)'
      BY <1>0 DEF Undisturbed, Stays
    <2>0. e \in Panels /\ calm[e] \in Shows
      BY DEF Panels, Typed
    <2>1. e # panel[n] /\ \A i \in DOMAIN queue' : panel[queue'[i]] # e
      BY <1>2 DEF Undisturbed
    <2>2. e \notin ToSet(s) /\ calm[e] # n
      BY <2>1, <1>1 DEF Undisturbed
    <2> QED BY <2>0, <2>1, <2>2, <1>0, <1>4 DEF Undisturbed, Stays
  <1> QED BY <1>3, <1>5, <1>6, <1>7, <1>8

(* A handler sets no panel that is calm, or says so where it could not.    *)
LEMMA RestoreKeeps ==
    ASSUME Inv, RestoreText \/ RestoreThrows
    PROVE  Inv'
  <1> DEFINE d == Head(handler)
  <1> USE DEF Inv
  <1>0. /\ \/ led' = [led EXCEPT ![d] = NoShow] /\ failed' = [failed EXCEPT ![d] = FALSE]
           \/ led' = led /\ failed' = [failed EXCEPT ![d] = TRUE]
        /\ handler' = Tail(handler) /\ handler \in Seq(Panels) /\ handler # <<>>
        /\ UNCHANGED <<greeting, panel, kind, stage, timers, queue, calm>>
    BY DEF RestoreText, RestoreThrows, Display, DisplayThrows, Typed
  <1>1. /\ d \in Panels /\ handler' \in Seq(Panels) /\ d \in ToSet(handler)
        /\ ToSet(handler') \subseteq ToSet(handler)
        /\ \A e \in ToSet(handler) : e # d => e \in ToSet(handler')
    BY <1>0, RestOf
  <1> HIDE DEF d
  <1>2. Typed'
    BY <1>0, <1>1 DEF Typed
  <1>3. /\ led'[d] = NoShow \/ failed'[d]
        /\ \A e \in Panels : e # d => led'[e] = led[e] /\ failed'[e] = failed[e]
        /\ \A e \in Panels : led'[e] # NoShow => led'[e] = led[e]
    BY <1>0, <1>1 DEF Typed
  <1>4. ListsOK' /\ TextsOK'
    BY <1>0, <1>3 DEF ListsOK, ListOf, TextsOK
  <1>5. ASSUME NEW e \in Panels PROVE Ends(e)'
    <2>1. CASE e = d
      BY <2>1, <1>3 DEF Ends
    <2>2. CASE e # d
      BY <2>2, <1>0, <1>1, <1>3, EndsKept
    <2> QED BY <2>1, <2>2
  <1>6. ASSUME NEW e \in Exits PROVE Undisturbed(e)' /\ Stays(e)'
    <2> SUFFICES ASSUME calm[e] # NoShow PROVE Undisturbed(e)' /\ Stays(e)'
      BY <1>0 DEF Undisturbed, Stays
    <2>1. e \in Panels /\ e # d /\ e \notin ToSet(handler')
      BY <1>1 DEF Undisturbed, Panels
    <2> QED BY <2>1, <1>0, <1>3 DEF Undisturbed, Stays
  <1> QED BY <1>2, <1>4, <1>5, <1>6

-----------------------------------------------------------------------------
(* Every step keeps the inductive invariant.                               *)
LEMMA NextOK == Inv /\ [LedNext]_led_vars => Inv'
  <1> SUFFICES ASSUME Inv, [LedNext]_led_vars PROVE Inv'
    OBVIOUS
  <1>1. CASE \E n \in Shows, d \in Panels, k \in Kinds : BeginShow(n, d, k)
    BY <1>1, BeginShowKeeps
  <1>2. CASE \E n \in Shows : Showing(n) \/ Expires(n)
    BY <1>2, CancelTimersKeeps, SendTextKeeps, SendThrowsKeeps, TimerKeeps DEF Showing
  <1>3. CASE \E d \in Panels : led_show_greeting(d)
    BY <1>3, GreetingKeeps
  <1>4. CASE handle_led_show_timer
    BY <1>4, HandlerKeeps
  <1>5. CASE RestoreText \/ RestoreThrows
    BY <1>5, RestoreKeeps
  <1>6. CASE UNCHANGED led_vars
    <2>1. Typed' /\ ListsOK' /\ TextsOK'
      BY <1>6 DEF led_vars, Inv, Typed, ListsOK, ListOf, TextsOK
    <2>2. \A d \in Panels : Ends(d)'
      BY <1>6, EndsKept DEF led_vars, Inv
    <2>3. \A d \in Exits : Undisturbed(d)' /\ Stays(d)'
      BY <1>6 DEF led_vars, Inv, Undisturbed, Stays
    <2> QED BY <2>1, <2>2, <2>3 DEF Inv
  <1> QED BY <1>1, <1>2, <1>3, <1>4, <1>5, <1>6 DEF LedNext

(* The inductive invariant holds in every reachable state.                 *)
LEMMA InvAlways == LedSpec => []Inv
  BY InitOK, NextOK, PTL DEF LedSpec

(* The state of the panels, shows and timers keeps its types, with fees    *)
(* and plates shown on any panel: a fee to be paid never gets a timer, and *)
(* a timer is on no list but that of its kind and panel.                   *)
THEOREM TypeCorrect == LedSpec => []TypeOK
  <1>1. Inv => TypeOK
    <2> SUFFICES ASSUME Inv PROVE TypeOK
      OBVIOUS
    <2>1. Typed /\ ListsOK
      BY DEF Inv
    <2>2. ToSet(queue) \subseteq Shows /\ ToSet(handler) \subseteq Panels
      BY <2>1 DEF Typed, ToSet
    <2>3. \A l \in Lists : \A n \in timers[l] : n \in Shows /\ ListOf(n) = l
      BY <2>1 DEF Typed, ListsOK
    <2> QED BY <2>1, <2>2, <2>3 DEF TypeOK, Typed, Stages, ListsOK
  <1> QED BY <1>1, InvAlways, PTL

(* However shows of both kinds overlap on a panel, a text on it that its   *)
(* timer is to take away has a show, a timer or a handler that will        *)
(* replace it, unless a command failed.                                    *)
THEOREM TextsEnd == LedSpec => []TimedTextEnds
  <1>1. Inv => TimedTextEnds
    BY DEF Inv, Ends, Replacing, TimedTextEnds
  <1> QED BY <1>1, InvAlways, PTL

(* No timer of an earlier text wipes out what a car has to pay at an exit, *)
(* if nothing overlapped with its show when the timers were cancelled.     *)
THEOREM DueTextStays == LedSpec => []CalmDueTextStays
  <1>1. Inv => CalmDueTextStays
    BY DEF Inv, Stays, CalmDueTextStays
  <1> QED BY <1>1, InvAlways, PTL
=============================================================================
